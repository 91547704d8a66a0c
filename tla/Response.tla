------------------------------ MODULE Response ------------------------------
(***************************************************************************)
(* The answer of the one backend of an endpoint on its way to the client:  *)
(* the status handler and the parser of the HTTP proxy, the formatter, the *)
(* static middleware, the handler of the router and its render.            *)
(***************************************************************************)
EXTENDS FormatData

CONSTANT Given   \* the pairs of an endpoint and a backend's answer to look at

DottedNames == Seq(Names) \ {<<>>}

Formatted(f) ==
  /\ f.target \in Seq(Names) /\ f.allow \in Seq(DottedNames) /\ f.deny \in Seq(DottedNames)
  /\ DOMAIN f.mapping \subseteq Names /\ f.group \in Names \cup {""}
  /\ \A k \in DOMAIN f.mapping : f.mapping[k] \in DottedNames

Endpoint(e) ==
  /\ e.router \in {"gin", "mux"} /\ e.onError \in {"default", "code", "details"}
  /\ e.output \in {"json", "yaml", "string", "xml", "json-collection", "negotiate", "no-op", "other"}
  /\ e.encoding \in {"json", "string", "xml", "no-op", "other"}
  /\ e.output = "no-op" => e.encoding = "no-op"
  /\ e.static \in {"none", "always", "success", "errored", "complete", "incomplete"}
  /\ Formatted(e.format)

\* The encoding is the backend's; "other" stands for every name without render.
\* A status of 0 stands for a round trip that fails.
ASSUME GivenAssumption ==
  /\ \A g \in Given : /\ Endpoint(g[1])
                      /\ g[2].status \in Nat /\ g[2].decodes \in BOOLEAN
  /\ \A d \in {g[2].doc : g \in Given} : d.dict /\ Document(d)

Nil == [none |-> TRUE]   \* Go's nil

VARIABLES endpoint, \* how the endpoint is configured
          answer,   \* what the backend answers
          ctx,      \* the context of the request: "live" or "ended"
          stage,    \* the function that is next
          data,     \* the document under work
          filtered, \* the document after the filters
          todo,     \* the entries of the mapping that are still to be applied
          resp,     \* the proxy's response, or Nil
          err,      \* the proxy's error, "" for none
          client    \* what the client gets, Nil before

vars == <<endpoint, answer, ctx, stage, data, filtered, todo, resp, err, client>>
given == <<endpoint, answer>>

Format == endpoint.format
NoOp == endpoint.encoding = "no-op"
Errors == {"context", "transport", "invalid status", "status code", "decode", "internal"}

Init ==
  /\ \E g \in Given : endpoint = g[1] /\ answer = g[2]
  /\ ctx = "live" /\ stage = "round trip"
  /\ data = EmptyDict /\ filtered = EmptyDict /\ todo = {}
  /\ resp = Nil /\ err = "" /\ client = Nil

\* The endpoint's timeout, or the client leaving.
ContextEnds ==
  /\ ctx = "live" /\ stage # "done" /\ ctx' = "ended"
  /\ UNCHANGED <<given, stage, data, filtered, todo, resp, err, client>>

Returns(r, e) ==
  /\ stage' = "static" /\ resp' = r /\ err' = e
  /\ UNCHANGED <<given, ctx, data, filtered, todo, client>>

-----------------------------------------------------------------------------
(* proxy/http.go and transport/http/client/status.go *)

RoundTrip ==
  /\ stage = "round trip"
  /\ IF ctx = "ended"           THEN Returns(Nil, "context")
     ELSE IF answer.status = 0 THEN Returns(Nil, "transport")
     ELSE /\ stage' = "status"
          /\ UNCHANGED <<given, ctx, data, filtered, todo, resp, err, client>>

StatusOK == answer.status \in {200, 201}

\* With return_error_details the body of the error becomes a response.
HTTPStatusHandler ==
  /\ stage = "status"
  /\ CASE NoOp \/ StatusOK -> /\ stage' = "parse"
                              /\ UNCHANGED <<given, ctx, data, filtered, todo, resp, err, client>>
       [] ~(NoOp \/ StatusOK) /\ endpoint.onError = "details" ->
            Returns([data |-> Put(EmptyDict, "error_backend", Leaf("details")),
                     complete |-> FALSE, status |-> answer.status], "")
       [] ~(NoOp \/ StatusOK) /\ endpoint.onError = "code"    -> Returns(Nil, "status code")
       [] ~(NoOp \/ StatusOK) /\ endpoint.onError = "default" -> Returns(Nil, "invalid status")

ParseNoOp ==
  /\ stage = "parse" /\ NoOp
  /\ Returns([data |-> EmptyDict, complete |-> FALSE, status |-> answer.status], "")

ParseFails ==
  /\ stage = "parse" /\ ~NoOp /\ ~answer.decodes
  /\ Returns(Nil, "decode")

-----------------------------------------------------------------------------
(* proxy/formatter.go: entityFormatter.Format *)

Parse ==
  /\ stage = "parse" /\ ~NoOp /\ answer.decodes
  /\ data' = ExtractTarget(Format.target, answer.doc)
  /\ stage' = "filter"
  /\ UNCHANGED <<given, ctx, filtered, todo, resp, err, client>>

Filter ==
  /\ stage = "filter"
  /\ data' = IF Keys(data) = {} THEN data ELSE NewPropertyFilter(Format, data)
  /\ filtered' = data'
  /\ todo' = IF Keys(data') = {} THEN {} ELSE DOMAIN Format.mapping
  /\ stage' = "rename"
  /\ UNCHANGED <<given, ctx, resp, err, client>>

\* The mapping is walked in the order of a Go map: any.
Rename ==
  /\ stage = "rename"
  /\ \E key \in todo :
       /\ data' = Renamed(data, key, NewName(Format, key))
       /\ todo' = todo \ {key}
  /\ UNCHANGED <<given, ctx, stage, filtered, resp, err, client>>

Group ==
  /\ stage = "rename" /\ todo = {}
  /\ Returns([data |-> Grouped(Format, data), complete |-> TRUE, status |-> 0], "")

-----------------------------------------------------------------------------
(* proxy/static.go *)

Match ==
  CASE endpoint.static = "none"       -> FALSE
    [] endpoint.static = "always"     -> TRUE
    [] endpoint.static = "success"    -> err = ""
    [] endpoint.static = "errored"    -> err # ""
    [] endpoint.static = "complete"   -> err = "" /\ resp # Nil /\ resp.complete
    [] endpoint.static = "incomplete" -> resp = Nil \/ ~resp.complete

NewResponseComplete == [data |-> EmptyDict, complete |-> TRUE, status |-> 0]

NewResponse == [data |-> EmptyDict, complete |-> FALSE, status |-> 0]

\* The data is added to the response there is, or to a new one.
WithStaticIfAny(r) ==
  IF r = Nil THEN NewResponse ELSE [r EXCEPT !.data = Put(@, "static", Leaf("static"))]

WithStatic(r) ==
  [(IF r = Nil THEN NewResponse ELSE r) EXCEPT !.data = Put(@, "static", Leaf("static"))]

StaticMiddleware ==
  /\ stage = "static" /\ stage' = "handler"
  /\ resp' = IF Match THEN WithStatic(resp) ELSE resp
  /\ UNCHANGED <<given, ctx, data, filtered, todo, err, client>>

-----------------------------------------------------------------------------
(* The handlers and the renders of router/gin and router/mux. *)

HandlerErr == IF ctx = "ended" /\ err = "" THEN "internal" ELSE err

HasData == resp # Nil /\ Keys(resp.data) # {}
\* The header X-Pucora-Completed, which Cache-Control goes with.
Completed == HasData /\ resp.complete

\* gin sends the error when there is no response, mux when it has no data.
SendsErrorOfResponse ==
  /\ HandlerErr # ""
  /\ IF endpoint.router = "gin" THEN resp # Nil ELSE ~HasData

SendsError ==
  /\ HandlerErr # ""
  /\ IF endpoint.router = "gin" THEN resp = Nil ELSE ~HasData

StatusOfError == IF HandlerErr = "status code" THEN answer.status ELSE 500

\* What a render shows of the data: all, one value, if it is text or whatever
\* it is, or the backend's body.
OneValue(key) ==
  IF resp # Nil /\ key \in Keys(resp.data) THEN resp.data.kids[key] ELSE EmptyDict

Shown(render) ==
  CASE render = "whole"      -> IF resp = Nil THEN EmptyDict ELSE resp.data
    [] render = "text"       -> IF OneValue("content").dict THEN EmptyDict ELSE OneValue("content")
    [] render = "content"    -> OneValue("content")
    [] render = "collection" -> OneValue("collection")
    [] render = "stream"     -> EmptyDict

Registered(router) ==
  {"string", "json", "no-op", "json-collection"}
    \cup IF router = "gin" THEN {"xml", "yaml", "negotiate"} ELSE {}

\* Without a render for the output, that for the backend's encoding, or JSON's.
GetRender(ep) ==
  IF ep.output \in Registered(ep.router) THEN ep.output
  ELSE IF ep.encoding \in Registered(ep.router) THEN ep.encoding ELSE "json"

\* Which it is after a negotiation is up to the client.
RendersOf(ep) ==
  LET name == GetRender(ep)
  IN  CASE name \in {"json", "yaml"}  -> {"whole"}
        [] name = "string"          -> {"text"}
        [] name = "xml"             -> {"content"}
        [] name = "json-collection" -> {"collection"}
        [] name = "negotiate"       -> {"whole", "content"}
        [] name = "no-op"           -> {"stream"}

\* The no-op render takes the backend's status, and 500 without a response.
StatusRendered(render) ==
  IF render # "stream" THEN 200
  ELSE IF resp = Nil THEN 500 ELSE IF resp.status = 0 THEN 200 ELSE resp.status

SendError ==
  /\ stage = "handler" /\ SendsError
  /\ client' = [status |-> StatusOfError, completed |-> Completed,
               render |-> "error", body |-> Leaf("error")]
  /\ stage' = "done"
  /\ UNCHANGED <<given, ctx, data, filtered, todo, resp, err>>

Render ==
  /\ stage = "handler" /\ ~SendsError
  /\ \E render \in RendersOf(endpoint) :
       client' = [status |-> StatusRendered(render), completed |-> Completed,
                  render |-> render, body |-> Shown(render)]
  /\ stage' = "done"
  /\ UNCHANGED <<given, ctx, data, filtered, todo, resp, err>>

Done == stage = "done" /\ UNCHANGED vars

Next ==
  \/ ContextEnds \/ RoundTrip \/ HTTPStatusHandler \/ ParseNoOp \/ ParseFails
  \/ Parse \/ Filter \/ Rename \/ Group \/ StaticMiddleware \/ SendError \/ Render \/ Done

Spec == Init /\ [][Next]_vars

-----------------------------------------------------------------------------
TypeOK ==
  /\ ctx \in {"live", "ended"} /\ data.dict /\ filtered.dict
  /\ stage \in {"round trip", "status", "parse", "filter", "rename", "static", "handler", "done"}
  /\ todo \subseteq DOMAIN Format.mapping
  /\ resp # Nil => resp.data.dict /\ resp.complete \in BOOLEAN /\ resp.status \in Nat
  /\ err \in Errors \cup {""} /\ (resp # Nil => err = "" \/ "static" \in Keys(resp.data))
  /\ (client # Nil) = (stage = "done")
  /\ client # Nil => client.status \in Nat /\ client.completed \in BOOLEAN

\* What the names of a format select: the entries under its target, without
\* those under a denied name, or those on the way to or under an allowed one
\* that is there.
Below(target, nodes) ==
  {SubSeq(p, Len(target) + 1, Len(p)) : p \in {q \in nodes : IsStrictPrefix(target, q)}}

Comparable(p, q) == IsPrefix(p, q) \/ IsPrefix(q, p)

\* Of two allowed names one of which extends the other, the later counts.
EffectiveAllow(list) ==
  {list[i] : i \in {j \in 1..Len(list) :
                     \A l \in j + 1..Len(list) : ~Comparable(list[j], list[l])}}

Selected(format, nodes) ==
  IF format.allow # <<>>
  THEN {p \in nodes : \E q \in EffectiveAllow(format.allow) \cap nodes : Comparable(p, q)}
  ELSE {p \in nodes : ~\E n \in 1..Len(format.deny) : IsPrefix(format.deny[n], p)}

\* The trees that the filters build from dotted names and prune recursively
\* select what the names say: a denied name takes away all that is below it,
\* whatever the order of the list; an allowed one keeps all that is below it,
\* and dictionaries nothing of which is allowed disappear.
FilteredExactly ==
  stage = "rename" =>
    Nodes(filtered) = Selected(Format, Below(Format.target, Nodes(answer.doc)))

\* As long as no new name is a name in use, the order in which Go walks the
\* mapping does not show: all values are there, each under its new name.
RenamedInAnyOrder ==
  LET old    == DOMAIN Format.mapping \cap Keys(filtered)
      new(k) == NewName(Format, k)
  IN stage = "rename" /\ todo = {} /\ (\A k, l \in old : new(k) = new(l) => k = l)
       /\ (\A k \in old : new(k) \notin Keys(filtered) \cup DOMAIN Format.mapping)
     => /\ Keys(data) = (Keys(filtered) \ old) \cup {new(k) : k \in old}
        /\ \A k \in Keys(filtered) :
             data.kids[IF k \in old THEN new(k) ELSE k] = filtered.kids[k]

\* The value under a key of a document, nothing without one.
ValueAt(d, key) == IF key \in Keys(d) THEN d.kids[key] ELSE EmptyDict

\* The header that says the response is complete is sent only if the backend
\* succeeded and its document was decoded: static data and error details never
\* pass for it.  It speaks of the proxy's response, not of the body: the
\* renders of the whole show all that the formatter left, but those of one
\* value show that value, or nothing, under the same header.
CompletedFromSuccess ==
  client # Nil /\ client.completed =>
    LET whole == Grouped(Format, data)
        shown(k) == k \in Keys(client.body) /\ client.body.kids[k] = whole.kids[k]
    IN /\ ~NoOp /\ StatusOK /\ answer.decodes /\ err = ""
       /\ client.render \in {"whole", "text", "content", "collection"}
       /\ client.render = "whole" => \A k \in Keys(whole) \ {"static"} : shown(k)
       /\ client.render = "text" => client.body \in {ValueAt(whole, "content"), EmptyDict}
       /\ client.render = "content" => client.body = ValueAt(whole, "content")
       /\ client.render = "collection" => client.body = ValueAt(whole, "collection")

\* The client sees a success only if the backend had one, or the endpoint is
\* configured to hand on the backend's own status, or to answer all the same,
\* with static data or the details of the error.  A no-op backend without the
\* no-op render is the exception: its status is lost.
ErrorNotDisguised ==
  client # Nil /\ client.status < 400 =>
    \/ StatusOK /\ (NoOp \/ answer.decodes)
    \/ client.status = answer.status /\ ~StatusOK /\ (NoOp \/ endpoint.onError = "code")
    \/ endpoint.static # "none"
    \/ answer.status # 0 /\ ~StatusOK /\ endpoint.onError = "details" /\ ~NoOp
    \/ answer.status # 0 /\ NoOp /\ RendersOf(endpoint) # {"stream"}
=============================================================================
