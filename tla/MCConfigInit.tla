---------------------------- MODULE MCConfigInit ----------------------------
(***************************************************************************)
(* Every value of every field occurs, and together with every value of the *)
(* fields it is checked against: one backend in all its forms, two plain   *)
(* backends, two endpoints, an agent, and the service in all its forms     *)
(* around a few endpoints.  Sorted as bytes, "Id" < "a.b" < "id" < "resp0". *)
(***************************************************************************)
EXTENDS ConfigInit

MCNameOrder       == <<"Id", "a.b", "id", "resp0_x">>
MCStrictNames     == {"Id", "id"}
MCSequentialNames == {"resp0_x"}
MCKey == [n \in ToSet(MCNameOrder) |->
            CASE n \in {"Id", "id"} -> "{.Id}" [] n = "a.b" -> "{.A.b}" [] OTHER -> "{.Resp0_x}"]

PlainBackend ==
  [method |-> "", host |-> <<>>, hostSanitizationDisabled |-> FALSE, urlPattern |-> <<>>,
   encoding |-> "", sdScheme |-> "", extraConfig |-> {}]
PlainEndpoint ==
  [path |-> "allowed", placeholders |-> <<>>, method |-> "", backend |-> <<PlainBackend>>,
   concurrentCalls |-> 0, timeout |-> Bad, cacheTTL |-> Bad, extraConfig |-> {},
   outputEncoding |-> ""]
PlainAgent ==
  [consumerTimeout |-> Bad, workers |-> 0, healthInterval |-> Bad, backend |-> <<PlainBackend>>]
PlainService ==
  [version |-> 3, port |-> 0, address |-> "", host |-> <<"bare">>, timeout |-> Bad,
   cacheTTL |-> 7, writeTimeout |-> Bad, responseHeaderTimeout |-> Bad, outputEncoding |-> "",
   disableStrictREST |-> FALSE, endpoints |-> <<PlainEndpoint>>, asyncAgents |-> <<>>]

NoOpEndpoint == [PlainEndpoint EXCEPT !.outputEncoding = "no-op"]

Backends ==   \* differing in hosts and encodings
  {[PlainBackend EXCEPT !.host = h, !.hostSanitizationDisabled = d, !.encoding = enc] :
     h \in {<<>>, <<"bare">>, <<"clean", "invalid">>}, d \in BOOLEAN, enc \in {"", "json", "no-op"}}

BackendLists == {<<>>} \cup {<<x>> : x \in Backends}
  \cup {<<x, [PlainBackend EXCEPT !.host = h]>> : x \in Backends, h \in {<<>>, <<"bare">>, <<"invalid">>}}

Globals ==
  {[PlainService EXCEPT !.version = v, !.address = a, !.host = h, !.timeout = t,
      !.writeTimeout = w, !.responseHeaderTimeout = r, !.outputEncoding = enc,
      !.endpoints = eps] :
     v \in {2, 3}, a \in {"", "ip", "host name"}, h \in {<<>>, <<"bare">>, <<"invalid">>},
     t \in {Bad, -1, 5}, w \in {Bad, 1}, r \in {Bad, 29, 30}, enc \in {"", "no-op"},
     eps \in {<<>>, <<PlainEndpoint>>, <<NoOpEndpoint, PlainEndpoint>>}}

Streams ==
  {[PlainService EXCEPT !.outputEncoding = s, !.endpoints = <<
      [PlainEndpoint EXCEPT !.outputEncoding = enc, !.extraConfig = x,
         !.backend = <<[PlainBackend EXCEPT !.encoding = be, !.extraConfig = bx]>>]>>] :
     s \in {"", "no-op"}, enc \in Encodings, be \in Encodings,
     x \in {{f} : f \in Features} \cup {{}}, bx \in {{}, {"http cache"}, {"martian response"}}}

Patterns == {<<>>, <<"id">>, <<"id", "a.b">>, <<"id", "Id", "id">>, <<"resp0_x", "id">>, <<"a.b">>}
Params ==
  {[PlainService EXCEPT !.disableStrictREST = d, !.endpoints = <<
      [PlainEndpoint EXCEPT !.placeholders = in,
         !.backend = <<[PlainBackend EXCEPT !.urlPattern = p], [PlainBackend EXCEPT !.urlPattern = q]>>]>>] :
     d \in BOOLEAN, in \in Patterns, p \in Patterns, q \in Patterns}

Endpoints ==
  {[PlainService EXCEPT !.outputEncoding = s, !.endpoints = <<
      [PlainEndpoint EXCEPT !.path = p, !.backend = bs, !.outputEncoding = enc, !.timeout = t,
         !.concurrentCalls = c]>>] :
     s \in {"", "no-op"}, p \in {"allowed", "forbidden"}, bs \in BackendLists, enc \in {"", "no-op"},
     t \in {Bad, 1}, c \in {0, 2}}

Agents ==
  {[PlainService EXCEPT !.timeout = s, !.asyncAgents = <<
      [PlainAgent EXCEPT !.consumerTimeout = t, !.healthInterval = h, !.workers = w, !.backend = bs]>>] :
     s \in {Bad, 5}, t \in {Bad, 1}, h \in {Bad, 3}, w \in {-1, 2}, bs \in BackendLists}

MCGiven == Globals \cup Streams \cup Params \cup Endpoints \cup Agents
=============================================================================
