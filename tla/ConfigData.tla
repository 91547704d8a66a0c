----------------------------- MODULE ConfigData -----------------------------
(***************************************************************************)
(* The service configuration (config/config.go), how the JSON parser makes *)
(* one (config/parser.go), and what the initialisation looks up in it      *)
(* (config/uri.go, config/streaming.go).                                   *)
(*                                                                         *)
(* Left out are the fields that Init neither reads nor writes.  A path is  *)
(* "allowed" or "forbidden" (invalidPattern) together with the placeholders*)
(* in it, the keys of a URL are a set, a host is "clean" (with a scheme),  *)
(* "bare" or "invalid", an extra configuration the set of what it switches *)
(* on.                                                                     *)
(***************************************************************************)
EXTENDS Integers, Sequences, FiniteSets, SequencesExt

CONSTANTS NameOrder,        \* the names of placeholders, in the order of sort.Strings
          StrictNames,      \* those that endpointURLKeysPattern matches
          SequentialNames,  \* those that sequentialParamsPattern matches
          Key,              \* the key of each: its first letter in title case
          Bad,              \* the text of a duration that is absent or malformed
          Methods           \* of HTTP, "" where the file has none

Names == ToSet(NameOrder)
Keys  == {Key[n] : n \in Names}

ASSUME NamesAssumption ==
  /\ StrictNames \subseteq Names /\ SequentialNames \subseteq Names
  /\ DOMAIN Key = Names /\ Keys \cap Names = {}
ASSUME BadAssumption == Bad \notin Int
ASSUME MethodsAssumption == {"", "GET"} \subseteq Methods

ConfigVersion  == 3
DefaultPort    == 8080
DefaultTimeout == 2       \* seconds, as all durations here
MinStreamingResponseHeaderTimeout == 30

-----------------------------------------------------------------------------
(* The structs: of the service with its endpoints and agents, and of their *)
(* backends.                                                               *)

Hosts     == Seq({"clean", "bare", "invalid"})
Encodings == {"", "json", "no-op"}
Features  == {"lua pre", "lua post", "response schema", "no body modifiers",
              "body modifiers", "header modifiers", "sequential", "http cache",
              "martian request", "martian response"}

Backend ==
  [method : Methods, host : Hosts, hostSanitizationDisabled : BOOLEAN,
   urlPattern : Seq(Names \cup Keys), urlKeys : SUBSET Keys,
   encoding : Encodings, decoder : Encodings, sdScheme : {"", "http"},
   concurrentCalls : Int, timeout : Int, extraConfig : SUBSET Features,
   parentEndpointMethod : Methods]

EndpointConfig ==
  [path : {"allowed", "forbidden"}, placeholders : Seq(Names), routeParams : SUBSET Names,
   method : Methods, backend : Seq(Backend), concurrentCalls : Int, timeout : Int,
   cacheTTL : Int, extraConfig : SUBSET Features, outputEncoding : Encodings]

AsyncAgent ==
  [consumerTimeout : Int, workers : Int, healthInterval : Int, backend : Seq(Backend)]

ServiceConfig ==
  [version : Int, port : Int, address : {"", "ip", "host name"}, host : Hosts,
   timeout : Int, cacheTTL : Int, writeTimeout : Int, responseHeaderTimeout : Int,
   outputEncoding : Encodings, disableStrictREST : BOOLEAN,
   endpoints : Seq(EndpointConfig), asyncAgents : Seq(AsyncAgent)]

-----------------------------------------------------------------------------
(* config/parser.go: what json.Unmarshal fills, and from there to the      *)
(* structs above.                                                          *)

DurationText == Int \cup {Bad}

ParseableBackend ==
  [method : Methods, host : Hosts, hostSanitizationDisabled : BOOLEAN, urlPattern : Seq(Names),
   encoding : Encodings, sdScheme : {"", "http"}, extraConfig : SUBSET Features]

ParseableEndpointConfig ==
  [path : {"allowed", "forbidden"}, placeholders : Seq(Names), method : Methods,
   backend : Seq(ParseableBackend), concurrentCalls : Int, timeout : DurationText,
   cacheTTL : DurationText, extraConfig : SUBSET Features, outputEncoding : Encodings]

ParseableAsyncAgent ==
  [consumerTimeout : DurationText, workers : Int, healthInterval : DurationText,
   backend : Seq(ParseableBackend)]

ParseableServiceConfig ==
  [version : Int, port : Int, address : {"", "ip", "host name"}, host : Hosts,
   timeout : DurationText, cacheTTL : DurationText, writeTimeout : DurationText,
   responseHeaderTimeout : DurationText, outputEncoding : Encodings,
   disableStrictREST : BOOLEAN, endpoints : Seq(ParseableEndpointConfig),
   asyncAgents : Seq(ParseableAsyncAgent)]

ParseDurationUnchecked(text) == text

ParseDuration(text) == IF text = Bad THEN 0 ELSE text

NormalizeBackend(p) ==
  [method |-> p.method, host |-> p.host,
   hostSanitizationDisabled |-> p.hostSanitizationDisabled,
   urlPattern |-> p.urlPattern, urlKeys |-> {},
   encoding |-> p.encoding, decoder |-> "",
   sdScheme |-> IF p.sdScheme = "" THEN "http" ELSE p.sdScheme,
   concurrentCalls |-> 0, timeout |-> 0, extraConfig |-> p.extraConfig,
   parentEndpointMethod |-> ""]

NormalizeBackends(ps) == [k \in DOMAIN ps |-> NormalizeBackend(ps[k])]

NormalizeEndpoint(p) ==
  [path |-> p.path, placeholders |-> p.placeholders, routeParams |-> {},
   method |-> p.method, backend |-> NormalizeBackends(p.backend),
   concurrentCalls |-> p.concurrentCalls, timeout |-> ParseDuration(p.timeout),
   cacheTTL |-> ParseDuration(p.cacheTTL), extraConfig |-> p.extraConfig,
   outputEncoding |-> p.outputEncoding]

NormalizeAgent(p) ==
  [consumerTimeout |-> ParseDuration(p.consumerTimeout), workers |-> p.workers,
   healthInterval |-> ParseDuration(p.healthInterval),
   backend |-> NormalizeBackends(p.backend)]

NormalizeService(p) ==
  [version |-> p.version, port |-> p.port, address |-> p.address, host |-> p.host,
   timeout |-> ParseDuration(p.timeout), cacheTTL |-> ParseDuration(p.cacheTTL),
   writeTimeout |-> ParseDuration(p.writeTimeout),
   responseHeaderTimeout |-> ParseDuration(p.responseHeaderTimeout),
   outputEncoding |-> p.outputEncoding, disableStrictREST |-> p.disableStrictREST,
   endpoints |-> [k \in DOMAIN p.endpoints |-> NormalizeEndpoint(p.endpoints[k])],
   asyncAgents |-> [k \in DOMAIN p.asyncAgents |-> NormalizeAgent(p.asyncAgents[k])]]

-----------------------------------------------------------------------------
(* Hosts and placeholders. *)

HostsValid(hosts) == "invalid" \notin ToSet(hosts)

\* SafeCleanHosts of valid hosts adds the scheme where there is none.
SafeCleanHosts(hosts) == [k \in DOMAIN hosts |-> "clean"]

\* With strict REST only whole path segments made of few characters count.
InputParams(s, e) ==
  IF s.disableStrictREST THEN ToSet(e.placeholders)
  ELSE ToSet(e.placeholders) \cap StrictNames

Position(name) == CHOOSE k \in DOMAIN NameOrder : NameOrder[k] = name

\* uniqueOutput, as a set: sorted means in the order of their positions.  The
\* size that comes with it counts an element when the next one arrives: the
\* last is never counted.
UniqueOutput(pattern) == ToSet(pattern)

OutputSetSize(unique) ==
  Cardinality({n \in unique \ SequentialNames : \E m \in unique : Position(n) < Position(m)})

UndefinedUnlessCounted(unique, inputs) ==
  IF OutputSetSize(unique) = 0 THEN {} ELSE unique \ (SequentialNames \cup inputs)

\* The output parameters that nothing will fill.
Undefined(unique, inputs) == unique \ (SequentialNames \cup inputs)

-----------------------------------------------------------------------------
(* config/streaming.go *)

IsStreamingEndpoint(e) ==
  /\ e.outputEncoding = "no-op" /\ Len(e.backend) = 1
  /\ e.backend[1].encoding = "no-op"

ServiceHasStreamingEndpoint(s) ==
  \E k \in DOMAIN s.endpoints : IsStreamingEndpoint(s.endpoints[k])

StreamingServiceValid(s) ==
  ServiceHasStreamingEndpoint(s) =>
    /\ s.writeTimeout <= 0
    /\ s.responseHeaderTimeout \notin 1..(MinStreamingResponseHeaderTimeout - 1)

HasLuaPost(extra)             == "lua post" \in extra
ProxySequentialEnabled(extra) == "sequential" \in extra
\* A scope with "response" at any depth of the martian configuration.
MartianModifiesResponse(extra) == "martian response" \in extra

ExtraConfigHasResponseManipulation(extra) ==
  \/ HasLuaPost(extra)
  \/ extra \cap {"response schema", "body modifiers", "header modifiers"} # {}
  \/ MartianModifiesResponse(extra)

StreamingEndpointValid(e) ==
  IsStreamingEndpoint(e) =>
    /\ ~ExtraConfigHasResponseManipulation(e.extraConfig)
    /\ ~ProxySequentialEnabled(e.extraConfig)
    /\ "http cache" \notin e.backend[1].extraConfig
    /\ ~MartianModifiesResponse(e.backend[1].extraConfig)
=============================================================================
