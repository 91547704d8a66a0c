----------------------------- MODULE ConfigInit -----------------------------
(***************************************************************************)
(* Loading the configuration of the service: the parser reads a file and   *)
(* calls ServiceConfig.Init, which checks and completes the service, the   *)
(* agents and the endpoints in turn, one action per function.  The first   *)
(* error ends it and leaves what was initialised so far.                   *)
(***************************************************************************)
EXTENDS ConfigData, FiniteSetsExt

CONSTANT Given    \* what json.Unmarshal can have filled

ASSUME GivenAssumption == Given \subseteq ParseableServiceConfig

VARIABLES given,  \* what it did fill
          cfg,    \* the ServiceConfig under initialisation
          stage,  \* the function that is next, "accepted" or "refused"
          e,      \* its endpoint (or agent) ...
          b,      \* ... and backend
          err     \* why the configuration was refused, "" if it was not

vars == <<given, cfg, stage, e, b, err>>

Errors == {"unreadable", "syntax", "version", "address", "host", "path", "no backends",
           "streaming", "no-op", "wrong number of params", "undefined param",
           "streaming service"}

Endpoint == cfg.endpoints[e]
TheBackend == Endpoint.backend[b]

WithEndpoint(ep) == [cfg EXCEPT !.endpoints[e] = ep]
WithBackend(be)  == WithEndpoint([Endpoint EXCEPT !.backend[b] = be])

Init ==
  /\ given \in Given /\ cfg = NormalizeService(given)
  /\ stage = "file" /\ e = 1 /\ b = 1 /\ err = ""

Refuse(why) == stage' = "refused" /\ err' = why /\ UNCHANGED <<given, e, b>>

GoOn(next) == stage' = next /\ UNCHANGED <<given, err>>

-----------------------------------------------------------------------------
ReadFails ==
  /\ stage = "file"
  /\ \E why \in {"unreadable", "syntax"} : Refuse(why)
  /\ UNCHANGED cfg

Read == stage = "file" /\ GoOn("version") /\ UNCHANGED <<cfg, e, b>>

CheckVersion ==
  /\ stage = "version" /\ UNCHANGED cfg
  /\ IF cfg.version = ConfigVersion THEN GoOn("globals") /\ UNCHANGED <<e, b>>
                                    ELSE Refuse("version")

WithPort(s) == [s EXCEPT !.port = IF @ = 0 THEN DefaultPort ELSE @]
WithHosts(s) == [s EXCEPT !.host = IF HostsValid(@) THEN SafeCleanHosts(@) ELSE <<>>]
WithGlobalsUntimed(s) == WithHosts(WithPort(s))
WithGlobals(s) ==
  [WithHosts(WithPort(s)) EXCEPT !.timeout = IF @ = 0 THEN DefaultTimeout ELSE @]

InitGlobalParams ==
  /\ stage = "globals"
  /\ IF cfg.address = "host name" THEN Refuse("address") /\ cfg' = WithPort(cfg)
     ELSE /\ cfg' = WithGlobals(cfg)
          /\ IF HostsValid(cfg.host) THEN GoOn("agents") /\ UNCHANGED <<e, b>>
                                     ELSE Refuse("host")

-----------------------------------------------------------------------------
(* A backend's hosts: the service's if it has none of its own. *)

HostsAccepted(be) == be.hostSanitizationDisabled \/ HostsValid(be.host)

EffectiveHosts(be) ==
  IF be.host = <<>> THEN cfg.host
  ELSE IF be.hostSanitizationDisabled THEN be.host ELSE SafeCleanHosts(be.host)

DecoderFor(encoding) == IF encoding = "" THEN "json" ELSE encoding

WithAgentDefaults(a) ==
  [a EXCEPT !.consumerTimeout = IF @ = 0 THEN cfg.timeout ELSE @,
            !.workers = IF @ < 1 THEN 1 ELSE @,
            !.healthInterval = IF @ < 1 THEN 1 ELSE @]

WithAgentBackend(a, be) ==
  [be EXCEPT !.host = EffectiveHosts(be),
             !.method = IF @ = "" THEN "GET" ELSE @,
             !.timeout = a.consumerTimeout,
             !.decoder = DecoderFor(be.encoding)]

\* The backends before the first with an invalid host are done.
InitAsyncAgent ==
  /\ stage = "agents" /\ e <= Len(cfg.asyncAgents)
  /\ LET agent == WithAgentDefaults(cfg.asyncAgents[e])
         bad   == {k \in DOMAIN agent.backend : ~HostsAccepted(agent.backend[k])}
         done(k) == \A l \in bad : k < l
     IN /\ cfg' = [cfg EXCEPT !.asyncAgents[e] = [agent EXCEPT !.backend =
                     [k \in DOMAIN @ |-> IF done(k) THEN WithAgentBackend(agent, @[k])
                                         ELSE IF k = Min(bad) THEN [@[k] EXCEPT !.host = <<>>]
                                         ELSE @[k]]]]
        /\ IF bad # {} THEN Refuse("host")
           ELSE GoOn("agents") /\ e' = e + 1 /\ UNCHANGED b

AsyncAgentsDone ==
  /\ stage = "agents" /\ e > Len(cfg.asyncAgents)
  /\ GoOn("endpoints") /\ e' = 1 /\ UNCHANGED <<cfg, b>>

-----------------------------------------------------------------------------
(* An endpoint, before its backends. *)

WithEndpointDefaults(ep) ==
  [ep EXCEPT !.method = IF @ = "" THEN "GET" ELSE @,
             !.cacheTTL = IF @ = 0 THEN cfg.cacheTTL ELSE @,
             !.timeout = IF @ = 0 THEN cfg.timeout ELSE @,
             !.concurrentCalls = IF @ = 0 THEN 1 ELSE @,
             !.outputEncoding = IF @ # "" THEN @
                                ELSE IF cfg.outputEncoding # "" THEN cfg.outputEncoding
                                ELSE "json"]

EndpointError(ep) ==   \* EndpointConfig.validate
  IF ep.path = "forbidden" THEN "path" ELSE IF ep.backend = <<>> THEN "no backends" ELSE ""

InitEndpoint ==
  /\ stage = "endpoints" /\ e <= Len(cfg.endpoints)
  /\ IF EndpointError(Endpoint) # "" THEN Refuse(EndpointError(Endpoint)) /\ UNCHANGED cfg
     ELSE LET ep == WithEndpointDefaults([Endpoint EXCEPT !.routeParams = InputParams(cfg, Endpoint)])
          IN /\ cfg' = WithEndpoint(ep)
             /\ IF ~StreamingEndpointValid(ep) THEN Refuse("streaming")
                ELSE IF ep.outputEncoding = "no-op" /\ Len(ep.backend) > 1 THEN Refuse("no-op")
                ELSE GoOn("backends") /\ b' = 1 /\ UNCHANGED e

EndpointsDone ==
  /\ stage = "endpoints" /\ e > Len(cfg.endpoints)
  /\ GoOn("service") /\ UNCHANGED <<cfg, e, b>>

-----------------------------------------------------------------------------
(* Its backends. *)

WithEncoding(ep, be) ==
  [be EXCEPT !.encoding = IF ep.outputEncoding = "no-op" THEN "no-op" ELSE @]
WithDecoder(be) == [be EXCEPT !.decoder = DecoderFor(be.encoding)]

DecoderFirst(ep, be)       == WithEncoding(ep, WithDecoder(be))
EncodingAndDecoder(ep, be) == WithDecoder(WithEncoding(ep, be))

WithBackendDefaults(ep, be) ==
  [EncodingAndDecoder(ep, be) EXCEPT
     !.host = EffectiveHosts(be),
     !.method = IF @ = "" THEN ep.method ELSE @,
     !.timeout = ep.timeout,
     !.concurrentCalls = ep.concurrentCalls,
     !.sdScheme = IF @ = "" THEN "http" ELSE @,
     !.parentEndpointMethod = ep.method]

InitBackendDefaults ==
  /\ stage = "backends" /\ b <= Len(Endpoint.backend)
  /\ IF HostsAccepted(TheBackend)
     THEN /\ cfg' = WithBackend(WithBackendDefaults(Endpoint, TheBackend))
          /\ GoOn("url mappings") /\ UNCHANGED <<e, b>>
     ELSE /\ cfg' = WithBackend([TheBackend EXCEPT !.host = <<>>,
                                                   !.parentEndpointMethod = Endpoint.method])
          /\ Refuse("host")

MappedOnce(be, names) ==
  [be EXCEPT !.urlPattern = [k \in DOMAIN @ |-> IF @[k] \in names /\ \A l \in 1..(k - 1) : @[l] # @[k]
                                                THEN Key[@[k]] ELSE @[k]],
             !.urlKeys = {Key[n] : n \in names}]

Mapped(be, names) ==
  [be EXCEPT !.urlPattern = [k \in DOMAIN @ |-> IF @[k] \in names THEN Key[@[k]] ELSE @[k]],
             !.urlKeys = {Key[n] : n \in names}]

\* The placeholders become keys in their order, up to an undefined one.
InitBackendURLMappings ==
  /\ stage = "url mappings"
  /\ LET inputs == Endpoint.routeParams
         output == UniqueOutput(TheBackend.urlPattern)
         wrong  == Undefined(output, inputs)
         good   == {n \in output : \A m \in wrong : Position(n) < Position(m)}
     IN IF OutputSetSize(output) > Cardinality(inputs)
        THEN Refuse("wrong number of params") /\ UNCHANGED cfg
        ELSE /\ cfg' = WithBackend(Mapped(TheBackend, good))
             /\ IF wrong # {} THEN Refuse("undefined param")
                ELSE GoOn("backends") /\ b' = b + 1 /\ UNCHANGED e

BackendsDone ==
  /\ stage = "backends" /\ b > Len(Endpoint.backend)
  /\ GoOn("endpoints") /\ e' = e + 1 /\ UNCHANGED <<cfg, b>>

\* The service is judged last, when the backends have their encodings.
ValidateStreamingService ==
  /\ stage = "service" /\ UNCHANGED cfg
  /\ IF StreamingServiceValid(cfg) THEN GoOn("accepted") /\ UNCHANGED <<e, b>>
                                   ELSE Refuse("streaming service")

Done == stage \in {"accepted", "refused"} /\ UNCHANGED vars

Next ==
  \/ ReadFails \/ Read \/ CheckVersion \/ InitGlobalParams
  \/ InitAsyncAgent \/ AsyncAgentsDone
  \/ InitEndpoint \/ EndpointsDone
  \/ InitBackendDefaults \/ InitBackendURLMappings \/ BackendsDone
  \/ ValidateStreamingService \/ Done

Spec == Init /\ [][Next]_vars

-----------------------------------------------------------------------------
TypeOK ==
  /\ cfg \in ServiceConfig
  /\ stage \in {"file", "version", "globals", "agents", "endpoints", "backends",
                "url mappings", "service", "accepted", "refused"}
  /\ e \in Nat \ {0} /\ b \in Nat \ {0}
  /\ err \in Errors \cup {""} /\ (err # "") = (stage = "refused")

(* The rules of a configuration, stated about the file alone. *)

OutputEncoding(ep) ==
  IF ep.outputEncoding # "" THEN ep.outputEncoding
  ELSE IF given.outputEncoding # "" THEN given.outputEncoding ELSE "json"

BackendHostsValid(be) == HostsValid(be.host) \/ be.hostSanitizationDisabled

EndpointValid(ep) ==
  /\ ep.path = "allowed" /\ ep.backend # <<>>
  /\ OutputEncoding(ep) = "no-op" =>
       /\ Len(ep.backend) = 1
       /\ StreamingEndpointValid([ep EXCEPT !.outputEncoding = "no-op"])
  /\ \A be \in ToSet(ep.backend) :
       /\ BackendHostsValid(be)
       /\ ToSet(be.urlPattern) \subseteq InputParams(given, ep) \cup SequentialNames

Streaming(ep) == OutputEncoding(ep) = "no-op"

FileValid ==
  /\ given.version = ConfigVersion
  /\ given.address # "host name" /\ HostsValid(given.host)
  /\ \A a \in ToSet(given.asyncAgents) : \A be \in ToSet(a.backend) : BackendHostsValid(be)
  /\ \A ep \in ToSet(given.endpoints) : EndpointValid(ep)
  /\ (\E ep \in ToSet(given.endpoints) : Streaming(ep)) =>
       /\ ParseDuration(given.writeTimeout) <= 0
       /\ ParseDuration(given.responseHeaderTimeout) \notin 1..(MinStreamingResponseHeaderTimeout - 1)

\* Init takes its decisions over many steps, each on values that earlier steps
\* completed.  Together they accept exactly the files that keep the rules: an
\* endpoint that takes no-op from the service counts as no-op, an endpoint
\* whose backend only becomes no-op in initBackendDefaults makes the service
\* a streaming one, and the count in uniqueOutput, short by one, changes the
\* error and never the verdict.
AcceptsExactly ==
  /\ stage = "accepted" => FileValid
  /\ stage = "refused" /\ err \notin {"unreadable", "syntax"} => ~FileValid

\* No pipe of an accepted configuration has a timeout of zero, which would end
\* its context at once: a timeout that is absent or does not parse falls back
\* on the endpoint's, the service's and the default in turn.
EveryPipeTimed ==
  stage = "accepted" =>
    /\ \A ep \in ToSet(cfg.endpoints) :
         ep.timeout # 0 /\ \A be \in ToSet(ep.backend) : be.timeout = ep.timeout
    /\ \A a \in ToSet(cfg.asyncAgents) :
         a.consumerTimeout # 0 /\ \A be \in ToSet(a.backend) : be.timeout = a.consumerTimeout

\* What a no-op endpoint relays was not touched on its way: the encoding and
\* the decoder of its one backend are no-op too, whatever the file says.
NoOpUntouched ==
  stage = "accepted" =>
    \A ep \in ToSet(cfg.endpoints) : ep.outputEncoding = "no-op" =>
      /\ Len(ep.backend) = 1
      /\ ep.backend[1].encoding = "no-op" /\ ep.backend[1].decoder = "no-op"

\* In an accepted configuration the URL of a backend is the file's with each
\* placeholder, wherever it is, replaced by its key, the keys listed are those
\* in the URL, and each placeholder is a parameter of the endpoint's route or
\* has the form of a sequential (or JWT) parameter.  Only the form: nobody asks
\* whether the endpoint is sequential or an earlier backend bears the number.
PatternsResolved ==
  stage = "accepted" =>
    \A k \in DOMAIN cfg.endpoints : \A l \in DOMAIN cfg.endpoints[k].backend :
      LET ep  == cfg.endpoints[k]
          be  == ep.backend[l]
          url == given.endpoints[k].backend[l].urlPattern
      IN  /\ be.urlPattern = [j \in DOMAIN url |-> Key[url[j]]]
          /\ be.urlKeys = ToSet(be.urlPattern)
          /\ ToSet(url) \subseteq ep.routeParams \cup SequentialNames

\* config/streaming.go:23: "HTTP streaming endpoints cannot use response
\* manipulation middleware".
StreamingUnmanipulated ==
  stage = "accepted" =>
    \A ep \in ToSet(cfg.endpoints) : IsStreamingEndpoint(ep) =>
      ~ExtraConfigHasResponseManipulation(ep.extraConfig)
=============================================================================
