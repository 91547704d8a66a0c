-------------------------- MODULE ConfigInitProofs --------------------------
(***************************************************************************)
(* Proofs about ConfigInit, for every configuration file.  The invariant   *)
(* follows the initialisation: what a stage has passed keeps the rules and *)
(* has its defaults, what it has not reached is what the parser made.      *)
(***************************************************************************)
EXTENDS ConfigInit, FiniteSetTheorems, TLAPS

InBackends     == stage \in {"backends", "url mappings"}
AfterAgents    == stage \in {"endpoints", "backends", "url mappings", "service", "accepted"}
AfterEndpoints == stage \in {"service", "accepted"}
AfterGlobals   == AfterAgents \/ stage = "agents"

AgentDone(k)    == AfterAgents \/ (stage = "agents" /\ k < e)
EndpointDone(k) == AfterEndpoints \/ ((stage = "endpoints" \/ InBackends) /\ k < e)

\* The service.
ServiceInv ==
  /\ stage \in {"file", "version", "globals"} => cfg = NormalizeService(given) /\ e = 1
  /\ stage = "globals" \/ AfterGlobals => given.version = ConfigVersion
  /\ AfterGlobals =>
       /\ given.address # "host name" /\ HostsValid(given.host) /\ cfg.timeout # 0
       /\ cfg.outputEncoding = given.outputEncoding
       /\ cfg.disableStrictREST = given.disableStrictREST
       /\ cfg.writeTimeout = ParseDuration(given.writeTimeout)
       /\ cfg.responseHeaderTimeout = ParseDuration(given.responseHeaderTimeout)
       /\ Len(cfg.asyncAgents) = Len(given.asyncAgents)
       /\ Len(cfg.endpoints) = Len(given.endpoints)

AgentReady(a) == a.consumerTimeout # 0 /\ \A be \in ToSet(a.backend) : be.timeout = a.consumerTimeout

AgentsInv ==
  AfterGlobals =>
    \A k \in DOMAIN given.asyncAgents :
      IF AgentDone(k)
      THEN /\ AgentReady(cfg.asyncAgents[k])
           /\ \A be \in ToSet(given.asyncAgents[k].backend) : BackendHostsValid(be)
      ELSE cfg.asyncAgents[k] = NormalizeAgent(given.asyncAgents[k])

\* A backend after initBackendDefaults, and after initBackendURLMappings.
BackendReady(ep, be) ==
  /\ be.timeout = ep.timeout
  /\ ep.outputEncoding = "no-op" => be.encoding = "no-op" /\ be.decoder = "no-op"

BackendMapped(ep, url, be) ==
  /\ be.urlPattern = [j \in DOMAIN url |-> Key[url[j]]]
  /\ be.urlKeys = ToSet(be.urlPattern)
  /\ ToSet(url) \subseteq ep.routeParams \cup SequentialNames

BackendValid(p, be) ==
  /\ BackendHostsValid(be)
  /\ ToSet(be.urlPattern) \subseteq InputParams(given, p) \cup SequentialNames

\* An endpoint p of the file after its own checks and defaults.
EndpointReady(p, ep) ==
  /\ p.path = "allowed" /\ p.backend # <<>>
  /\ Streaming(p) => /\ Len(p.backend) = 1
                     /\ StreamingEndpointValid([p EXCEPT !.outputEncoding = "no-op"])
  /\ ep.outputEncoding = OutputEncoding(p) /\ ep.timeout # 0
  /\ ep.routeParams = InputParams(given, p)
  /\ Len(ep.backend) = Len(p.backend)

BackendDone(p, ep, k) ==
  /\ BackendValid(p, p.backend[k])
  /\ BackendReady(ep, ep.backend[k])
  /\ BackendMapped(ep, p.backend[k].urlPattern, ep.backend[k])

EndpointsInv ==
  AfterGlobals =>
    \A k \in DOMAIN given.endpoints :
      LET p  == given.endpoints[k]
          ep == cfg.endpoints[k]
      IN  IF EndpointDone(k)
          THEN EndpointReady(p, ep) /\ \A l \in DOMAIN p.backend : BackendDone(p, ep, l)
          ELSE (InBackends /\ k = e) \/ ep = NormalizeEndpoint(p)

\* The endpoint whose backends are being initialised.
CurrentInv ==
  InBackends =>
    LET p == given.endpoints[e]
    IN  /\ e \in DOMAIN given.endpoints
        /\ EndpointReady(p, Endpoint)
        /\ stage = "url mappings" => b \in DOMAIN p.backend
        /\ \A l \in DOMAIN p.backend :
             IF l < b THEN BackendDone(p, Endpoint, l)
             ELSE IF l = b /\ stage = "url mappings"
             THEN /\ BackendHostsValid(p.backend[l])
                  /\ BackendReady(Endpoint, Endpoint.backend[l])
                  /\ Endpoint.backend[l].urlPattern = p.backend[l].urlPattern
             ELSE Endpoint.backend[l] = NormalizeBackend(p.backend[l])

VerdictInv ==
  /\ stage = "accepted" => StreamingServiceValid(cfg)
  /\ stage = "refused" => err \in {"unreadable", "syntax"} \/ ~FileValid

IInv ==
  /\ TypeOK /\ given \in ParseableServiceConfig
  /\ ServiceInv /\ AgentsInv /\ EndpointsInv /\ CurrentInv /\ VerdictInv

-----------------------------------------------------------------------------
(* Types: what the parser makes, and what each function makes of it. *)

LEMMA DurationType ==
  ASSUME NEW t \in DurationText
  PROVE  ParseDuration(t) \in Int
BY DEF DurationText, ParseDuration

LEMMA NormalizeBackendType ==
  ASSUME NEW p \in ParseableBackend
  PROVE  NormalizeBackend(p) \in Backend
<1>1. p.urlPattern \in Seq(Names \cup Keys)
  <2>1. p.urlPattern \in Seq(Names)  BY DEF ParseableBackend
  <2>2. QED  BY <2>1
<1>2. /\ p.method \in Methods /\ p.host \in Hosts /\ p.hostSanitizationDisabled \in BOOLEAN
      /\ p.encoding \in Encodings /\ p.sdScheme \in {"", "http"} /\ p.extraConfig \in SUBSET Features
  BY DEF ParseableBackend
<1>3. "" \in Encodings /\ 0 \in Int /\ {} \in SUBSET Keys  BY DEF Encodings
<1>4. (IF p.sdScheme = "" THEN "http" ELSE p.sdScheme) \in {"", "http"}  BY <1>2
<1>5. QED  BY <1>1, <1>2, <1>3, <1>4, MethodsAssumption DEF NormalizeBackend, Backend

LEMMA NormalizeBackendsType ==
  ASSUME NEW ps \in Seq(ParseableBackend)
  PROVE  NormalizeBackends(ps) \in Seq(Backend) /\ Len(NormalizeBackends(ps)) = Len(ps)
<1>1. \A i \in 1..Len(ps) : ps[i] \in ParseableBackend  OBVIOUS
<1>2. \A i \in 1..Len(ps) : NormalizeBackends(ps)[i] \in Backend
  BY <1>1, NormalizeBackendType DEF NormalizeBackends
<1>3. NormalizeBackends(ps) \in [1..Len(ps) -> Backend]
  <2> DEFINE f == [i \in DOMAIN ps |-> NormalizeBackend(ps[i])]
  <2>1. NormalizeBackends(ps) = f /\ DOMAIN f = 1..Len(ps) /\ f = [i \in DOMAIN f |-> f[i]]
    BY DEF NormalizeBackends
  <2> HIDE DEF f
  <2>2. QED  BY <1>2, <2>1
<1> DEFINE n == Len(ps)
           f == NormalizeBackends(ps)
<1>4. n \in Nat /\ f \in [1..n -> Backend]  BY <1>3
<1> HIDE DEF n, f
<1>5. f \in Seq(Backend) /\ Len(f) = n  BY <1>4
<1>6. QED  BY <1>5 DEF n, f

LEMMA NormalizeEndpointType ==
  ASSUME NEW p \in ParseableEndpointConfig
  PROVE  NormalizeEndpoint(p) \in EndpointConfig
<1>1. NormalizeBackends(p.backend) \in Seq(Backend)
  BY NormalizeBackendsType DEF ParseableEndpointConfig
<1>2. ParseDuration(p.timeout) \in Int /\ ParseDuration(p.cacheTTL) \in Int
  BY DurationType DEF ParseableEndpointConfig
<1>3. QED  BY <1>1, <1>2 DEF ParseableEndpointConfig, NormalizeEndpoint, EndpointConfig

LEMMA NormalizeAgentType ==
  ASSUME NEW p \in ParseableAsyncAgent
  PROVE  NormalizeAgent(p) \in AsyncAgent
<1>1. NormalizeBackends(p.backend) \in Seq(Backend)
  BY NormalizeBackendsType DEF ParseableAsyncAgent
<1>2. ParseDuration(p.consumerTimeout) \in Int /\ ParseDuration(p.healthInterval) \in Int
  BY DurationType DEF ParseableAsyncAgent
<1>3. QED  BY <1>1, <1>2 DEF ParseableAsyncAgent, NormalizeAgent, AsyncAgent

LEMMA NormalizeServiceType ==
  ASSUME NEW p \in ParseableServiceConfig
  PROVE  /\ NormalizeService(p) \in ServiceConfig
         /\ Len(NormalizeService(p).endpoints) = Len(p.endpoints)
         /\ Len(NormalizeService(p).asyncAgents) = Len(p.asyncAgents)
<1> DEFINE es == [k \in DOMAIN p.endpoints |-> NormalizeEndpoint(p.endpoints[k])]
           as == [k \in DOMAIN p.asyncAgents |-> NormalizeAgent(p.asyncAgents[k])]
<1>1. p.endpoints \in Seq(ParseableEndpointConfig) /\ p.asyncAgents \in Seq(ParseableAsyncAgent)
  BY DEF ParseableServiceConfig
<1>2. es \in Seq(EndpointConfig) /\ Len(es) = Len(p.endpoints)
  <2>1. \A k \in 1..Len(p.endpoints) : p.endpoints[k] \in ParseableEndpointConfig  BY <1>1
  <2>2. es \in [1..Len(p.endpoints) -> EndpointConfig]  BY <1>1, <2>1, NormalizeEndpointType
  <2> HIDE DEF es
  <2> DEFINE n == Len(p.endpoints)
  <2>3. n \in Nat /\ es \in [1..n -> EndpointConfig]  BY <1>1, <2>2
  <2> HIDE DEF n
  <2>4. es \in Seq(EndpointConfig) /\ Len(es) = n  BY <2>3
  <2>5. QED  BY <2>4 DEF n
<1>3. as \in Seq(AsyncAgent) /\ Len(as) = Len(p.asyncAgents)
  <2>1. \A k \in 1..Len(p.asyncAgents) : p.asyncAgents[k] \in ParseableAsyncAgent  BY <1>1
  <2>2. as \in [1..Len(p.asyncAgents) -> AsyncAgent]  BY <1>1, <2>1, NormalizeAgentType
  <2>3. Len(p.asyncAgents) \in Nat  BY <1>1
  <2> DEFINE n == Len(p.asyncAgents)
  <2> HIDE DEF as, n
  <2>6. n \in Nat /\ as \in [1..n -> AsyncAgent]  BY <2>2, <2>3 DEF n
  <2> HIDE DEF n
  <2>4. as \in Seq(AsyncAgent) /\ Len(as) = n  BY <2>6
  <2>5. QED  BY <2>4 DEF n
<1>4. /\ ParseDuration(p.timeout) \in Int /\ ParseDuration(p.cacheTTL) \in Int
      /\ ParseDuration(p.writeTimeout) \in Int /\ ParseDuration(p.responseHeaderTimeout) \in Int
  BY DurationType DEF ParseableServiceConfig
<1>5. NormalizeService(p).endpoints = es /\ NormalizeService(p).asyncAgents = as
  BY DEF NormalizeService
<1>6. NormalizeService(p) =
       [version |-> p.version, port |-> p.port, address |-> p.address, host |-> p.host,
        timeout |-> ParseDuration(p.timeout), cacheTTL |-> ParseDuration(p.cacheTTL),
        writeTimeout |-> ParseDuration(p.writeTimeout),
        responseHeaderTimeout |-> ParseDuration(p.responseHeaderTimeout),
        outputEncoding |-> p.outputEncoding, disableStrictREST |-> p.disableStrictREST,
        endpoints |-> es, asyncAgents |-> as]
  BY DEF NormalizeService
<1> HIDE DEF es, as
<1>7. /\ p.version \in Int /\ p.port \in Int /\ p.address \in {"", "ip", "host name"}
      /\ p.host \in Hosts /\ p.outputEncoding \in Encodings /\ p.disableStrictREST \in BOOLEAN
  BY DEF ParseableServiceConfig
<1>8. NormalizeService(p) \in ServiceConfig
  <2> DEFINE T == ParseDuration(p.timeout)
             C == ParseDuration(p.cacheTTL)
             W == ParseDuration(p.writeTimeout)
             R == ParseDuration(p.responseHeaderTimeout)
  <2>1. T \in Int /\ C \in Int /\ W \in Int /\ R \in Int  BY <1>4
  <2> HIDE DEF T, C, W, R
  <2>2. [version |-> p.version, port |-> p.port, address |-> p.address, host |-> p.host,
         timeout |-> T, cacheTTL |-> C, writeTimeout |-> W, responseHeaderTimeout |-> R,
         outputEncoding |-> p.outputEncoding, disableStrictREST |-> p.disableStrictREST,
         endpoints |-> es, asyncAgents |-> as] \in ServiceConfig
    BY <2>1, <1>2, <1>3, <1>7, Zenon DEF ServiceConfig
  <2>3. QED  BY <2>2, <1>6 DEF T, C, W, R
<1>9. QED  BY <1>2, <1>3, <1>5, <1>8

-----------------------------------------------------------------------------
(* Records of many fields: what an update keeps. *)

\* What the initialisation of an endpoint leaves alone in the service.
SameService(s, t) ==
  /\ t.timeout = s.timeout /\ t.cacheTTL = s.cacheTTL /\ t.host = s.host
  /\ t.writeTimeout = s.writeTimeout /\ t.responseHeaderTimeout = s.responseHeaderTimeout
  /\ t.outputEncoding = s.outputEncoding /\ t.disableStrictREST = s.disableStrictREST

LEMMA Updated ==
  ASSUME NEW S, NEW s \in Seq(S), NEW k \in DOMAIN s, NEW v \in S
  PROVE  LET t == [s EXCEPT ![k] = v]
         IN  /\ t \in Seq(S) /\ Len(t) = Len(s) /\ DOMAIN t = DOMAIN s
             /\ t[k] = v /\ \A l \in DOMAIN s : l # k => t[l] = s[l]
OBVIOUS

LEMMA EndpointsUpdated ==
  ASSUME NEW s \in ServiceConfig, NEW k \in DOMAIN s.endpoints, NEW ep \in EndpointConfig
  PROVE  LET t == [s EXCEPT !.endpoints[k] = ep]
         IN  /\ t \in ServiceConfig /\ SameService(s, t) /\ t.asyncAgents = s.asyncAgents
             /\ Len(t.endpoints) = Len(s.endpoints) /\ t.endpoints[k] = ep
             /\ \A l \in DOMAIN s.endpoints : l # k => t.endpoints[l] = s.endpoints[l]
<1> DEFINE v == [s.endpoints EXCEPT ![k] = ep]
           t == [s EXCEPT !.endpoints = v]
<1>1. s.endpoints \in Seq(EndpointConfig)  BY DEF ServiceConfig
<1>2. /\ v \in Seq(EndpointConfig) /\ Len(v) = Len(s.endpoints) /\ v[k] = ep
      /\ \A l \in DOMAIN s.endpoints : l # k => v[l] = s.endpoints[l]
  BY <1>1, Updated
<1>3. [s EXCEPT !.endpoints[k] = ep] = t  OBVIOUS
<1> HIDE DEF v
<1>4. t \in ServiceConfig  BY <1>2, Zenon DEF ServiceConfig
<1>5. t.endpoints = v /\ t.asyncAgents = s.asyncAgents  BY Zenon DEF ServiceConfig
<1>6. SameService(s, t)  BY Zenon DEF ServiceConfig, SameService
<1> HIDE DEF t
<1>7. QED  BY <1>2, <1>3, <1>4, <1>5, <1>6

LEMMA AgentsUpdated ==
  ASSUME NEW s \in ServiceConfig, NEW k \in DOMAIN s.asyncAgents, NEW a \in AsyncAgent
  PROVE  LET t == [s EXCEPT !.asyncAgents[k] = a]
         IN  /\ t \in ServiceConfig /\ SameService(s, t) /\ t.endpoints = s.endpoints
             /\ Len(t.asyncAgents) = Len(s.asyncAgents) /\ t.asyncAgents[k] = a
             /\ \A l \in DOMAIN s.asyncAgents : l # k => t.asyncAgents[l] = s.asyncAgents[l]
<1> DEFINE v == [s.asyncAgents EXCEPT ![k] = a]
           t == [s EXCEPT !.asyncAgents = v]
<1>1. s.asyncAgents \in Seq(AsyncAgent)  BY DEF ServiceConfig
<1>2. /\ v \in Seq(AsyncAgent) /\ Len(v) = Len(s.asyncAgents) /\ v[k] = a
      /\ \A l \in DOMAIN s.asyncAgents : l # k => v[l] = s.asyncAgents[l]
  BY <1>1, Updated
<1>3. [s EXCEPT !.asyncAgents[k] = a] = t  OBVIOUS
<1> HIDE DEF v
<1>4. t \in ServiceConfig  BY <1>2, Zenon DEF ServiceConfig
<1>5. t.asyncAgents = v /\ t.endpoints = s.endpoints  BY Zenon DEF ServiceConfig
<1>6. SameService(s, t)  BY Zenon DEF ServiceConfig, SameService
<1> HIDE DEF t
<1>7. QED  BY <1>2, <1>3, <1>4, <1>5, <1>6

LEMMA BackendsUpdated ==
  ASSUME NEW ep \in EndpointConfig, NEW k \in DOMAIN ep.backend, NEW be \in Backend
  PROVE  LET t == [ep EXCEPT !.backend[k] = be]
         IN  /\ t \in EndpointConfig /\ t.outputEncoding = ep.outputEncoding
             /\ t.timeout = ep.timeout /\ t.routeParams = ep.routeParams
             /\ Len(t.backend) = Len(ep.backend) /\ t.backend[k] = be
             /\ \A l \in DOMAIN ep.backend : l # k => t.backend[l] = ep.backend[l]
<1> DEFINE v == [ep.backend EXCEPT ![k] = be]
           t == [ep EXCEPT !.backend = v]
<1>1. ep.backend \in Seq(Backend)  BY DEF EndpointConfig
<1>2. /\ v \in Seq(Backend) /\ Len(v) = Len(ep.backend) /\ v[k] = be
      /\ \A l \in DOMAIN ep.backend : l # k => v[l] = ep.backend[l]
  BY <1>1, Updated
<1>3. [ep EXCEPT !.backend[k] = be] = t  OBVIOUS
<1> HIDE DEF v
<1>4. t \in EndpointConfig  BY <1>2, Zenon DEF EndpointConfig
<1>5. /\ t.backend = v /\ t.outputEncoding = ep.outputEncoding /\ t.timeout = ep.timeout
      /\ t.routeParams = ep.routeParams
  BY Zenon DEF EndpointConfig
<1> HIDE DEF t
<1>6. QED  BY <1>2, <1>3, <1>4, <1>5

LEMMA HostsType ==
  ASSUME NEW hosts \in Hosts
  PROVE  SafeCleanHosts(hosts) \in Hosts
<1> DEFINE n == Len(hosts)
           f == [k \in 1..n |-> "clean"]
<1>1. n \in Nat /\ f \in [1..n -> {"clean", "bare", "invalid"}]  BY DEF Hosts
<1>2. SafeCleanHosts(hosts) = f  BY DEF SafeCleanHosts, Hosts
<1> HIDE DEF n, f
<1>3. f \in Seq({"clean", "bare", "invalid"})  BY <1>1
<1>4. QED  BY <1>2, <1>3 DEF Hosts

LEMMA WithPortFacts ==
  ASSUME NEW s \in ServiceConfig
  PROVE  /\ WithPort(s) \in ServiceConfig /\ SameService(s, WithPort(s))
         /\ WithPort(s).endpoints = s.endpoints /\ WithPort(s).asyncAgents = s.asyncAgents
<1> DEFINE v == IF s.port = 0 THEN DefaultPort ELSE s.port
<1>1. v \in Int
  <2>1. s.port \in Int  BY Zenon DEF ServiceConfig
  <2>2. QED  BY <2>1 DEF DefaultPort
<1>2. WithPort(s) = [s EXCEPT !.port = v]  BY DEF WithPort
<1> HIDE DEF v
<1>3. [s EXCEPT !.port = v] \in ServiceConfig  BY <1>1, Zenon DEF ServiceConfig
<1>4. /\ [s EXCEPT !.port = v].endpoints = s.endpoints
      /\ [s EXCEPT !.port = v].asyncAgents = s.asyncAgents
  BY Zenon DEF ServiceConfig
<1>5. SameService(s, [s EXCEPT !.port = v])  BY Zenon DEF ServiceConfig, SameService
<1>6. QED  BY <1>2, <1>3, <1>4, <1>5

\* What initGlobalParams leaves alone.
SameGlobals(s, t) ==
  /\ t.writeTimeout = s.writeTimeout /\ t.responseHeaderTimeout = s.responseHeaderTimeout
  /\ t.outputEncoding = s.outputEncoding /\ t.disableStrictREST = s.disableStrictREST
  /\ t.endpoints = s.endpoints /\ t.asyncAgents = s.asyncAgents

LEMMA WithGlobalsFacts ==
  ASSUME NEW s \in ServiceConfig
  PROVE  WithGlobals(s) \in ServiceConfig /\ SameGlobals(s, WithGlobals(s)) /\ WithGlobals(s).timeout # 0
<1> DEFINE u == WithPort(s)
           h == IF HostsValid(u.host) THEN SafeCleanHosts(u.host) ELSE <<>>
           w == [u EXCEPT !.host = h]
           d == IF w.timeout = 0 THEN DefaultTimeout ELSE w.timeout
           t == [w EXCEPT !.timeout = d]
<1>1. u \in ServiceConfig /\ SameGlobals(s, u)
  BY WithPortFacts DEF SameGlobals, SameService
<1>2. WithGlobals(s) = t  BY DEF WithGlobals, WithHosts
<1> HIDE DEF u
<1>3. h \in Hosts
  <2>1. u.host \in Hosts  BY <1>1 DEF ServiceConfig
  <2>2. <<>> \in Hosts  BY DEF Hosts
  <2>3. QED  BY <2>1, <2>2, HostsType
<1> HIDE DEF h
<1>4. w \in ServiceConfig  BY <1>1, <1>3, Zenon DEF ServiceConfig
<1>5. SameGlobals(u, w)  BY <1>1, Zenon DEF ServiceConfig, SameGlobals
<1> HIDE DEF w
<1>6. d \in Int /\ d # 0
  <2>1. w.timeout \in Int  BY <1>4, Zenon DEF ServiceConfig
  <2>2. QED  BY <2>1 DEF DefaultTimeout
<1> HIDE DEF d
<1>7. t \in ServiceConfig /\ t.timeout = d  BY <1>4, <1>6, Zenon DEF ServiceConfig
<1>8. SameGlobals(w, t)  BY <1>4, Zenon DEF ServiceConfig, SameGlobals
<1>9. QED  BY <1>1, <1>2, <1>5, <1>6, <1>7, <1>8 DEF SameGlobals

-----------------------------------------------------------------------------
(* What the parser makes of the file, field by field. *)

LEMMA NormalizedBackends ==
  ASSUME NEW ps \in Seq(ParseableBackend), NEW k \in DOMAIN ps
  PROVE  /\ ps[k] \in ParseableBackend /\ DOMAIN NormalizeBackends(ps) = DOMAIN ps
         /\ NormalizeBackends(ps)[k] = NormalizeBackend(ps[k])
         /\ LET be == NormalizeBackend(ps[k])
            IN  /\ be.host = ps[k].host /\ be.urlPattern = ps[k].urlPattern
                /\ be.hostSanitizationDisabled = ps[k].hostSanitizationDisabled
                /\ be.encoding = ps[k].encoding /\ be.extraConfig = ps[k].extraConfig
<1>1. ps[k] \in ParseableBackend  OBVIOUS
<1>2. DOMAIN NormalizeBackends(ps) = DOMAIN ps /\ NormalizeBackends(ps)[k] = NormalizeBackend(ps[k])
  BY DEF NormalizeBackends
<1>3. QED  BY <1>1, <1>2 DEF NormalizeBackend

LEMMA NormalizedService ==
  ASSUME NEW p \in ParseableServiceConfig
  PROVE  LET s == NormalizeService(p)
         IN  /\ s.version = p.version /\ s.address = p.address /\ s.host = p.host
             /\ s.outputEncoding = p.outputEncoding /\ s.disableStrictREST = p.disableStrictREST
             /\ s.writeTimeout = ParseDuration(p.writeTimeout)
             /\ s.responseHeaderTimeout = ParseDuration(p.responseHeaderTimeout)
             /\ \A k \in DOMAIN p.endpoints : s.endpoints[k] = NormalizeEndpoint(p.endpoints[k])
             /\ \A k \in DOMAIN p.asyncAgents : s.asyncAgents[k] = NormalizeAgent(p.asyncAgents[k])
BY DEF NormalizeService

LEMMA GivenTypes ==
  ASSUME NEW p \in ParseableServiceConfig
  PROVE  /\ p.endpoints \in Seq(ParseableEndpointConfig)
         /\ p.asyncAgents \in Seq(ParseableAsyncAgent)
         /\ \A k \in DOMAIN p.endpoints : /\ p.endpoints[k] \in ParseableEndpointConfig
                                          /\ p.endpoints[k].backend \in Seq(ParseableBackend)
         /\ \A k \in DOMAIN p.asyncAgents : /\ p.asyncAgents[k] \in ParseableAsyncAgent
                                            /\ p.asyncAgents[k].backend \in Seq(ParseableBackend)
<1>1. p.endpoints \in Seq(ParseableEndpointConfig) /\ p.asyncAgents \in Seq(ParseableAsyncAgent)
  BY Zenon DEF ParseableServiceConfig
<1>2. \A k \in DOMAIN p.endpoints : p.endpoints[k] \in ParseableEndpointConfig  BY <1>1
<1>3. \A k \in DOMAIN p.asyncAgents : p.asyncAgents[k] \in ParseableAsyncAgent  BY <1>1
<1>4. \A x \in ParseableEndpointConfig : x.backend \in Seq(ParseableBackend)
  BY Zenon DEF ParseableEndpointConfig
<1>5. \A x \in ParseableAsyncAgent : x.backend \in Seq(ParseableBackend)
  BY Zenon DEF ParseableAsyncAgent
<1>6. QED  BY <1>1, <1>2, <1>3, <1>4, <1>5

LEMMA CfgTypes ==
  ASSUME NEW s \in ServiceConfig
  PROVE  /\ s.endpoints \in Seq(EndpointConfig) /\ s.asyncAgents \in Seq(AsyncAgent)
         /\ s.timeout \in Int /\ s.cacheTTL \in Int /\ s.host \in Hosts
         /\ s.outputEncoding \in Encodings /\ s.writeTimeout \in Int
         /\ s.responseHeaderTimeout \in Int /\ s.disableStrictREST \in BOOLEAN
         /\ \A k \in DOMAIN s.endpoints : /\ s.endpoints[k] \in EndpointConfig
                                          /\ s.endpoints[k].backend \in Seq(Backend)
         /\ \A k \in DOMAIN s.asyncAgents : /\ s.asyncAgents[k] \in AsyncAgent
                                            /\ s.asyncAgents[k].backend \in Seq(Backend)
<1>1. s.endpoints \in Seq(EndpointConfig) /\ s.asyncAgents \in Seq(AsyncAgent)
  BY Zenon DEF ServiceConfig
<1>2. \A k \in DOMAIN s.endpoints : s.endpoints[k] \in EndpointConfig  BY <1>1
<1>3. \A k \in DOMAIN s.asyncAgents : s.asyncAgents[k] \in AsyncAgent  BY <1>1
<1>4. \A x \in EndpointConfig : x.backend \in Seq(Backend)  BY Zenon DEF EndpointConfig
<1>5. \A x \in AsyncAgent : x.backend \in Seq(Backend)  BY Zenon DEF AsyncAgent
<1>6. /\ s.timeout \in Int /\ s.cacheTTL \in Int /\ s.host \in Hosts
      /\ s.outputEncoding \in Encodings /\ s.writeTimeout \in Int
      /\ s.responseHeaderTimeout \in Int /\ s.disableStrictREST \in BOOLEAN
  BY Zenon DEF ServiceConfig
<1>7. QED  BY <1>1, <1>2, <1>3, <1>4, <1>5, <1>6

-----------------------------------------------------------------------------
(* What a step has to show. *)

\* An error ends it: only the verdict is left to show.
LEMMA Refused ==
  ASSUME IInv, NEW why \in Errors, Refuse(why), cfg' \in ServiceConfig,
         why \in {"unreadable", "syntax"} \/ ~FileValid
  PROVE  IInv'
<1>1. stage' = "refused" /\ err' = why /\ given' = given /\ e' = e /\ b' = b  BY DEF Refuse
<1>2. "" \notin Errors  BY DEF Errors
<1>3. TypeOK' /\ (given \in ParseableServiceConfig)'  BY <1>1, <1>2 DEF IInv, TypeOK
<1>4. ~AfterGlobals' /\ ~InBackends'  BY <1>1 DEF AfterGlobals, AfterAgents, InBackends
<1>5. ServiceInv' /\ AgentsInv' /\ EndpointsInv' /\ CurrentInv'
  BY <1>1, <1>4 DEF ServiceInv, AgentsInv, EndpointsInv, CurrentInv
<1>6. FileValid' = FileValid
  BY <1>1 DEF FileValid, EndpointValid, Streaming, OutputEncoding, InputParams
<1>7. VerdictInv'  BY <1>1, <1>6 DEF VerdictInv
<1>8. QED  BY <1>3, <1>5, <1>7 DEF IInv

\* Past the agents, they and the service's own fields stay what they are.
LEMMA Later ==
  ASSUME IInv, AfterAgents, AfterAgents', given' = given, SameService(cfg, cfg'),
         cfg'.asyncAgents = cfg.asyncAgents, Len(cfg'.endpoints) = Len(cfg.endpoints)
  PROVE  ServiceInv' /\ AgentsInv'
<1>1. AfterGlobals /\ AfterGlobals'  BY DEF AfterGlobals
<1>2. stage' \notin {"file", "version", "globals"}  BY DEF AfterAgents
<1>3. ServiceInv'  BY <1>1, <1>2 DEF IInv, ServiceInv, SameService
<1>4. \A k : AgentDone(k) /\ AgentDone(k)'  BY DEF AgentDone
<1>5. AgentsInv'  BY <1>1, <1>4 DEF IInv, AgentsInv, AgentReady
<1>6. QED  BY <1>3, <1>5

\* Steps that only move on.
LEMMA MovedTypes ==
  ASSUME IInv, given' = given, cfg' \in ServiceConfig, err' = err, stage # "refused",
         stage' \in {"version", "globals", "agents", "endpoints", "backends", "url mappings",
                     "service", "accepted"},
         e' \in Nat \ {0}, b' \in Nat \ {0}
  PROVE  /\ TypeOK' /\ (given \in ParseableServiceConfig)'
         /\ stage' # "accepted" => VerdictInv'
<1>1. err = "" /\ stage' # "refused"  BY DEF IInv, TypeOK
<1>2. QED  BY <1>1 DEF IInv, TypeOK, VerdictInv

LEMMA InitInv == Init => IInv
<1> SUFFICES ASSUME Init  PROVE IInv  OBVIOUS
<1>1. given \in ParseableServiceConfig  BY GivenAssumption DEF Init
<1>2. cfg \in ServiceConfig  BY <1>1, NormalizeServiceType DEF Init
<1>3. TypeOK
  <2>1. stage = "file" /\ err = ""  BY DEF Init
  <2>2. (err # "") = (stage = "refused")  BY <2>1
  <2>3. e \in Nat \ {0} /\ b \in Nat \ {0}
    <3>1. e = 1 /\ b = 1  BY DEF Init
    <3>2. QED  BY <3>1
  <2>4. err \in Errors \cup {""}  BY <2>1, Zenon
  <2>5. QED  BY <1>2, <2>1, <2>2, <2>3, <2>4, Zenon DEF TypeOK
<1>4. ~AfterGlobals /\ ~InBackends  BY DEF Init, AfterGlobals, AfterAgents, InBackends
<1>5. QED  BY <1>1, <1>3, <1>4
           DEF Init, IInv, ServiceInv, AgentsInv, EndpointsInv, CurrentInv, VerdictInv

LEMMA ReadFailsStep == IInv /\ ReadFails => IInv'
<1> SUFFICES ASSUME IInv, ReadFails  PROVE IInv'  OBVIOUS
<1>1. PICK why \in {"unreadable", "syntax"} : Refuse(why)  BY DEF ReadFails
<1>2. why \in Errors  BY DEF Errors
<1>3. cfg' \in ServiceConfig  BY DEF ReadFails, IInv, TypeOK
<1>4. QED  BY <1>1, <1>2, <1>3, Refused

LEMMA ReadStep == IInv /\ Read => IInv'
<1> SUFFICES ASSUME IInv, Read  PROVE IInv'  OBVIOUS
<1>1. stage' = "version" /\ stage = "file" /\ UNCHANGED <<given, cfg, e, b, err>>
  BY DEF Read, GoOn
<1>2. TypeOK' /\ (given \in ParseableServiceConfig)' /\ VerdictInv'
  BY <1>1, MovedTypes DEF IInv, TypeOK
<1>3. ~AfterGlobals' /\ ~InBackends'  BY <1>1 DEF AfterGlobals, AfterAgents, InBackends
<1>4. ServiceInv'  BY <1>1, <1>3 DEF IInv, ServiceInv
<1>5. QED  BY <1>2, <1>3, <1>4 DEF IInv, AgentsInv, EndpointsInv, CurrentInv

LEMMA CheckVersionStep == IInv /\ CheckVersion => IInv'
<1> SUFFICES ASSUME IInv, CheckVersion  PROVE IInv'  OBVIOUS
<1>1. given \in ParseableServiceConfig /\ cfg \in ServiceConfig  BY DEF IInv, TypeOK
<1>2. cfg.version = given.version /\ stage = "version" /\ cfg' = cfg
  BY <1>1, NormalizedService DEF CheckVersion, IInv, ServiceInv
<1>3. CASE cfg.version # ConfigVersion
  <2>1. Refuse("version")  BY <1>3 DEF CheckVersion
  <2>2. "version" \in Errors /\ ~FileValid  BY <1>2, <1>3 DEF Errors, FileValid
  <2>3. QED  BY <1>1, <1>2, <2>1, <2>2, Refused
<1>4. CASE cfg.version = ConfigVersion
  <2>1. stage' = "globals" /\ UNCHANGED <<given, cfg, e, b, err>>
    BY <1>4 DEF CheckVersion, GoOn
  <2>2. TypeOK' /\ (given \in ParseableServiceConfig)' /\ VerdictInv'
    BY <1>2, <2>1, MovedTypes DEF IInv, TypeOK
  <2>3. ~AfterGlobals' /\ ~InBackends'  BY <2>1 DEF AfterGlobals, AfterAgents, InBackends
  <2>4. ServiceInv'  BY <1>2, <1>4, <2>1, <2>3 DEF IInv, ServiceInv
  <2>5. QED  BY <2>2, <2>3, <2>4 DEF IInv, AgentsInv, EndpointsInv, CurrentInv
<1>5. QED  BY <1>3, <1>4

-----------------------------------------------------------------------------
(* The service's own fields, and the agents. *)

LEMMA InitGlobalParamsStep == IInv /\ InitGlobalParams => IInv'
<1> SUFFICES ASSUME IInv, InitGlobalParams  PROVE IInv'  OBVIOUS
<1>1. /\ given \in ParseableServiceConfig /\ cfg \in ServiceConfig /\ stage = "globals"
      /\ given.version = ConfigVersion /\ cfg = NormalizeService(given)
  BY DEF InitGlobalParams, IInv, TypeOK, ServiceInv
<1>2. cfg.address = given.address /\ cfg.host = given.host  BY <1>1, NormalizedService
<1>3. CASE cfg.address = "host name"
  <2>1. Refuse("address") /\ cfg' = WithPort(cfg)  BY <1>3 DEF InitGlobalParams
  <2>2. "address" \in Errors /\ ~FileValid  BY <1>2, <1>3 DEF Errors, FileValid
  <2>3. cfg' \in ServiceConfig  BY <1>1, <2>1, WithPortFacts
  <2>4. QED  BY <2>1, <2>2, <2>3, Refused
<1>4. CASE cfg.address # "host name" /\ ~HostsValid(cfg.host)
  <2>1. Refuse("host") /\ cfg' = WithGlobals(cfg)  BY <1>4 DEF InitGlobalParams
  <2>2. "host" \in Errors /\ ~FileValid  BY <1>2, <1>4 DEF Errors, FileValid
  <2>3. cfg' \in ServiceConfig  BY <1>1, <2>1, WithGlobalsFacts
  <2>4. QED  BY <2>1, <2>2, <2>3, Refused
<1>5. CASE cfg.address # "host name" /\ HostsValid(cfg.host)
  <2>1. /\ stage' = "agents" /\ UNCHANGED <<given, e, b, err>>
        /\ cfg' = WithGlobals(cfg)
    BY <1>5 DEF InitGlobalParams, GoOn
  <2>2. cfg' \in ServiceConfig /\ SameGlobals(cfg, cfg') /\ cfg'.timeout # 0
    BY <1>1, <2>1, WithGlobalsFacts
  <2>3. TypeOK' /\ (given \in ParseableServiceConfig)' /\ VerdictInv'
    BY <1>1, <2>1, <2>2, MovedTypes DEF IInv, TypeOK
  <2>4. AfterGlobals' /\ ~AfterAgents' /\ ~InBackends' /\ stage' \notin {"file", "version", "globals"}
    BY <2>1 DEF AfterGlobals, AfterAgents, InBackends
  <2>5. ServiceInv'
    <3>1. /\ given'.address # "host name" /\ HostsValid(given'.host) /\ given'.version = ConfigVersion
      BY <1>1, <1>2, <1>5, <2>1
    <3>2. /\ cfg'.outputEncoding = given'.outputEncoding
          /\ cfg'.disableStrictREST = given'.disableStrictREST
          /\ cfg'.writeTimeout = ParseDuration(given'.writeTimeout)
          /\ cfg'.responseHeaderTimeout = ParseDuration(given'.responseHeaderTimeout)
      BY <1>1, <2>1, <2>2, NormalizedService DEF SameGlobals
    <3>3. Len(cfg'.asyncAgents) = Len(given'.asyncAgents) /\ Len(cfg'.endpoints) = Len(given'.endpoints)
      BY <1>1, <2>1, <2>2, NormalizeServiceType DEF SameGlobals
    <3>4. QED  BY <2>2, <2>4, <3>1, <3>2, <3>3 DEF ServiceInv
  <2>6. e' = 1  BY <1>1, <2>1 DEF IInv, ServiceInv
  <2>7. AgentsInv'
    <3>1. \A k \in DOMAIN given'.asyncAgents : ~AgentDone(k)'
      <4>1. given'.asyncAgents \in Seq(ParseableAsyncAgent)  BY <1>1, <2>1, GivenTypes
      <4>2. \A k \in DOMAIN given'.asyncAgents : ~(k < e')  BY <2>6, <4>1
      <4>3. QED  BY <2>4, <4>2 DEF AgentDone
    <3>2. \A k \in DOMAIN given'.asyncAgents : cfg'.asyncAgents[k] = NormalizeAgent(given'.asyncAgents[k])
      BY <1>1, <2>1, <2>2, NormalizedService DEF SameGlobals
    <3>3. QED  BY <3>1, <3>2 DEF AgentsInv
  <2>8. EndpointsInv'
    <3>1. \A k : ~EndpointDone(k)'
      BY <2>1 DEF EndpointDone, AfterEndpoints, InBackends
    <3>2. \A k \in DOMAIN given'.endpoints : cfg'.endpoints[k] = NormalizeEndpoint(given'.endpoints[k])
      BY <1>1, <2>1, <2>2, NormalizedService DEF SameGlobals
    <3>3. QED  BY <3>1, <3>2 DEF EndpointsInv
  <2>9. QED  BY <2>3, <2>4, <2>5, <2>7, <2>8 DEF IInv, CurrentInv
<1>6. QED  BY <1>3, <1>4, <1>5

LEMMA EffectiveHostsType ==
  ASSUME cfg \in ServiceConfig, NEW be \in Backend
  PROVE  EffectiveHosts(be) \in Hosts
<1>1. cfg.host \in Hosts  BY CfgTypes
<1>2. be.host \in Hosts  BY DEF Backend
<1>3. QED  BY <1>1, <1>2, HostsType DEF EffectiveHosts

LEMMA AgentDefaultsFacts ==
  ASSUME cfg \in ServiceConfig, NEW a \in AsyncAgent
  PROVE  LET t == WithAgentDefaults(a)
         IN  /\ t \in AsyncAgent /\ t.backend = a.backend
             /\ cfg.timeout # 0 => t.consumerTimeout # 0
<1> DEFINE T == IF a.consumerTimeout = 0 THEN cfg.timeout ELSE a.consumerTimeout
           W == IF a.workers < 1 THEN 1 ELSE a.workers
           H == IF a.healthInterval < 1 THEN 1 ELSE a.healthInterval
           t == [a EXCEPT !.consumerTimeout = T, !.workers = W, !.healthInterval = H]
<1>1. a.consumerTimeout \in Int /\ a.workers \in Int /\ a.healthInterval \in Int
  BY Zenon DEF AsyncAgent
<1>2. T \in Int /\ W \in Int /\ H \in Int /\ (cfg.timeout # 0 => T # 0)  BY <1>1, CfgTypes
<1>3. WithAgentDefaults(a) = t  BY DEF WithAgentDefaults
<1> HIDE DEF T, W, H
<1>4. t \in AsyncAgent /\ t.backend = a.backend /\ t.consumerTimeout = T
  BY <1>2, Zenon DEF AsyncAgent
<1>5. QED  BY <1>2, <1>3, <1>4

LEMMA AgentBackendFacts ==
  ASSUME cfg \in ServiceConfig, NEW a \in AsyncAgent, NEW be \in Backend
  PROVE  /\ WithAgentBackend(a, be) \in Backend
         /\ WithAgentBackend(a, be).timeout = a.consumerTimeout
         /\ [be EXCEPT !.host = <<>>] \in Backend
<1> DEFINE h == EffectiveHosts(be)
           m == IF be.method = "" THEN "GET" ELSE be.method
           d == DecoderFor(be.encoding)
           c == a.consumerTimeout
<1>1. h \in Hosts  BY EffectiveHostsType
<1>2. m \in Methods
  <2>1. be.method \in Methods  BY Zenon DEF Backend
  <2>2. QED  BY <2>1, MethodsAssumption
<1>3. d \in Encodings
  <2>1. be.encoding \in Encodings  BY Zenon DEF Backend
  <2>2. QED  BY <2>1 DEF DecoderFor, Encodings
<1>4. c \in Int  BY Zenon DEF AsyncAgent
<1>5. WithAgentBackend(a, be) = [be EXCEPT !.host = h, !.method = m, !.timeout = c, !.decoder = d]
  BY DEF WithAgentBackend
<1> HIDE DEF h, m, d, c
<1>6. [be EXCEPT !.host = h, !.method = m, !.timeout = c, !.decoder = d] \in Backend
  BY <1>1, <1>2, <1>3, <1>4, Zenon DEF Backend
<1>7. [be EXCEPT !.host = h, !.method = m, !.timeout = c, !.decoder = d].timeout = c
  BY Zenon DEF Backend
<1>8. <<>> \in Hosts  BY DEF Hosts
<1>9. [be EXCEPT !.host = <<>>] \in Backend  BY <1>8, Zenon DEF Backend
<1>10. QED  BY <1>5, <1>6, <1>7, <1>9 DEF c

LEMMA InitAsyncAgentStep == IInv /\ InitAsyncAgent => IInv'
<1> SUFFICES ASSUME IInv, InitAsyncAgent  PROVE IInv'  OBVIOUS
<1> DEFINE p     == given.asyncAgents[e]
           agent == WithAgentDefaults(cfg.asyncAgents[e])
           bad   == {k \in DOMAIN agent.backend : ~HostsAccepted(agent.backend[k])}
           done(k) == \A l \in bad : k < l
           F(k)  == IF done(k) THEN WithAgentBackend(agent, agent.backend[k])
                    ELSE IF k = Min(bad) THEN [agent.backend[k] EXCEPT !.host = <<>>]
                    ELSE agent.backend[k]
           fs    == [k \in DOMAIN agent.backend |-> F(k)]
           a     == [agent EXCEPT !.backend = fs]
<1>1. /\ given \in ParseableServiceConfig /\ cfg \in ServiceConfig /\ stage = "agents"
      /\ AfterGlobals /\ ServiceInv /\ AgentsInv /\ EndpointsInv
      /\ e \in Nat \ {0} /\ e <= Len(cfg.asyncAgents)
  BY DEF InitAsyncAgent, IInv, TypeOK, AfterGlobals
<1>2. /\ e \in DOMAIN cfg.asyncAgents /\ e \in DOMAIN given.asyncAgents
      /\ DOMAIN cfg.asyncAgents = DOMAIN given.asyncAgents
  <2>1. cfg.asyncAgents \in Seq(AsyncAgent)  BY <1>1, CfgTypes
  <2>2. given.asyncAgents \in Seq(ParseableAsyncAgent)  BY <1>1, GivenTypes
  <2>3. Len(cfg.asyncAgents) = Len(given.asyncAgents)  BY <1>1 DEF ServiceInv
  <2>4. QED  BY <1>1, <2>1, <2>2, <2>3
<1>3. cfg.asyncAgents[e] = NormalizeAgent(p)
  <2>1. ~AgentDone(e)  BY <1>1 DEF AgentDone, AfterAgents
  <2>2. QED  BY <1>1, <1>2, <2>1 DEF AgentsInv
<1>4. p \in ParseableAsyncAgent /\ p.backend \in Seq(ParseableBackend)  BY <1>1, <1>2, GivenTypes
<1>5. /\ agent \in AsyncAgent /\ agent.backend = NormalizeBackends(p.backend)
      /\ agent.consumerTimeout # 0
  <2>1. cfg.asyncAgents[e] \in AsyncAgent  BY <1>1, <1>2, CfgTypes
  <2>2. cfg.asyncAgents[e].backend = NormalizeBackends(p.backend)  BY <1>3 DEF NormalizeAgent
  <2>3. cfg.timeout # 0  BY <1>1 DEF ServiceInv
  <2>4. QED  BY <1>1, <2>1, <2>2, <2>3, AgentDefaultsFacts
<1>6. /\ agent.backend \in Seq(Backend) /\ DOMAIN agent.backend = DOMAIN p.backend
      /\ Len(agent.backend) = Len(p.backend)
  BY <1>4, <1>5, NormalizeBackendsType
<1>7. cfg' = [cfg EXCEPT !.asyncAgents[e] = a]  BY DEF InitAsyncAgent
<1>8. \A k \in DOMAIN p.backend : HostsAccepted(agent.backend[k]) = BackendHostsValid(p.backend[k])
  BY <1>4, <1>5, NormalizedBackends DEF HostsAccepted, BackendHostsValid
<1>9. a \in AsyncAgent /\ a.backend = fs /\ a.consumerTimeout = agent.consumerTimeout
  <2>1. \A k \in 1..Len(p.backend) : F(k) \in Backend
    <3>1. \A k \in 1..Len(p.backend) : agent.backend[k] \in Backend  BY <1>6
    <3>2. QED  BY <1>1, <1>5, <3>1, AgentBackendFacts
  <2> DEFINE n == Len(p.backend)
  <2>2. n \in Nat /\ DOMAIN agent.backend = 1..n  BY <1>4, <1>6
  <2>4. \A k \in 1..n : F(k) \in Backend  BY <2>1
  <2> HIDE DEF n, F, agent
  <2>5. fs \in [1..n -> Backend]  BY <2>2, <2>4
  <2> HIDE DEF fs
  <2>3. fs \in Seq(Backend)  BY <2>2, <2>5
  <2>6. QED  BY <1>5, <2>3, Zenon DEF AsyncAgent
<1> HIDE DEF a
<1>10. /\ cfg' \in ServiceConfig /\ SameService(cfg, cfg') /\ cfg'.endpoints = cfg.endpoints
       /\ Len(cfg'.asyncAgents) = Len(cfg.asyncAgents) /\ cfg'.asyncAgents[e] = a
       /\ \A l \in DOMAIN cfg.asyncAgents : l # e => cfg'.asyncAgents[l] = cfg.asyncAgents[l]
  BY <1>1, <1>2, <1>7, <1>9, AgentsUpdated
<1>11. ASSUME bad # {}  PROVE IInv'
  <2>1. Refuse("host")  BY <1>11 DEF InitAsyncAgent
  <2>2. PICK k \in DOMAIN p.backend : ~BackendHostsValid(p.backend[k])
    BY <1>6, <1>8, <1>11
  <2>3. p \in ToSet(given.asyncAgents) /\ p.backend[k] \in ToSet(p.backend)
    BY <1>2 DEF ToSet
  <2>4. ~FileValid  BY <2>2, <2>3 DEF FileValid
  <2>5. "host" \in Errors  BY DEF Errors
  <2>6. QED  BY <1>10, <2>1, <2>4, <2>5, Refused
<1>12. ASSUME bad = {}  PROVE IInv'
  <2>1. stage' = "agents" /\ given' = given /\ err' = err /\ b' = b
    BY <1>12 DEF InitAsyncAgent, GoOn
  <2>9. e' = e + 1  BY <1>12 DEF InitAsyncAgent
  <2>2. TypeOK' /\ (given \in ParseableServiceConfig)' /\ VerdictInv'
    <3>1. b \in Nat \ {0}  BY DEF IInv, TypeOK
    <3>2. e' \in Nat \ {0} /\ b' \in Nat \ {0}  BY <1>1, <2>1, <2>9, <3>1
    <3>3. QED  BY <1>1, <1>10, <2>1, <3>2, MovedTypes
  <2>3. AfterGlobals' /\ ~AfterAgents' /\ ~InBackends' /\ stage' \notin {"file", "version", "globals"}
    BY <2>1 DEF AfterGlobals, AfterAgents, InBackends
  <2>4. ServiceInv'
    BY <1>1, <1>10, <2>1, <2>3 DEF ServiceInv, SameService
  <2>5. AgentReady(a) /\ \A be \in ToSet(p.backend) : BackendHostsValid(be)
    <3>1. \A k \in DOMAIN p.backend : BackendHostsValid(p.backend[k])  BY <1>6, <1>8, <1>12
    <3>2. \A k \in DOMAIN fs : fs[k].timeout = agent.consumerTimeout
      <4>1. \A k \in DOMAIN fs : fs[k] = WithAgentBackend(agent, agent.backend[k])  BY <1>12
      <4>2. \A k \in DOMAIN fs : agent.backend[k] \in Backend  BY <1>6
      <4> HIDE DEF agent, fs
      <4>4. \A be \in Backend : WithAgentBackend(agent, be).timeout = agent.consumerTimeout
        BY <1>1, <1>5, AgentBackendFacts
      <4>3. QED  BY <4>1, <4>2, <4>4
    <3> HIDE DEF agent, fs
    <3>3. QED  BY <1>5, <1>9, <3>1, <3>2 DEF AgentReady, ToSet
  <2>6. AgentsInv'
    <3> SUFFICES ASSUME NEW k \in DOMAIN given.asyncAgents
                 PROVE  IF AgentDone(k)'
                        THEN /\ AgentReady(cfg'.asyncAgents[k])
                             /\ \A be \in ToSet(given.asyncAgents[k].backend) : BackendHostsValid(be)
                        ELSE cfg'.asyncAgents[k] = NormalizeAgent(given.asyncAgents[k])
      BY <2>1 DEF AgentsInv, AgentReady
    <3>1. k \in Nat  BY <1>1, GivenTypes
    <3>2. AgentDone(k)' <=> k < e + 1  BY <2>1, <2>3, <2>9 DEF AgentDone
    <3>3. AgentDone(k) <=> k < e  BY <1>1 DEF AgentDone, AfterAgents
    <3>4. CASE k = e
      BY <1>1, <1>10, <2>5, <3>2, <3>4
    <3>5. CASE k # e
      <4>1. AgentDone(k)' <=> AgentDone(k)  BY <1>1, <3>1, <3>2, <3>3, <3>5
      <4>2. cfg'.asyncAgents[k] = cfg.asyncAgents[k]  BY <1>2, <1>10, <3>5
      <4>3. QED  BY <1>1, <4>1, <4>2 DEF AgentsInv
    <3>6. QED  BY <3>4, <3>5
  <2>7. EndpointsInv'
    <3>1. \A k : ~EndpointDone(k)' /\ ~EndpointDone(k)
      BY <1>1, <2>1 DEF EndpointDone, AfterEndpoints, InBackends
    <3>2. ~InBackends  BY <1>1 DEF InBackends
    <3>3. QED  BY <1>1, <1>10, <2>1, <3>1, <3>2 DEF EndpointsInv
  <2>8. QED  BY <2>2, <2>3, <2>4, <2>6, <2>7 DEF IInv, CurrentInv
<1>13. QED  BY <1>11, <1>12

LEMMA AsyncAgentsDoneStep == IInv /\ AsyncAgentsDone => IInv'
<1> SUFFICES ASSUME IInv, AsyncAgentsDone  PROVE IInv'  OBVIOUS
<1>1. /\ given \in ParseableServiceConfig /\ cfg \in ServiceConfig /\ stage = "agents"
      /\ AfterGlobals /\ ServiceInv /\ AgentsInv /\ EndpointsInv
      /\ e \in Nat \ {0} /\ e > Len(cfg.asyncAgents)
  BY DEF AsyncAgentsDone, IInv, TypeOK, AfterGlobals
<1>2. stage' = "endpoints" /\ UNCHANGED <<given, cfg, b, err>>  BY DEF AsyncAgentsDone, GoOn
<1>3. e' = 1  BY DEF AsyncAgentsDone
<1>4. TypeOK' /\ (given \in ParseableServiceConfig)' /\ VerdictInv'
  <2>1. b \in Nat \ {0}  BY DEF IInv, TypeOK
  <2>2. e' \in Nat \ {0} /\ b' \in Nat \ {0}  BY <1>2, <1>3, <2>1
  <2>3. QED  BY <1>1, <1>2, <2>2, MovedTypes
<1>5. AfterGlobals' /\ AfterAgents' /\ ~InBackends' /\ stage' \notin {"file", "version", "globals"}
  BY <1>2 DEF AfterGlobals, AfterAgents, InBackends
<1>6. ServiceInv'  BY <1>1, <1>2, <1>5 DEF ServiceInv
<1>7. AgentsInv'
  <2>1. \A k \in DOMAIN given.asyncAgents : AgentDone(k) /\ AgentDone(k)'
    <3>1. Len(given.asyncAgents) = Len(cfg.asyncAgents)  BY <1>1 DEF ServiceInv
    <3>2. \A k \in DOMAIN given.asyncAgents : k < e
      <4>1. given.asyncAgents \in Seq(ParseableAsyncAgent)  BY <1>1, GivenTypes
      <4>2. QED  BY <1>1, <3>1, <4>1
    <3>3. QED  BY <1>1, <1>5, <3>2 DEF AgentDone
  <2>2. QED  BY <1>1, <1>2, <2>1 DEF AgentsInv, AgentReady
<1>8. EndpointsInv'
  <2>1. \A k : ~EndpointDone(k)  BY <1>1 DEF EndpointDone, AfterEndpoints, InBackends
  <2>2. \A k \in DOMAIN given.endpoints : ~EndpointDone(k)'
    <3>1. \A k \in DOMAIN given.endpoints : ~(k < e')
      <4>1. given.endpoints \in Seq(ParseableEndpointConfig)  BY <1>1, GivenTypes
      <4>2. QED  BY <1>3, <4>1
    <3>2. QED  BY <1>2, <3>1 DEF EndpointDone, AfterEndpoints
  <2>3. ~InBackends  BY <1>1 DEF InBackends
  <2>4. QED  BY <1>1, <1>2, <2>1, <2>2, <2>3 DEF EndpointsInv
<1>9. QED  BY <1>4, <1>5, <1>6, <1>7, <1>8 DEF IInv, CurrentInv

-----------------------------------------------------------------------------
(* The endpoints. *)

LEMMA EndpointDefaultsFacts ==
  ASSUME IInv, AfterGlobals, NEW ep \in EndpointConfig
  PROVE  LET t == WithEndpointDefaults([ep EXCEPT !.routeParams = InputParams(cfg, ep)])
         IN  /\ t \in EndpointConfig /\ t.timeout # 0
             /\ t.backend = ep.backend /\ t.extraConfig = ep.extraConfig
             /\ t.routeParams = InputParams(cfg, ep)
             /\ t.outputEncoding = OutputEncoding(ep)
<1> DEFINE R == InputParams(cfg, ep)
           M == IF ep.method = "" THEN "GET" ELSE ep.method
           C == IF ep.cacheTTL = 0 THEN cfg.cacheTTL ELSE ep.cacheTTL
           T == IF ep.timeout = 0 THEN cfg.timeout ELSE ep.timeout
           N == IF ep.concurrentCalls = 0 THEN 1 ELSE ep.concurrentCalls
           O == OutputEncoding(ep)
           t == [ep EXCEPT !.routeParams = R, !.method = M, !.cacheTTL = C, !.timeout = T,
                           !.concurrentCalls = N, !.outputEncoding = O]
<1>1. /\ ep.method \in Methods /\ ep.cacheTTL \in Int /\ ep.timeout \in Int
      /\ ep.concurrentCalls \in Int /\ ep.outputEncoding \in Encodings
      /\ ep.placeholders \in Seq(Names)
  BY Zenon DEF EndpointConfig
<1>2. cfg \in ServiceConfig /\ cfg.timeout # 0 /\ cfg.outputEncoding = given.outputEncoding
  BY DEF IInv, TypeOK, ServiceInv
<1>3. R \in SUBSET Names  BY <1>1 DEF InputParams, ToSet
<1>4. M \in Methods  BY <1>1, MethodsAssumption
<1>5. C \in Int /\ T \in Int /\ N \in Int /\ T # 0  BY <1>1, <1>2, CfgTypes
<1>6. O \in Encodings  BY <1>1, <1>2, CfgTypes DEF OutputEncoding, Encodings
<1>7. WithEndpointDefaults([ep EXCEPT !.routeParams = R]) = t
  BY <1>2, Zenon DEF WithEndpointDefaults, OutputEncoding, EndpointConfig
<1> HIDE DEF R, M, C, T, N, O
<1>8. /\ t \in EndpointConfig /\ t.timeout = T /\ t.routeParams = R /\ t.outputEncoding = O
      /\ t.backend = ep.backend /\ t.extraConfig = ep.extraConfig
  BY <1>3, <1>4, <1>5, <1>6, Zenon DEF EndpointConfig
<1>9. QED  BY <1>5, <1>7, <1>8 DEF R, O

\* The same file's endpoint, as parsed.
LEMMA NormalizedEndpoint ==
  ASSUME IInv, AfterGlobals, NEW p \in ParseableEndpointConfig
  PROVE  LET ep == NormalizeEndpoint(p)
         IN  /\ ep \in EndpointConfig /\ ep.path = p.path /\ ep.extraConfig = p.extraConfig
             /\ ep.backend = NormalizeBackends(p.backend) /\ Len(ep.backend) = Len(p.backend)
             /\ OutputEncoding(ep) = OutputEncoding(p)
             /\ InputParams(cfg, ep) = InputParams(given, p)
<1>1. p.backend \in Seq(ParseableBackend)  BY Zenon DEF ParseableEndpointConfig
<1>2. cfg.disableStrictREST = given.disableStrictREST  BY DEF IInv, ServiceInv
<1>3. /\ NormalizeEndpoint(p).path = p.path /\ NormalizeEndpoint(p).extraConfig = p.extraConfig
      /\ NormalizeEndpoint(p).backend = NormalizeBackends(p.backend)
      /\ NormalizeEndpoint(p).outputEncoding = p.outputEncoding
      /\ NormalizeEndpoint(p).placeholders = p.placeholders
  BY DEF NormalizeEndpoint
<1>4. QED
  BY <1>1, <1>2, <1>3, NormalizeEndpointType, NormalizeBackendsType DEF OutputEncoding, InputParams

\* The streaming rules see the same features before and after the parser.
LEMMA SameStreaming ==
  ASSUME NEW p \in ParseableEndpointConfig, NEW ep, ep.outputEncoding = "no-op",
         ep.extraConfig = p.extraConfig, ep.backend = NormalizeBackends(p.backend)
  PROVE  StreamingEndpointValid(ep) <=> StreamingEndpointValid([p EXCEPT !.outputEncoding = "no-op"])
<1> DEFINE q == [p EXCEPT !.outputEncoding = "no-op"]
<1>1. q.outputEncoding = "no-op" /\ q.extraConfig = p.extraConfig /\ q.backend = p.backend
  BY Zenon DEF ParseableEndpointConfig
<1>2. p.backend \in Seq(ParseableBackend)  BY Zenon DEF ParseableEndpointConfig
<1>3. Len(ep.backend) = Len(p.backend)  BY <1>2, NormalizeBackendsType
<1> HIDE DEF q
<1>4. CASE Len(p.backend) = 1
  <2>1. 1 \in DOMAIN p.backend  BY <1>2, <1>4
  <2>2. /\ ep.backend[1].encoding = p.backend[1].encoding
        /\ ep.backend[1].extraConfig = p.backend[1].extraConfig
    BY <1>2, <2>1, NormalizedBackends
  <2>3. QED  BY <1>1, <1>3, <2>2 DEF StreamingEndpointValid, IsStreamingEndpoint, q
<1>5. CASE Len(p.backend) # 1
  BY <1>1, <1>3, <1>5 DEF StreamingEndpointValid, IsStreamingEndpoint, q
<1>6. QED  BY <1>4, <1>5

\* The endpoints of the file and of the service correspond.
LEMMA EndpointDomains ==
  ASSUME IInv, AfterGlobals
  PROVE  /\ given \in ParseableServiceConfig /\ cfg \in ServiceConfig
         /\ Len(given.endpoints) \in Nat /\ Len(cfg.endpoints) = Len(given.endpoints)
         /\ DOMAIN given.endpoints = 1..Len(given.endpoints)
         /\ DOMAIN cfg.endpoints = 1..Len(given.endpoints)
         /\ e \in Nat \ {0} /\ b \in Nat \ {0}
<1>1. given \in ParseableServiceConfig /\ cfg \in ServiceConfig  BY DEF IInv, TypeOK
<1>2. e \in Nat \ {0} /\ b \in Nat \ {0}  BY DEF IInv, TypeOK
<1>3. given.endpoints \in Seq(ParseableEndpointConfig)  BY <1>1, GivenTypes
<1>4. cfg.endpoints \in Seq(EndpointConfig)  BY <1>1, CfgTypes
<1>5. Len(cfg.endpoints) = Len(given.endpoints)  BY DEF IInv, ServiceInv
<1>6. QED  BY <1>1, <1>2, <1>3, <1>4, <1>5

\* What EndpointsInv and CurrentInv say of one endpoint.
EndpointSettled(k, done, current, ep) ==
  LET p == given.endpoints[k]
  IN  IF done THEN EndpointReady(p, ep) /\ \A l \in DOMAIN p.backend : BackendDone(p, ep, l)
              ELSE current \/ ep = NormalizeEndpoint(p)

BackendsSettled(p, ep, n, mapping) ==
  \A l \in DOMAIN p.backend :
    IF l < n THEN BackendDone(p, ep, l)
    ELSE IF l = n /\ mapping
    THEN /\ BackendHostsValid(p.backend[l]) /\ BackendReady(ep, ep.backend[l])
         /\ ep.backend[l].urlPattern = p.backend[l].urlPattern
    ELSE ep.backend[l] = NormalizeBackend(p.backend[l])

LEMMA EndpointsPrimed ==
  ASSUME given' = given,
         \A k \in DOMAIN given.endpoints :
           EndpointSettled(k, EndpointDone(k)', InBackends' /\ k = e', cfg'.endpoints[k])
  PROVE  EndpointsInv'
<1>1. \A k \in DOMAIN given'.endpoints :
        LET p  == given'.endpoints[k]
            ep == cfg'.endpoints[k]
        IN  IF EndpointDone(k)'
            THEN EndpointReady(p, ep) /\ \A l \in DOMAIN p.backend : BackendDone(p, ep, l)
            ELSE (InBackends' /\ k = e') \/ ep = NormalizeEndpoint(p)
  BY Zenon DEF EndpointSettled
<1>2. ASSUME NEW k \in DOMAIN given'.endpoints, EndpointDone(k)'
      PROVE  LET p  == given'.endpoints[k]
                 ep == cfg'.endpoints[k]
             IN  /\ EndpointReady(given.endpoints[k], cfg.endpoints[k])'
                 /\ \A l \in DOMAIN p.backend :
                      BackendDone(given.endpoints[k], cfg.endpoints[k], l)'
  BY <1>1, <1>2 DEF EndpointReady, BackendDone, BackendValid, BackendReady, BackendMapped,
                    BackendHostsValid, Streaming, OutputEncoding, InputParams
<1>3. QED  BY <1>1, <1>2 DEF EndpointsInv

LEMMA CurrentPrimed ==
  ASSUME given' = given, e' \in DOMAIN given.endpoints, NEW p, NEW ep,
         p = given.endpoints[e'], ep = cfg'.endpoints[e'],
         EndpointReady(p, ep), stage' = "url mappings" => b' \in DOMAIN p.backend,
         BackendsSettled(p, ep, b', stage' = "url mappings")
  PROVE  CurrentInv'
<1>1. EndpointReady(given.endpoints[e], Endpoint)'
  BY DEF Endpoint, EndpointReady, Streaming, OutputEncoding, InputParams
<1>2. ASSUME NEW l \in DOMAIN p.backend, l < b'
      PROVE  BackendDone(given.endpoints[e], Endpoint, l)'
  <2>1. BackendDone(p, ep, l)  BY <1>2 DEF BackendsSettled
  <2>2. /\ BackendValid(given.endpoints[e], given.endpoints[e].backend[l])'
        /\ BackendReady(Endpoint, Endpoint.backend[l])'
    BY <2>1 DEF BackendDone, Endpoint, BackendValid, BackendReady, BackendHostsValid, InputParams
  <2>3. BackendMapped(Endpoint, given.endpoints[e].backend[l].urlPattern, Endpoint.backend[l])'
    BY <2>1 DEF BackendDone, Endpoint, BackendMapped
  <2>4. QED  BY <2>2, <2>3 DEF BackendDone
<1>3. ASSUME NEW l \in DOMAIN p.backend, ~(l < b')
      PROVE  IF l = b' /\ stage' = "url mappings"
             THEN /\ BackendHostsValid(given.endpoints[e].backend[l])'
                  /\ BackendReady(Endpoint, Endpoint.backend[l])'
                  /\ (Endpoint.backend[l].urlPattern = given.endpoints[e].backend[l].urlPattern)'
             ELSE (Endpoint.backend[l] = NormalizeBackend(given.endpoints[e].backend[l]))'
  BY <1>3 DEF BackendsSettled, Endpoint, BackendReady, BackendHostsValid
<1>4. QED  BY <1>1, <1>2, <1>3 DEF CurrentInv

LEMMA InitEndpointStep == IInv /\ InitEndpoint => IInv'
<1> SUFFICES ASSUME IInv, InitEndpoint  PROVE IInv'  OBVIOUS
<1> DEFINE p  == given.endpoints[e]
           ep == WithEndpointDefaults([Endpoint EXCEPT !.routeParams = InputParams(cfg, Endpoint)])
<1>1. /\ stage = "endpoints" /\ AfterAgents /\ AfterGlobals /\ EndpointsInv /\ ~InBackends
  BY DEF InitEndpoint, IInv, AfterAgents, AfterGlobals, InBackends
<1>2. /\ e \in DOMAIN given.endpoints /\ e \in DOMAIN cfg.endpoints
      /\ given \in ParseableServiceConfig /\ cfg \in ServiceConfig
  <2>1. e <= Len(cfg.endpoints)  BY DEF InitEndpoint
  <2>2. QED  BY <1>1, <2>1, EndpointDomains
<1>3. p \in ParseableEndpointConfig /\ p.backend \in Seq(ParseableBackend)
  BY <1>2, GivenTypes
<1>4. Endpoint = NormalizeEndpoint(p)
  <2>1. ~EndpointDone(e)
    <3>1. ~(e < e)  BY <1>1, EndpointDomains
    <3>2. QED  BY <1>1, <3>1 DEF EndpointDone, AfterEndpoints
  <2>2. QED  BY <1>1, <1>2, <2>1 DEF EndpointsInv, Endpoint
<1>5. /\ Endpoint \in EndpointConfig /\ Endpoint.path = p.path
      /\ Endpoint.extraConfig = p.extraConfig
      /\ Endpoint.backend = NormalizeBackends(p.backend) /\ Len(Endpoint.backend) = Len(p.backend)
      /\ OutputEncoding(Endpoint) = OutputEncoding(p)
      /\ InputParams(cfg, Endpoint) = InputParams(given, p)
  BY <1>1, <1>3, <1>4, NormalizedEndpoint
<1>6. p \in ToSet(given.endpoints)  BY <1>2 DEF ToSet
<1>7. ASSUME EndpointError(Endpoint) # ""  PROVE IInv'
  <2>1. Refuse(EndpointError(Endpoint)) /\ cfg' = cfg  BY <1>7 DEF InitEndpoint
  <2>2. EndpointError(Endpoint) \in Errors  BY <1>7 DEF EndpointError, Errors
  <2>3. ~EndpointValid(p)
    <3>1. Endpoint.backend = <<>> => p.backend = <<>>  BY <1>3, <1>5
    <3>2. QED  BY <1>5, <1>7, <3>1 DEF EndpointError, EndpointValid
  <2>4. ~FileValid  BY <1>6, <2>3 DEF FileValid
  <2>5. QED  BY <1>2, <2>1, <2>2, <2>4, Refused
<1>8. ASSUME EndpointError(Endpoint) = ""  PROVE IInv'
  <2>1. p.path = "allowed" /\ p.backend # <<>>
    <3>1. Endpoint.path # "forbidden" /\ Endpoint.backend # <<>>  BY <1>8 DEF EndpointError
    <3>2. p.path \in {"allowed", "forbidden"}  BY <1>3, Zenon DEF ParseableEndpointConfig
    <3>3. p.backend # <<>>  BY <1>3, <1>5, <3>1
    <3>4. QED  BY <1>5, <3>1, <3>2, <3>3
  <2>2. /\ ep \in EndpointConfig /\ ep.timeout # 0
        /\ ep.backend = NormalizeBackends(p.backend) /\ ep.extraConfig = p.extraConfig
        /\ ep.routeParams = InputParams(given, p) /\ ep.outputEncoding = OutputEncoding(p)
    BY <1>1, <1>5, EndpointDefaultsFacts
  <2> HIDE DEF ep
  <2>3. cfg' = WithEndpoint(ep)  BY <1>8 DEF InitEndpoint, ep
  <2>4. /\ cfg' \in ServiceConfig /\ SameService(cfg, cfg') /\ cfg'.asyncAgents = cfg.asyncAgents
        /\ Len(cfg'.endpoints) = Len(cfg.endpoints) /\ cfg'.endpoints[e] = ep
        /\ \A l \in DOMAIN cfg.endpoints : l # e => cfg'.endpoints[l] = cfg.endpoints[l]
    BY <1>2, <2>2, <2>3, EndpointsUpdated DEF WithEndpoint
  <2>5. Len(ep.backend) = Len(p.backend)  BY <1>5, <2>2
  <2>6. Streaming(p) =>
          (StreamingEndpointValid(ep) <=> StreamingEndpointValid([p EXCEPT !.outputEncoding = "no-op"]))
    BY <1>3, <2>2, SameStreaming DEF Streaming
  <2>7. ASSUME ~StreamingEndpointValid(ep)  PROVE IInv'
    <3>1. Refuse("streaming")  BY <1>8, <2>7 DEF InitEndpoint, ep
    <3>2. Streaming(p)
      BY <2>2, <2>7 DEF StreamingEndpointValid, IsStreamingEndpoint, Streaming
    <3>3. ~EndpointValid(p)  BY <2>6, <2>7, <3>2 DEF EndpointValid, Streaming
    <3>4. ~FileValid  BY <1>6, <3>3 DEF FileValid
    <3>5. "streaming" \in Errors  BY DEF Errors
    <3>6. QED  BY <2>4, <3>1, <3>4, <3>5, Refused
  <2>8. ASSUME StreamingEndpointValid(ep), ep.outputEncoding = "no-op" /\ Len(ep.backend) > 1
        PROVE  IInv'
    <3>1. Refuse("no-op")  BY <1>8, <2>8 DEF InitEndpoint, ep
    <3>2. ~EndpointValid(p)
      <4>1. OutputEncoding(p) = "no-op"  BY <2>2, <2>8
      <4>3. Len(ep.backend) > 1  BY <2>8
      <4>4. Len(p.backend) # 1
        <5>1. Len(p.backend) \in Nat  BY <1>3
        <5> DEFINE n == Len(p.backend)
        <5>2. n \in Nat /\ n > 1  BY <2>5, <4>3, <5>1
        <5> HIDE DEF n
        <5>3. n # 1  BY <5>2
        <5>4. QED  BY <5>3 DEF n
      <4>2. QED  BY <4>1, <4>4 DEF EndpointValid
    <3>3. ~FileValid  BY <1>6, <3>2 DEF FileValid
    <3>4. "no-op" \in Errors  BY DEF Errors
    <3>5. QED  BY <2>4, <3>1, <3>3, <3>4, Refused
  <2>9. ASSUME StreamingEndpointValid(ep), ~(ep.outputEncoding = "no-op" /\ Len(ep.backend) > 1)
        PROVE  IInv'
    <3>1. stage' = "backends" /\ given' = given /\ err' = err /\ e' = e
      BY <1>8, <2>9 DEF InitEndpoint, GoOn, ep
    <3>2. b' = 1  BY <1>8, <2>9 DEF InitEndpoint, ep
    <3>3. TypeOK' /\ (given \in ParseableServiceConfig)' /\ VerdictInv'
      <4>1. e' \in Nat \ {0} /\ b' \in Nat \ {0}  BY <1>1, <3>1, <3>2, EndpointDomains
      <4>2. QED  BY <1>1, <2>4, <3>1, <4>1, MovedTypes
    <3>4. AfterAgents' /\ InBackends'  BY <3>1 DEF AfterAgents, InBackends
    <3>5. ServiceInv' /\ AgentsInv'  BY <1>1, <2>4, <3>1, <3>4, Later
    <3>6. EndpointReady(p, ep)
      <4>1. Streaming(p) => Len(p.backend) = 1
        <5>1. Len(p.backend) \in Nat /\ Len(p.backend) # 0  BY <1>3, <2>1
        <5>2. Streaming(p) => ~(Len(ep.backend) > 1)  BY <2>2, <2>9 DEF Streaming
        <5> DEFINE n == Len(p.backend)
        <5>3. n \in Nat /\ n # 0 /\ (Streaming(p) => ~(n > 1))  BY <2>5, <5>1, <5>2
        <5> HIDE DEF n
        <5>4. Streaming(p) => n = 1  BY <5>3
        <5>5. QED  BY <5>4 DEF n
      <4>2. Streaming(p) => StreamingEndpointValid([p EXCEPT !.outputEncoding = "no-op"])
        BY <2>6, <2>9
      <4>3. QED  BY <2>1, <2>2, <2>5, <4>1, <4>2 DEF EndpointReady
    <3>7. EndpointsInv'
      <4> SUFFICES ASSUME NEW k \in DOMAIN given.endpoints
                   PROVE  EndpointSettled(k, EndpointDone(k)', InBackends' /\ k = e', cfg'.endpoints[k])
        BY <3>1, EndpointsPrimed
      <4>1. EndpointDone(k)' <=> EndpointDone(k)
        BY <1>1, <3>1, <3>4 DEF EndpointDone, AfterEndpoints
      <4>2. CASE k = e
        <5>1. ~(k < e)  BY <1>1, <4>2, EndpointDomains
        <5>2. ~EndpointDone(k)  BY <1>1, <5>1 DEF EndpointDone, AfterEndpoints
        <5>3. QED  BY <3>1, <3>4, <4>1, <4>2, <5>2 DEF EndpointSettled
      <4>3. CASE k # e
        <5>1. cfg'.endpoints[k] = cfg.endpoints[k]  BY <1>1, <2>4, <4>3, EndpointDomains
        <5>2. QED  BY <1>1, <4>1, <5>1 DEF EndpointsInv, EndpointSettled
      <4>4. QED  BY <4>2, <4>3
    <3>8. CurrentInv'
      <4>1. \A l \in DOMAIN p.backend : ep.backend[l] = NormalizeBackend(p.backend[l])
        BY <1>3, <2>2, NormalizedBackends
      <4>2. \A l \in DOMAIN p.backend : ~(l < b')  BY <1>3, <3>2
      <4>3. BackendsSettled(p, ep, b', FALSE)  BY <4>1, <4>2 DEF BackendsSettled
      <4>4. stage' # "url mappings"  BY <3>1
      <4>5. QED  BY <1>2, <2>4, <3>1, <3>6, <4>3, <4>4, CurrentPrimed
    <3>9. QED  BY <3>3, <3>5, <3>7, <3>8 DEF IInv
  <2>10. QED  BY <2>7, <2>8, <2>9
<1>9. QED  BY <1>7, <1>8

LEMMA EndpointsDoneStep == IInv /\ EndpointsDone => IInv'
<1> SUFFICES ASSUME IInv, EndpointsDone  PROVE IInv'  OBVIOUS
<1>1. /\ stage = "endpoints" /\ AfterAgents /\ AfterGlobals /\ EndpointsInv /\ ~InBackends
      /\ cfg \in ServiceConfig
  BY DEF EndpointsDone, IInv, AfterAgents, AfterGlobals, InBackends, TypeOK
<1>2. stage' = "service" /\ UNCHANGED <<given, cfg, e, b, err>>  BY DEF EndpointsDone, GoOn
<1>3. TypeOK' /\ (given \in ParseableServiceConfig)' /\ VerdictInv'
  <2>1. e' \in Nat \ {0} /\ b' \in Nat \ {0}  BY <1>1, <1>2, EndpointDomains
  <2>2. QED  BY <1>1, <1>2, <2>1, MovedTypes
<1>4. AfterAgents' /\ ~InBackends' /\ AfterEndpoints'
  BY <1>2 DEF AfterAgents, InBackends, AfterEndpoints
<1>5. ServiceInv' /\ AgentsInv'
  <2>1. SameService(cfg, cfg')  BY <1>2 DEF SameService
  <2>2. QED  BY <1>1, <1>2, <1>4, <2>1, Later
<1>6. EndpointsInv'
  <2> SUFFICES ASSUME NEW k \in DOMAIN given.endpoints
               PROVE  EndpointSettled(k, EndpointDone(k)', InBackends' /\ k = e', cfg'.endpoints[k])
    BY <1>2, EndpointsPrimed
  <2>1. k < e
    <3>1. e > Len(cfg.endpoints)  BY DEF EndpointsDone
    <3>2. QED  BY <1>1, <3>1, EndpointDomains
  <2>2. EndpointDone(k) /\ EndpointDone(k)'  BY <1>1, <1>4, <2>1 DEF EndpointDone
  <2>3. QED  BY <1>1, <1>2, <2>2 DEF EndpointsInv, EndpointSettled
<1>7. QED  BY <1>3, <1>4, <1>5, <1>6 DEF IInv, CurrentInv

-----------------------------------------------------------------------------
(* The backends of an endpoint. *)

LEMMA CurrentFacts ==
  ASSUME IInv, InBackends
  PROVE  LET p == given.endpoints[e]
         IN  /\ AfterAgents /\ AfterGlobals /\ EndpointsInv /\ stage # "refused"
             /\ given \in ParseableServiceConfig /\ cfg \in ServiceConfig
             /\ e \in DOMAIN given.endpoints /\ e \in DOMAIN cfg.endpoints
             /\ p \in ToSet(given.endpoints)
             /\ p \in ParseableEndpointConfig /\ p.backend \in Seq(ParseableBackend)
             /\ Endpoint \in EndpointConfig /\ Endpoint.backend \in Seq(Backend)
             /\ DOMAIN Endpoint.backend = DOMAIN p.backend /\ Len(Endpoint.backend) = Len(p.backend)
             /\ Len(p.backend) \in Nat /\ DOMAIN p.backend = 1..Len(p.backend)
             /\ EndpointReady(p, Endpoint)
             /\ BackendsSettled(p, Endpoint, b, stage = "url mappings")
<1> DEFINE p == given.endpoints[e]
<1>1. AfterAgents /\ AfterGlobals /\ EndpointsInv /\ CurrentInv /\ stage # "refused"
  BY DEF IInv, InBackends, AfterAgents, AfterGlobals
<1>2. given \in ParseableServiceConfig /\ cfg \in ServiceConfig /\ e \in DOMAIN given.endpoints
      /\ EndpointReady(p, Endpoint) /\ BackendsSettled(p, Endpoint, b, stage = "url mappings")
  BY <1>1 DEF IInv, TypeOK, CurrentInv, BackendsSettled
<1>3. e \in DOMAIN cfg.endpoints  BY <1>1, <1>2, EndpointDomains
<1>4. p \in ParseableEndpointConfig /\ p.backend \in Seq(ParseableBackend)  BY <1>2, GivenTypes
<1>5. Endpoint \in EndpointConfig /\ Endpoint.backend \in Seq(Backend)
  BY <1>2, <1>3, CfgTypes DEF Endpoint
<1>6. Len(Endpoint.backend) = Len(p.backend)  BY <1>2 DEF EndpointReady
<1>7. /\ DOMAIN Endpoint.backend = DOMAIN p.backend /\ Len(p.backend) \in Nat
      /\ DOMAIN p.backend = 1..Len(p.backend)
  BY <1>4, <1>5, <1>6
<1>8. p \in ToSet(given.endpoints)  BY <1>2 DEF ToSet
<1>9. QED  BY <1>1, <1>2, <1>3, <1>4, <1>5, <1>6, <1>7, <1>8

LEMMA WithBackendFacts ==
  ASSUME IInv, InBackends, b \in DOMAIN given.endpoints[e].backend, NEW be \in Backend,
         cfg' = WithBackend(be)
  PROVE  LET p == given.endpoints[e]
             x == cfg'.endpoints[e]
         IN  /\ cfg' \in ServiceConfig /\ SameService(cfg, cfg')
             /\ cfg'.asyncAgents = cfg.asyncAgents /\ Len(cfg'.endpoints) = Len(cfg.endpoints)
             /\ \A l \in DOMAIN cfg.endpoints : l # e => cfg'.endpoints[l] = cfg.endpoints[l]
             /\ x.outputEncoding = Endpoint.outputEncoding /\ x.timeout = Endpoint.timeout
             /\ x.routeParams = Endpoint.routeParams
             /\ x.backend[b] = be
             /\ \A l \in DOMAIN p.backend : l # b => x.backend[l] = Endpoint.backend[l]
             /\ EndpointReady(p, x)
<1> DEFINE p == given.endpoints[e]
           x == [Endpoint EXCEPT !.backend[b] = be]
<1>1. /\ Endpoint \in EndpointConfig /\ cfg \in ServiceConfig /\ e \in DOMAIN cfg.endpoints
      /\ DOMAIN Endpoint.backend = DOMAIN p.backend /\ EndpointReady(p, Endpoint)
  BY CurrentFacts
<1>2. /\ x \in EndpointConfig /\ x.outputEncoding = Endpoint.outputEncoding
      /\ x.timeout = Endpoint.timeout /\ x.routeParams = Endpoint.routeParams
      /\ Len(x.backend) = Len(Endpoint.backend) /\ x.backend[b] = be
      /\ \A l \in DOMAIN p.backend : l # b => x.backend[l] = Endpoint.backend[l]
  BY <1>1, BackendsUpdated
<1>3. cfg' = [cfg EXCEPT !.endpoints[e] = x]  BY DEF WithBackend, WithEndpoint
<1> HIDE DEF x
<1>4. /\ cfg' \in ServiceConfig /\ SameService(cfg, cfg') /\ cfg'.asyncAgents = cfg.asyncAgents
      /\ Len(cfg'.endpoints) = Len(cfg.endpoints) /\ cfg'.endpoints[e] = x
      /\ \A l \in DOMAIN cfg.endpoints : l # e => cfg'.endpoints[l] = cfg.endpoints[l]
  BY <1>1, <1>2, <1>3, EndpointsUpdated
<1>5. EndpointReady(p, x)  BY <1>1, <1>2 DEF EndpointReady
<1>6. QED  BY <1>2, <1>4, <1>5

LEMMA OthersKept ==
  ASSUME IInv, InBackends, InBackends', given' = given, e' = e,
         \A l \in DOMAIN cfg.endpoints : l # e => cfg'.endpoints[l] = cfg.endpoints[l]
  PROVE  EndpointsInv'
<1> SUFFICES ASSUME NEW k \in DOMAIN given.endpoints
             PROVE  EndpointSettled(k, EndpointDone(k)', InBackends' /\ k = e', cfg'.endpoints[k])
  BY EndpointsPrimed
<1>1. /\ AfterGlobals /\ EndpointsInv
      /\ e \in Nat /\ DOMAIN given.endpoints = DOMAIN cfg.endpoints
  BY CurrentFacts, EndpointDomains
<1>2. ~AfterEndpoints /\ ~AfterEndpoints'  BY DEF InBackends, AfterEndpoints
<1>3. (EndpointDone(k) <=> k < e) /\ (EndpointDone(k)' <=> k < e)
  BY <1>2 DEF EndpointDone
<1>4. CASE k = e
  <2>1. ~EndpointDone(k)'  BY <1>1, <1>3, <1>4
  <2>2. QED  BY <1>4, <2>1 DEF EndpointSettled
<1>5. CASE k # e
  <2>1. cfg'.endpoints[k] = cfg.endpoints[k]  BY <1>1, <1>5
  <2>2. QED  BY <1>1, <1>3, <1>5, <2>1 DEF EndpointsInv, EndpointSettled
<1>6. QED  BY <1>4, <1>5

LEMMA BackendDefaultsFacts ==
  ASSUME cfg \in ServiceConfig, NEW ep \in EndpointConfig, NEW be \in Backend
  PROVE  LET t == WithBackendDefaults(ep, be)
         IN  /\ t \in Backend /\ BackendReady(ep, t) /\ t.urlPattern = be.urlPattern
             /\ [be EXCEPT !.host = <<>>, !.parentEndpointMethod = ep.method] \in Backend
<1> DEFINE E == IF ep.outputEncoding = "no-op" THEN "no-op" ELSE be.encoding
           D == DecoderFor(E)
           H == EffectiveHosts(be)
           M == IF be.method = "" THEN ep.method ELSE be.method
           T == ep.timeout
           N == ep.concurrentCalls
           S == IF be.sdScheme = "" THEN "http" ELSE be.sdScheme
           P == ep.method
           t == [be EXCEPT !.encoding = E, !.decoder = D, !.host = H, !.method = M, !.timeout = T,
                           !.concurrentCalls = N, !.sdScheme = S, !.parentEndpointMethod = P]
<1>1. /\ ep.outputEncoding \in Encodings /\ ep.method \in Methods /\ ep.timeout \in Int
      /\ ep.concurrentCalls \in Int
  BY Zenon DEF EndpointConfig
<1>2. be.encoding \in Encodings /\ be.method \in Methods /\ be.sdScheme \in {"", "http"}
  BY Zenon DEF Backend
<1>3. E \in Encodings /\ D \in Encodings /\ (ep.outputEncoding = "no-op" => E = "no-op" /\ D = "no-op")
  BY <1>2 DEF DecoderFor, Encodings
<1>4. H \in Hosts /\ <<>> \in Hosts  BY EffectiveHostsType DEF Hosts
<1>5. M \in Methods /\ T \in Int /\ N \in Int /\ P \in Methods  BY <1>1, <1>2
<1>6. S \in {"", "http"}  BY <1>2
<1>7. WithBackendDefaults(ep, be) = t
  BY Zenon DEF WithBackendDefaults, EncodingAndDecoder, WithDecoder, WithEncoding, Backend
<1>8. [be EXCEPT !.host = <<>>, !.parentEndpointMethod = P] \in Backend
  BY <1>4, <1>5, Zenon DEF Backend
<1> HIDE DEF E, D, H, M, T, N, S, P
<1>9. t \in Backend  BY <1>3, <1>4, <1>5, <1>6, Zenon DEF Backend
<1>10. t.encoding = E /\ t.decoder = D /\ t.timeout = T /\ t.urlPattern = be.urlPattern
  BY Zenon DEF Backend
<1>11. BackendReady(ep, t)  BY <1>3, <1>10 DEF BackendReady, T
<1>12. QED  BY <1>7, <1>8, <1>9, <1>10, <1>11 DEF P

LEMMA InitBackendDefaultsStep == IInv /\ InitBackendDefaults => IInv'
<1> SUFFICES ASSUME IInv, InitBackendDefaults  PROVE IInv'  OBVIOUS
<1> DEFINE p == given.endpoints[e]
           be == WithBackendDefaults(Endpoint, TheBackend)
           x == cfg'.endpoints[e]
<1>1. stage = "backends" /\ InBackends  BY DEF InitBackendDefaults, InBackends
<1>2. /\ AfterAgents /\ cfg \in ServiceConfig /\ Endpoint \in EndpointConfig
      /\ Endpoint.backend \in Seq(Backend) /\ DOMAIN Endpoint.backend = DOMAIN p.backend
      /\ p.backend \in Seq(ParseableBackend) /\ EndpointReady(p, Endpoint)
      /\ BackendsSettled(p, Endpoint, b, FALSE) /\ p \in ToSet(given.endpoints)
      /\ e \in DOMAIN given.endpoints /\ stage # "refused"
  BY <1>1, CurrentFacts
<1>3. b \in DOMAIN p.backend
  <2>1. b <= Len(Endpoint.backend)  BY DEF InitBackendDefaults
  <2>2. b \in Nat \ {0}  BY DEF IInv, TypeOK
  <2>3. QED  BY <1>2, <2>1, <2>2
<1>4. TheBackend = NormalizeBackend(p.backend[b])
  <2>1. ~(b < b)
    <3>1. b \in Nat  BY DEF IInv, TypeOK
    <3>2. QED  BY <3>1
  <2>2. QED  BY <1>2, <1>3, <2>1 DEF BackendsSettled, TheBackend
<1>5. TheBackend \in Backend  BY <1>2, <1>3 DEF TheBackend
<1>6. /\ be \in Backend /\ BackendReady(Endpoint, be) /\ be.urlPattern = TheBackend.urlPattern
      /\ [TheBackend EXCEPT !.host = <<>>, !.parentEndpointMethod = Endpoint.method] \in Backend
  BY <1>2, <1>5, BackendDefaultsFacts
<1>7. /\ HostsAccepted(TheBackend) <=> BackendHostsValid(p.backend[b])
      /\ TheBackend.urlPattern = p.backend[b].urlPattern
  BY <1>2, <1>3, <1>4, NormalizedBackends DEF HostsAccepted, BackendHostsValid
<1> HIDE DEF be, x
<1>8. ASSUME ~HostsAccepted(TheBackend)  PROVE IInv'
  <2>1. /\ Refuse("host")
        /\ cfg' = WithBackend([TheBackend EXCEPT !.host = <<>>,
                                                 !.parentEndpointMethod = Endpoint.method])
    BY <1>8 DEF InitBackendDefaults
  <2>2. cfg' \in ServiceConfig  BY <1>1, <1>3, <1>6, <2>1, WithBackendFacts
  <2>3. p.backend[b] \in ToSet(p.backend)  BY <1>3 DEF ToSet
  <2>4. ~FileValid  BY <1>2, <1>7, <1>8, <2>3 DEF FileValid, EndpointValid
  <2>5. "host" \in Errors  BY DEF Errors
  <2>6. QED  BY <2>1, <2>2, <2>4, <2>5, Refused
<1>9. ASSUME HostsAccepted(TheBackend)  PROVE IInv'
  <2>1. /\ cfg' = WithBackend(be) /\ stage' = "url mappings"
        /\ given' = given /\ err' = err /\ e' = e /\ b' = b
    BY <1>9 DEF InitBackendDefaults, GoOn, be
  <2>2. InBackends' /\ AfterAgents'  BY <2>1 DEF InBackends, AfterAgents
  <2>3. /\ cfg' \in ServiceConfig /\ SameService(cfg, cfg')
        /\ cfg'.asyncAgents = cfg.asyncAgents /\ Len(cfg'.endpoints) = Len(cfg.endpoints)
        /\ \A l \in DOMAIN cfg.endpoints : l # e => cfg'.endpoints[l] = cfg.endpoints[l]
        /\ x.outputEncoding = Endpoint.outputEncoding /\ x.timeout = Endpoint.timeout
        /\ x.routeParams = Endpoint.routeParams /\ x.backend[b] = be
        /\ \A l \in DOMAIN p.backend : l # b => x.backend[l] = Endpoint.backend[l]
        /\ EndpointReady(p, x)
    BY <1>1, <1>3, <1>6, <2>1, WithBackendFacts DEF x
  <2>4. TypeOK' /\ (given \in ParseableServiceConfig)' /\ VerdictInv'
    <3>1. e' \in Nat \ {0} /\ b' \in Nat \ {0}  BY <2>1 DEF IInv, TypeOK
    <3>2. QED  BY <1>2, <2>1, <2>3, <3>1, MovedTypes
  <2>5. ServiceInv' /\ AgentsInv'  BY <1>2, <2>1, <2>2, <2>3, Later
  <2>6. EndpointsInv'  BY <1>1, <2>1, <2>2, <2>3, OthersKept
  <2>7. BackendsSettled(p, x, b, TRUE)
    <3> SUFFICES ASSUME NEW l \in DOMAIN p.backend
                 PROVE  IF l < b THEN BackendDone(p, x, l)
                        ELSE IF l = b
                        THEN /\ BackendHostsValid(p.backend[l]) /\ BackendReady(x, x.backend[l])
                             /\ x.backend[l].urlPattern = p.backend[l].urlPattern
                        ELSE x.backend[l] = NormalizeBackend(p.backend[l])
      BY DEF BackendsSettled
    <3>1. CASE l = b
      <4>1. ~(l < b)
        <5>1. b \in Nat  BY DEF IInv, TypeOK
        <5>2. QED  BY <3>1, <5>1
      <4>2. BackendHostsValid(p.backend[l]) /\ x.backend[l].urlPattern = p.backend[l].urlPattern
        BY <1>6, <1>7, <1>9, <2>3, <3>1
      <4>3. BackendReady(x, x.backend[l])  BY <1>6, <2>3, <3>1 DEF BackendReady
      <4>4. QED  BY <3>1, <4>1, <4>2, <4>3
    <3>2. CASE l # b
      <4>1. x.backend[l] = Endpoint.backend[l]  BY <2>3, <3>2
      <4>2. BackendDone(p, Endpoint, l) => BackendDone(p, x, l)
        BY <2>3, <4>1 DEF BackendDone, BackendReady, BackendMapped
      <4>3. QED  BY <1>2, <3>2, <4>1, <4>2 DEF BackendsSettled
    <3>3. QED  BY <3>1, <3>2
  <2>8. CurrentInv'  BY <1>2, <1>3, <2>1, <2>3, <2>7, CurrentPrimed DEF x
  <2>9. QED  BY <2>4, <2>5, <2>6, <2>8 DEF IInv
<1>10. QED  BY <1>8, <1>9

LEMMA BackendsDoneStep == IInv /\ BackendsDone => IInv'
<1> SUFFICES ASSUME IInv, BackendsDone  PROVE IInv'  OBVIOUS
<1> DEFINE p == given.endpoints[e]
<1>1. stage = "backends" /\ InBackends  BY DEF BackendsDone, InBackends
<1>2. /\ AfterAgents /\ cfg \in ServiceConfig /\ EndpointsInv
      /\ Len(Endpoint.backend) = Len(p.backend) /\ Len(p.backend) \in Nat
      /\ DOMAIN p.backend = 1..Len(p.backend) /\ EndpointReady(p, Endpoint)
      /\ BackendsSettled(p, Endpoint, b, FALSE) /\ stage # "refused" /\ AfterGlobals
  BY <1>1, CurrentFacts
<1>3. stage' = "endpoints" /\ UNCHANGED <<given, cfg, b, err>>  BY DEF BackendsDone, GoOn
<1>4. e' = e + 1 /\ e \in Nat \ {0} /\ b \in Nat \ {0}  BY DEF BackendsDone, IInv, TypeOK
<1>5. TypeOK' /\ (given \in ParseableServiceConfig)' /\ VerdictInv'
  <2>1. e' \in Nat \ {0} /\ b' \in Nat \ {0}  BY <1>3, <1>4
  <2>2. QED  BY <1>2, <1>3, <2>1, MovedTypes
<1>6. AfterAgents' /\ ~InBackends' /\ ~AfterEndpoints' /\ ~AfterEndpoints
  BY <1>1, <1>3 DEF AfterAgents, InBackends, AfterEndpoints
<1>7. ServiceInv' /\ AgentsInv'
  <2>1. SameService(cfg, cfg')  BY <1>3 DEF SameService
  <2>2. QED  BY <1>2, <1>3, <1>6, <2>1, Later
<1>8. EndpointsInv'
  <2> SUFFICES ASSUME NEW k \in DOMAIN given.endpoints
               PROVE  EndpointSettled(k, EndpointDone(k)', InBackends' /\ k = e', cfg'.endpoints[k])
    BY <1>3, EndpointsPrimed
  <2>1. k \in Nat  BY <1>2, EndpointDomains
  <2>2. EndpointDone(k) <=> k < e  BY <1>1, <1>6 DEF EndpointDone
  <2>3. EndpointDone(k)' <=> k < e + 1  BY <1>3, <1>4, <1>6 DEF EndpointDone
  <2>4. CASE k = e
    <3>1. EndpointDone(k)'  BY <1>4, <2>3, <2>4
    <3>2. \A l \in DOMAIN p.backend : l < b
      <4>1. b > Len(Endpoint.backend)  BY DEF BackendsDone
      <4>2. QED  BY <1>2, <1>4, <4>1
    <3>3. \A l \in DOMAIN p.backend : BackendDone(p, Endpoint, l)
      BY <1>2, <3>2 DEF BackendsSettled
    <3>4. QED  BY <1>2, <1>3, <2>4, <3>1, <3>3 DEF EndpointSettled, Endpoint
  <2>5. CASE k # e
    <3>1. EndpointDone(k)' <=> EndpointDone(k)  BY <1>4, <2>1, <2>2, <2>3, <2>5
    <3>2. QED  BY <1>2, <1>3, <2>5, <3>1 DEF EndpointsInv, EndpointSettled
  <2>6. QED  BY <2>4, <2>5
<1>9. QED  BY <1>5, <1>6, <1>7, <1>8 DEF IInv, CurrentInv

LEMMA SequenceFinite ==
  ASSUME NEW S, NEW s \in Seq(S)
  PROVE  IsFiniteSet(ToSet(s)) /\ ToSet(s) \subseteq S
<1> DEFINE n == Len(s)
<1>1. n \in Nat /\ s \in [1..n -> ToSet(s)] /\ \A v \in ToSet(s) : \E k \in 1..n : s[k] = v
  BY DEF ToSet
<1>2. ToSet(s) \subseteq S  BY DEF ToSet
<1> HIDE DEF n
<1>3. s \in Surjection(1..n, ToSet(s))  BY <1>1 DEF Surjection
<1>4. ExistsSurjection(1..n, ToSet(s))  BY <1>3 DEF ExistsSurjection
<1>5. QED  BY <1>1, <1>2, <1>4, FS_NatSurjection

\* uniqueOutput never counts more than there are: too many for the inputs
\* means that one of them is not an input.
LEMMA CountedOutputs ==
  ASSUME NEW output, NEW inputs, IsFiniteSet(output), IsFiniteSet(inputs),
         output \ SequentialNames \subseteq inputs
  PROVE  ~(OutputSetSize(output) > Cardinality(inputs))
<1> DEFINE C == {n \in output \ SequentialNames : \E m \in output : Position(n) < Position(m)}
<1>1. C \in SUBSET inputs  OBVIOUS
<1> HIDE DEF C
<1>2. IsFiniteSet(C) /\ Cardinality(C) <= Cardinality(inputs)  BY <1>1, FS_Subset
<1>3. Cardinality(C) \in Nat /\ Cardinality(inputs) \in Nat  BY <1>2, FS_CardinalityType
<1>4. ~(Cardinality(C) > Cardinality(inputs))  BY <1>2, <1>3
<1>5. QED  BY <1>4 DEF OutputSetSize, C

LEMMA MappedFacts ==
  ASSUME NEW be \in Backend, NEW names, names \subseteq ToSet(be.urlPattern),
         be.urlPattern \in Seq(Names)
  PROVE  LET t == Mapped(be, names)
         IN  /\ t \in Backend /\ t.timeout = be.timeout
             /\ t.encoding = be.encoding /\ t.decoder = be.decoder
             /\ names = ToSet(be.urlPattern) =>
                  /\ t.urlPattern = [j \in DOMAIN be.urlPattern |-> Key[be.urlPattern[j]]]
                  /\ t.urlKeys = ToSet(t.urlPattern)
<1> DEFINE s == be.urlPattern
           F(k) == IF s[k] \in names THEN Key[s[k]] ELSE s[k]
           P == [k \in DOMAIN s |-> F(k)]
           K == {Key[n] : n \in names}
           t == [be EXCEPT !.urlPattern = P, !.urlKeys = K]
           n == Len(s)
<1>1. n \in Nat /\ DOMAIN s = 1..n /\ \A k \in 1..n : s[k] \in Names  OBVIOUS
<1>2. names \subseteq Names  BY <1>1 DEF ToSet
<1>3. K \in SUBSET Keys  BY <1>2 DEF Keys
<1>4. P \in Seq(Names \cup Keys)
  <2>1. \A k \in 1..n : F(k) \in Names \cup Keys  BY <1>1 DEF Keys
  <2> HIDE DEF F, n, s
  <2>2. P \in [1..n -> Names \cup Keys]  BY <1>1, <2>1
  <2> HIDE DEF P
  <2>3. QED  BY <1>1, <2>2
<1>5. names = ToSet(s) => P = [j \in DOMAIN s |-> Key[s[j]]] /\ K = ToSet(P)
  <2> SUFFICES ASSUME names = ToSet(s)
               PROVE  P = [j \in DOMAIN s |-> Key[s[j]]] /\ K = ToSet(P)
    OBVIOUS
  <2>1. \A k \in DOMAIN s : s[k] \in names  BY DEF ToSet
  <2>2. \A k \in DOMAIN s : P[k] = Key[s[k]]  BY <2>1
  <2>3. DOMAIN P = DOMAIN s  OBVIOUS
  <2>4. P = [j \in DOMAIN s |-> Key[s[j]]]  BY <2>1
  <2> HIDE DEF P, s
  <2>5. QED  BY <2>2, <2>3, <2>4 DEF ToSet
<1>6. Mapped(be, names) = t  BY DEF Mapped
<1> HIDE DEF P, K
<1>7. /\ t \in Backend /\ t.timeout = be.timeout /\ t.encoding = be.encoding
      /\ t.decoder = be.decoder /\ t.urlKeys = K /\ t.urlPattern = P
  BY <1>3, <1>4, Zenon DEF Backend
<1> HIDE DEF t
<1>8. QED  BY <1>5, <1>6, <1>7 DEF K

LEMMA InitBackendURLMappingsStep == IInv /\ InitBackendURLMappings => IInv'
<1> SUFFICES ASSUME IInv, InitBackendURLMappings  PROVE IInv'  OBVIOUS
<1> DEFINE p == given.endpoints[e]
           inputs == Endpoint.routeParams
           output == UniqueOutput(TheBackend.urlPattern)
           wrong  == Undefined(output, inputs)
           good   == {n \in output : \A m \in wrong : Position(n) < Position(m)}
           x == cfg'.endpoints[e]
<1>1. stage = "url mappings" /\ InBackends  BY DEF InitBackendURLMappings, InBackends
<1>2. /\ AfterAgents /\ cfg \in ServiceConfig /\ given \in ParseableServiceConfig
      /\ Endpoint \in EndpointConfig
      /\ Endpoint.backend \in Seq(Backend) /\ DOMAIN Endpoint.backend = DOMAIN p.backend
      /\ p \in ParseableEndpointConfig
      /\ p.backend \in Seq(ParseableBackend) /\ EndpointReady(p, Endpoint)
      /\ BackendsSettled(p, Endpoint, b, TRUE) /\ p \in ToSet(given.endpoints)
      /\ e \in DOMAIN given.endpoints /\ stage # "refused" /\ AfterGlobals
  BY <1>1, CurrentFacts
<1>3. b \in DOMAIN p.backend /\ b \in Nat \ {0}  BY <1>1 DEF IInv, CurrentInv, TypeOK
<1>4. /\ BackendHostsValid(p.backend[b]) /\ BackendReady(Endpoint, TheBackend)
      /\ TheBackend.urlPattern = p.backend[b].urlPattern
  <2>1. ~(b < b)  BY <1>3
  <2>2. QED  BY <1>2, <1>3, <2>1 DEF BackendsSettled, TheBackend
<1>5. TheBackend \in Backend /\ p.backend[b] \in ToSet(p.backend)
  BY <1>2, <1>3 DEF TheBackend, ToSet
<1>6. TheBackend.urlPattern \in Seq(Names)
  <2>1. p.backend[b] \in ParseableBackend  BY <1>2, <1>3
  <2>2. p.backend[b].urlPattern \in Seq(Names)  BY <2>1, Zenon DEF ParseableBackend
  <2>3. QED  BY <1>4, <2>2
<1>7. output = ToSet(p.backend[b].urlPattern) /\ IsFiniteSet(output)
  BY <1>4, <1>6, SequenceFinite DEF UniqueOutput
<1>8. inputs = InputParams(given, p) /\ IsFiniteSet(inputs)
  <2>1. inputs = InputParams(given, p)  BY <1>2 DEF EndpointReady
  <2>2. p.placeholders \in Seq(Names)  BY <1>2, Zenon DEF ParseableEndpointConfig
  <2>3. IsFiniteSet(ToSet(p.placeholders))  BY <2>2, SequenceFinite
  <2>4. InputParams(given, p) \in SUBSET ToSet(p.placeholders)  BY DEF InputParams
  <2>5. QED  BY <2>1, <2>3, <2>4, FS_Subset
<1> HIDE DEF x, inputs, output
<1>9. ASSUME ~(output \subseteq inputs \cup SequentialNames)  PROVE ~FileValid
  <2>1. ~EndpointValid(p)  BY <1>5, <1>7, <1>8, <1>9 DEF EndpointValid
  <2>2. QED  BY <1>2, <2>1 DEF FileValid
<1>10. good \subseteq ToSet(TheBackend.urlPattern)  BY DEF UniqueOutput, output
<1>11. Mapped(TheBackend, good) \in Backend  BY <1>5, <1>6, <1>10, MappedFacts
<1>12. ASSUME OutputSetSize(output) > Cardinality(inputs)  PROVE IInv'
  <2>1. Refuse("wrong number of params") /\ cfg' = cfg
    BY <1>12 DEF InitBackendURLMappings, inputs, output
  <2>2. ~(output \ SequentialNames \subseteq inputs)  BY <1>7, <1>8, <1>12, CountedOutputs
  <2>3. ~FileValid  BY <1>9, <2>2
  <2>4. "wrong number of params" \in Errors  BY DEF Errors
  <2>5. QED  BY <1>2, <2>1, <2>3, <2>4, Refused
<1>13. ASSUME ~(OutputSetSize(output) > Cardinality(inputs)), wrong # {}  PROVE IInv'
  <2>1. cfg' = WithBackend(Mapped(TheBackend, good)) /\ Refuse("undefined param")
    BY <1>13 DEF InitBackendURLMappings, inputs, output
  <2>2. ~FileValid  BY <1>9, <1>13 DEF Undefined
  <2>3. cfg' \in ServiceConfig  BY <1>1, <1>3, <1>11, <2>1, WithBackendFacts
  <2>4. "undefined param" \in Errors  BY DEF Errors
  <2>5. QED  BY <2>1, <2>2, <2>3, <2>4, Refused
<1>14. ASSUME ~(OutputSetSize(output) > Cardinality(inputs)), wrong = {}  PROVE IInv'
  <2> DEFINE be == Mapped(TheBackend, good)
  <2>1. cfg' = WithBackend(be) /\ stage' = "backends" /\ given' = given /\ err' = err /\ e' = e
    BY <1>14 DEF InitBackendURLMappings, inputs, output, GoOn
  <2>2. b' = b + 1  BY <1>14 DEF InitBackendURLMappings, inputs, output
  <2>3. good = ToSet(TheBackend.urlPattern)  BY <1>14 DEF UniqueOutput, output
  <2>4. /\ be \in Backend /\ be.timeout = TheBackend.timeout /\ be.encoding = TheBackend.encoding
        /\ be.decoder = TheBackend.decoder
        /\ be.urlPattern = [j \in DOMAIN TheBackend.urlPattern |-> Key[TheBackend.urlPattern[j]]]
        /\ be.urlKeys = ToSet(be.urlPattern)
    <3>1. good = output  BY <1>14
    <3> HIDE DEF good
    <3>2. QED  BY <1>5, <1>6, <2>3, <3>1, MappedFacts
  <2> HIDE DEF be
  <2>5. output \subseteq InputParams(given, p) \cup SequentialNames
    BY <1>8, <1>14 DEF Undefined
  <2>6. InBackends' /\ AfterAgents'  BY <2>1 DEF InBackends, AfterAgents
  <2>7. /\ cfg' \in ServiceConfig /\ SameService(cfg, cfg')
        /\ cfg'.asyncAgents = cfg.asyncAgents /\ Len(cfg'.endpoints) = Len(cfg.endpoints)
        /\ \A l \in DOMAIN cfg.endpoints : l # e => cfg'.endpoints[l] = cfg.endpoints[l]
        /\ x.outputEncoding = Endpoint.outputEncoding /\ x.timeout = Endpoint.timeout
        /\ x.routeParams = Endpoint.routeParams /\ x.backend[b] = be
        /\ \A l \in DOMAIN p.backend : l # b => x.backend[l] = Endpoint.backend[l]
        /\ EndpointReady(p, x)
    BY <1>1, <1>3, <2>1, <2>4, WithBackendFacts DEF x
  <2>8. TypeOK' /\ (given \in ParseableServiceConfig)' /\ VerdictInv'
    <3>1. e \in Nat \ {0}  BY DEF IInv, TypeOK
    <3>2. e' \in Nat \ {0} /\ b' \in Nat \ {0}  BY <1>3, <2>1, <2>2, <3>1
    <3>3. QED  BY <1>2, <2>1, <2>7, <3>2, MovedTypes
  <2>9. ServiceInv' /\ AgentsInv'  BY <1>2, <2>1, <2>6, <2>7, Later
  <2>10. EndpointsInv'  BY <1>1, <2>1, <2>6, <2>7, OthersKept
  <2>11. BackendsSettled(p, x, b + 1, FALSE)
    <3> SUFFICES ASSUME NEW l \in DOMAIN p.backend
                 PROVE  IF l < b + 1 THEN BackendDone(p, x, l)
                        ELSE x.backend[l] = NormalizeBackend(p.backend[l])
      BY DEF BackendsSettled
    <3>1. l \in Nat  BY <1>2
    <3>2. CASE l = b
      <4>1. BackendValid(p, p.backend[l])  BY <1>4, <1>7, <2>5, <3>2 DEF BackendValid
      <4>2. BackendReady(x, be)  BY <1>4, <2>4, <2>7 DEF BackendReady
      <4>3. BackendMapped(x, p.backend[l].urlPattern, be)
        BY <1>4, <1>7, <1>8, <2>4, <2>5, <2>7, <3>2 DEF BackendMapped, inputs
      <4>4. l < b + 1  BY <1>3, <3>2
      <4>5. QED  BY <2>7, <3>2, <4>1, <4>2, <4>3, <4>4 DEF BackendDone
    <3>3. CASE l # b
      <4>1. x.backend[l] = Endpoint.backend[l]  BY <2>7, <3>3
      <4>2. BackendDone(p, Endpoint, l) => BackendDone(p, x, l)
        BY <2>7, <4>1 DEF BackendDone, BackendReady, BackendMapped
      <4>3. l < b + 1 <=> l < b  BY <1>3, <3>1, <3>3
      <4>4. QED  BY <1>2, <3>3, <4>1, <4>2, <4>3 DEF BackendsSettled
    <3>4. QED  BY <3>2, <3>3
  <2>12. CurrentInv'
    <3>1. stage' # "url mappings"  BY <2>1
    <3>2. e' \in DOMAIN given.endpoints /\ BackendsSettled(p, x, b', stage' = "url mappings")
      BY <1>2, <2>1, <2>2, <2>11, <3>1
    <3>3. QED  BY <2>1, <2>7, <3>1, <3>2, CurrentPrimed DEF x
  <2>13. QED  BY <2>8, <2>9, <2>10, <2>12 DEF IInv
<1>15. QED  BY <1>12, <1>13, <1>14

-----------------------------------------------------------------------------
(* The verdict. *)

\* A finished endpoint is a streaming one exactly when the file says no-op.
LEMMA FinishedStreaming ==
  ASSUME NEW p \in ParseableEndpointConfig, NEW ep, EndpointReady(p, ep),
         \A l \in DOMAIN p.backend : BackendDone(p, ep, l)
  PROVE  IsStreamingEndpoint(ep) <=> Streaming(p)
<1>1. ep.outputEncoding = OutputEncoding(p) /\ Len(ep.backend) = Len(p.backend)
  BY DEF EndpointReady
<1>2. ASSUME Streaming(p)  PROVE IsStreamingEndpoint(ep)
  <2>1. Len(p.backend) = 1  BY <1>2 DEF EndpointReady
  <2>2. p.backend \in Seq(ParseableBackend)  BY Zenon DEF ParseableEndpointConfig
  <2>3. 1 \in DOMAIN p.backend  BY <2>1, <2>2
  <2>4. ep.outputEncoding = "no-op"  BY <1>1, <1>2 DEF Streaming
  <2>5. ep.backend[1].encoding = "no-op"  BY <2>3, <2>4 DEF BackendDone, BackendReady
  <2>6. QED  BY <1>1, <2>1, <2>4, <2>5 DEF IsStreamingEndpoint
<1>3. IsStreamingEndpoint(ep) => Streaming(p)  BY <1>1 DEF IsStreamingEndpoint, Streaming
<1>4. QED  BY <1>2, <1>3

\* When all endpoints are finished.
LEMMA FinishedFacts ==
  ASSUME IInv, AfterEndpoints
  PROVE  /\ AfterGlobals /\ stage # "refused"
         /\ given \in ParseableServiceConfig /\ cfg \in ServiceConfig
         /\ DOMAIN cfg.endpoints = DOMAIN given.endpoints
         /\ \A k \in DOMAIN given.endpoints :
              LET p  == given.endpoints[k]
                  ep == cfg.endpoints[k]
              IN  /\ p \in ParseableEndpointConfig /\ p.backend \in Seq(ParseableBackend)
                  /\ ep.backend \in Seq(Backend) /\ DOMAIN ep.backend = DOMAIN p.backend
                  /\ EndpointReady(p, ep) /\ \A l \in DOMAIN p.backend : BackendDone(p, ep, l)
                  /\ IsStreamingEndpoint(ep) <=> Streaming(p)
<1>1. AfterGlobals /\ stage # "refused" /\ EndpointsInv
  BY DEF AfterEndpoints, AfterGlobals, AfterAgents, IInv
<1>2. /\ given \in ParseableServiceConfig /\ cfg \in ServiceConfig
      /\ DOMAIN cfg.endpoints = DOMAIN given.endpoints
  BY <1>1, EndpointDomains
<1>3. ASSUME NEW k \in DOMAIN given.endpoints
      PROVE  LET p  == given.endpoints[k]
                 ep == cfg.endpoints[k]
             IN  /\ p \in ParseableEndpointConfig /\ p.backend \in Seq(ParseableBackend)
                 /\ ep.backend \in Seq(Backend) /\ DOMAIN ep.backend = DOMAIN p.backend
                 /\ EndpointReady(p, ep) /\ \A l \in DOMAIN p.backend : BackendDone(p, ep, l)
                 /\ IsStreamingEndpoint(ep) <=> Streaming(p)
  <2> DEFINE p  == given.endpoints[k]
             ep == cfg.endpoints[k]
  <2>1. p \in ParseableEndpointConfig /\ p.backend \in Seq(ParseableBackend)  BY <1>2, GivenTypes
  <2>2. ep.backend \in Seq(Backend)  BY <1>2, CfgTypes
  <2>3. EndpointReady(p, ep) /\ \A l \in DOMAIN p.backend : BackendDone(p, ep, l)
    BY <1>1 DEF EndpointsInv, EndpointDone
  <2>4. Len(ep.backend) = Len(p.backend)  BY <2>3 DEF EndpointReady
  <2>5. DOMAIN ep.backend = DOMAIN p.backend  BY <2>1, <2>2, <2>4
  <2>6. IsStreamingEndpoint(ep) <=> Streaming(p)  BY <2>1, <2>3, FinishedStreaming
  <2>7. QED  BY <2>1, <2>2, <2>3, <2>5, <2>6
<1>4. QED  BY <1>1, <1>2, <1>3

LEMMA ValidateStreamingServiceStep == IInv /\ ValidateStreamingService => IInv'
<1> SUFFICES ASSUME IInv, ValidateStreamingService  PROVE IInv'  OBVIOUS
<1>1. stage = "service" /\ AfterEndpoints /\ AfterAgents /\ cfg' = cfg /\ ~InBackends
  BY DEF ValidateStreamingService, AfterEndpoints, AfterAgents, InBackends
<1>2. /\ AfterGlobals /\ cfg \in ServiceConfig /\ ServiceInv
      /\ DOMAIN cfg.endpoints = DOMAIN given.endpoints
      /\ \A k \in DOMAIN given.endpoints :
           IsStreamingEndpoint(cfg.endpoints[k]) <=> Streaming(given.endpoints[k])
  BY <1>1, FinishedFacts DEF IInv
<1>3. ASSUME ~StreamingServiceValid(cfg)  PROVE IInv'
  <2>1. Refuse("streaming service")  BY <1>3 DEF ValidateStreamingService
  <2>2. PICK k \in DOMAIN given.endpoints : Streaming(given.endpoints[k])
    BY <1>2, <1>3 DEF StreamingServiceValid, ServiceHasStreamingEndpoint
  <2>3. given.endpoints[k] \in ToSet(given.endpoints)  BY DEF ToSet
  <2>4. /\ cfg.writeTimeout = ParseDuration(given.writeTimeout)
        /\ cfg.responseHeaderTimeout = ParseDuration(given.responseHeaderTimeout)
    BY <1>2 DEF ServiceInv
  <2>5. ~FileValid  BY <1>3, <2>2, <2>3, <2>4 DEF StreamingServiceValid, FileValid
  <2>6. "streaming service" \in Errors  BY DEF Errors
  <2>7. QED  BY <1>1, <1>2, <2>1, <2>5, <2>6, Refused
<1>4. ASSUME StreamingServiceValid(cfg)  PROVE IInv'
  <2>1. stage' = "accepted" /\ UNCHANGED <<given, cfg, e, b, err>>
    BY <1>1, <1>4 DEF ValidateStreamingService, GoOn
  <2>2. TypeOK' /\ (given \in ParseableServiceConfig)'
    <3>1. e' \in Nat \ {0} /\ b' \in Nat \ {0}  BY <1>2, <2>1, EndpointDomains
    <3>2. QED  BY <1>1, <1>2, <2>1, <3>1, MovedTypes
  <2>3. AfterAgents' /\ AfterEndpoints' /\ ~InBackends'
    BY <2>1 DEF AfterAgents, AfterEndpoints, InBackends
  <2>4. ServiceInv' /\ AgentsInv'
    <3>1. SameService(cfg, cfg')  BY <2>1 DEF SameService
    <3>2. QED  BY <1>1, <2>1, <2>3, <3>1, Later
  <2>5. EndpointsInv'
    <3> SUFFICES ASSUME NEW k \in DOMAIN given.endpoints
                 PROVE  EndpointSettled(k, EndpointDone(k)', InBackends' /\ k = e', cfg'.endpoints[k])
      BY <2>1, EndpointsPrimed
    <3>1. EndpointDone(k) /\ EndpointDone(k)'  BY <1>1, <2>3 DEF EndpointDone
    <3>2. EndpointsInv  BY DEF IInv
    <3>3. QED  BY <1>2, <2>1, <3>1, <3>2 DEF EndpointsInv, EndpointSettled
  <2>6. VerdictInv'  BY <1>4, <2>1 DEF VerdictInv
  <2>7. QED  BY <2>2, <2>3, <2>4, <2>5, <2>6 DEF IInv, CurrentInv
<1>5. QED  BY <1>3, <1>4

LEMMA UnchangedStep == IInv /\ UNCHANGED vars => IInv'
<1> SUFFICES ASSUME IInv, UNCHANGED vars  PROVE IInv'  OBVIOUS
<1>1. given' = given /\ cfg' = cfg /\ stage' = stage /\ e' = e /\ b' = b /\ err' = err
  BY DEF vars
<1>2. TypeOK' /\ (given \in ParseableServiceConfig)'  BY <1>1 DEF IInv, TypeOK
<1>3. /\ InBackends' = InBackends /\ AfterAgents' = AfterAgents
      /\ AfterEndpoints' = AfterEndpoints /\ AfterGlobals' = AfterGlobals
  BY <1>1 DEF InBackends, AfterAgents, AfterEndpoints, AfterGlobals
<1>4. ServiceInv'  BY <1>1, <1>3 DEF IInv, ServiceInv
<1>5. \A k : AgentDone(k)' = AgentDone(k) /\ EndpointDone(k)' = EndpointDone(k)
  BY <1>1, <1>3 DEF AgentDone, EndpointDone
<1>6. AgentsInv'  BY <1>1, <1>3, <1>5 DEF IInv, AgentsInv, AgentReady
<1>7. EndpointsInv'
  <2> SUFFICES ASSUME AfterGlobals, NEW k \in DOMAIN given.endpoints
               PROVE  EndpointSettled(k, EndpointDone(k)', InBackends' /\ k = e', cfg'.endpoints[k])
    BY <1>1, <1>3, EndpointsPrimed DEF EndpointsInv
  <2>1. QED  BY <1>1, <1>3, <1>5 DEF IInv, EndpointsInv, EndpointSettled
<1>8. CurrentInv'
  <2>1. CASE ~InBackends  BY <1>3, <2>1 DEF CurrentInv
  <2>2. CASE InBackends
    <3>1. /\ e \in DOMAIN given.endpoints /\ EndpointReady(given.endpoints[e], Endpoint)
          /\ BackendsSettled(given.endpoints[e], Endpoint, b, stage = "url mappings")
      BY <2>2, CurrentFacts
    <3>2. stage = "url mappings" => b \in DOMAIN given.endpoints[e].backend
      BY <2>2 DEF IInv, CurrentInv
    <3>3. QED  BY <1>1, <3>1, <3>2, CurrentPrimed DEF Endpoint
  <2>3. QED  BY <2>1, <2>2
<1>9. VerdictInv'
  <2>1. FileValid' = FileValid
    BY <1>1 DEF FileValid, EndpointValid, Streaming, OutputEncoding, InputParams
  <2>2. QED  BY <1>1, <2>1 DEF IInv, VerdictInv
<1>10. QED  BY <1>2, <1>4, <1>6, <1>7, <1>8, <1>9 DEF IInv

LEMMA StepInv == IInv /\ [Next]_vars => IInv'
BY ReadFailsStep, ReadStep, CheckVersionStep, InitGlobalParamsStep, InitAsyncAgentStep,
   AsyncAgentsDoneStep, InitEndpointStep, EndpointsDoneStep, InitBackendDefaultsStep,
   InitBackendURLMappingsStep, BackendsDoneStep, ValidateStreamingServiceStep, UnchangedStep
   DEF Next, Done

LEMMA Invariance == Spec => []IInv
<1>1. QED  BY InitInv, StepInv, PTL DEF Spec

\* Types: for every file, each function leaves a ServiceConfig (structs of
\* config/config.go) for the next, also when it refuses half way.
THEOREM TypeCorrect == Spec => []TypeOK
<1>1. IInv => TypeOK  BY DEF IInv
<1>2. QED  BY <1>1, Invariance, PTL

\* ServiceConfig.Init decides in many steps, on values that earlier steps
\* completed; together they accept exactly the files that keep the rules.
THEOREM AcceptsExactlyAlways == Spec => []AcceptsExactly
<1>1. IInv => AcceptsExactly
  <2> SUFFICES ASSUME IInv  PROVE AcceptsExactly  OBVIOUS
  <2>1. stage = "refused" /\ err \notin {"unreadable", "syntax"} => ~FileValid
    BY DEF IInv, VerdictInv
  <2>2. ASSUME stage = "accepted"  PROVE FileValid
    <3>1. AfterEndpoints /\ AfterAgents  BY <2>2 DEF AfterEndpoints, AfterAgents
    <3>2. /\ AfterGlobals /\ ServiceInv /\ AgentsInv /\ StreamingServiceValid(cfg)
      BY <2>2, <3>1, FinishedFacts DEF IInv, VerdictInv
    <3>3. given.version = ConfigVersion /\ given.address # "host name" /\ HostsValid(given.host)
      BY <3>2 DEF ServiceInv
    <3>4. \A a \in ToSet(given.asyncAgents) : \A be \in ToSet(a.backend) : BackendHostsValid(be)
      BY <3>1, <3>2 DEF AgentsInv, AgentDone, ToSet
    <3>5. \A p \in ToSet(given.endpoints) : EndpointValid(p)
      <4> SUFFICES ASSUME NEW k \in DOMAIN given.endpoints
                   PROVE  EndpointValid(given.endpoints[k])
        BY DEF ToSet
      <4> DEFINE p  == given.endpoints[k]
                 ep == cfg.endpoints[k]
      <4>1. EndpointReady(p, ep) /\ \A l \in DOMAIN p.backend : BackendDone(p, ep, l)
        BY <3>1, FinishedFacts
      <4>2. \A l \in DOMAIN p.backend : BackendValid(p, p.backend[l])
        BY <4>1 DEF BackendDone
      <4>3. \A be \in ToSet(p.backend) : BackendValid(p, be)  BY <4>2 DEF ToSet
      <4>4. QED
        BY <4>1, <4>3 DEF EndpointValid, EndpointReady, BackendValid, Streaming
    <3>6. (\E p \in ToSet(given.endpoints) : Streaming(p)) => ServiceHasStreamingEndpoint(cfg)
      <4> SUFFICES ASSUME NEW k \in DOMAIN given.endpoints, Streaming(given.endpoints[k])
                   PROVE  ServiceHasStreamingEndpoint(cfg)
        BY DEF ToSet
      <4>1. k \in DOMAIN cfg.endpoints /\ IsStreamingEndpoint(cfg.endpoints[k])
        BY <3>1, FinishedFacts
      <4>2. QED  BY <4>1 DEF ServiceHasStreamingEndpoint
    <3>7. /\ cfg.writeTimeout = ParseDuration(given.writeTimeout)
          /\ cfg.responseHeaderTimeout = ParseDuration(given.responseHeaderTimeout)
      BY <3>2 DEF ServiceInv
    <3>8. QED  BY <3>2, <3>3, <3>4, <3>5, <3>6, <3>7 DEF FileValid, StreamingServiceValid
  <2>3. QED  BY <2>1, <2>2 DEF AcceptsExactly
<1>2. QED  BY <1>1, Invariance, PTL

\* No pipe of an accepted configuration has a timeout of zero, and a backend
\* always has that of its endpoint or agent (initBackendDefaults,
\* initAsyncAgents).
THEOREM EveryPipeTimedAlways == Spec => []EveryPipeTimed
<1>1. IInv => EveryPipeTimed
  <2> SUFFICES ASSUME IInv, stage = "accepted"  PROVE EveryPipeTimed  BY DEF EveryPipeTimed
  <2>1. AfterEndpoints /\ AfterAgents  BY DEF AfterEndpoints, AfterAgents
  <2>2. AfterGlobals /\ AgentsInv  BY <2>1 DEF AfterGlobals, IInv
  <2>3. \A k \in DOMAIN cfg.endpoints :
          /\ cfg.endpoints[k].timeout # 0
          /\ \A be \in ToSet(cfg.endpoints[k].backend) : be.timeout = cfg.endpoints[k].timeout
    <3> SUFFICES ASSUME NEW k \in DOMAIN cfg.endpoints
                 PROVE  /\ cfg.endpoints[k].timeout # 0
                        /\ \A l \in DOMAIN cfg.endpoints[k].backend :
                             cfg.endpoints[k].backend[l].timeout = cfg.endpoints[k].timeout
      BY DEF ToSet
    <3>1. QED  BY <2>1, FinishedFacts DEF EndpointReady, BackendDone, BackendReady
  <2>4. \A k \in DOMAIN cfg.asyncAgents : AgentReady(cfg.asyncAgents[k])
    <3>1. cfg.asyncAgents \in Seq(AsyncAgent) /\ given.asyncAgents \in Seq(ParseableAsyncAgent)
      BY CfgTypes, GivenTypes DEF IInv, TypeOK
    <3>2. Len(cfg.asyncAgents) = Len(given.asyncAgents)  BY <2>2 DEF IInv, ServiceInv
    <3>3. DOMAIN cfg.asyncAgents = DOMAIN given.asyncAgents  BY <3>1, <3>2
    <3>4. QED  BY <2>1, <2>2, <3>3 DEF AgentsInv, AgentDone
  <2>5. QED  BY <2>3, <2>4 DEF EveryPipeTimed, AgentReady, ToSet
<1>2. QED  BY <1>1, Invariance, PTL

\* What a no-op endpoint relays was not touched on its way: its one backend
\* has the no-op encoding and decoder, whatever the file says.
THEOREM NoOpUntouchedAlways == Spec => []NoOpUntouched
<1>1. IInv => NoOpUntouched
  <2> SUFFICES ASSUME IInv, stage = "accepted", NEW k \in DOMAIN cfg.endpoints,
                      cfg.endpoints[k].outputEncoding = "no-op"
               PROVE  /\ Len(cfg.endpoints[k].backend) = 1
                      /\ cfg.endpoints[k].backend[1].encoding = "no-op"
                      /\ cfg.endpoints[k].backend[1].decoder = "no-op"
    BY DEF NoOpUntouched, ToSet
  <2> DEFINE p == given.endpoints[k]
             ep == cfg.endpoints[k]
  <2>1. AfterEndpoints  BY DEF AfterEndpoints
  <2>2. /\ EndpointReady(p, ep) /\ \A l \in DOMAIN p.backend : BackendDone(p, ep, l)
        /\ p.backend \in Seq(ParseableBackend)
    BY <2>1, FinishedFacts
  <2>3. Len(p.backend) = 1 /\ Len(ep.backend) = 1  BY <2>2 DEF EndpointReady, Streaming
  <2>4. 1 \in DOMAIN p.backend  BY <2>2, <2>3
  <2>5. QED  BY <2>2, <2>3, <2>4 DEF BackendDone, BackendReady
<1>2. QED  BY <1>1, Invariance, PTL

\* In an accepted configuration every placeholder of a backend's URL is replaced
\* by its key, and is a parameter of the route or looks like a sequential one
\* (initBackendURLMappings).
THEOREM PatternsResolvedAlways == Spec => []PatternsResolved
<1>1. IInv => PatternsResolved
  <2> SUFFICES ASSUME IInv, stage = "accepted", NEW k \in DOMAIN cfg.endpoints,
                      NEW l \in DOMAIN cfg.endpoints[k].backend
               PROVE  BackendMapped(cfg.endpoints[k], given.endpoints[k].backend[l].urlPattern,
                                    cfg.endpoints[k].backend[l])
    BY DEF PatternsResolved, BackendMapped
  <2>1. AfterEndpoints  BY DEF AfterEndpoints
  <2>2. QED  BY <2>1, FinishedFacts DEF BackendDone
<1>2. QED  BY <1>1, Invariance, PTL

=============================================================================
