------------------------------ MODULE Gateway ------------------------------
(***************************************************************************)
(* The life of a gateway process: the router (router/gin/router.go or      *)
(* router/mux/router.go) registers the endpoints of the configuration in   *)
(* its engine and then hands the engine to the HTTP server                 *)
(* (transport/http/server/server.go:RunServer), which serves until         *)
(* something fails or the router's context ends, and then shuts down while *)
(* requests are still being answered.                                      *)
(*                                                                         *)
(* The engines and net/http are external.  They are modelled by what the   *)
(* code relies on: a gin engine panics when a route is registered twice,   *)
(* http.Server.Shutdown closes the listener, makes the serving call return *)
(* and waits for the requests in flight or for the end of its context.     *)
(***************************************************************************)
EXTENDS Integers, Sequences, FiniteSets

CONSTANTS Client,          \* connections of clients, one request at a time
          Path,            \* the paths an endpoint may have
          Configurations,  \* the configurations considered, out of ServiceConfig
          Nil

Health == "/__health"
Debug  == "/__debug"
Echo   == "/__echo"
Paths  == Path \cup {Health, Debug, Echo}

\* The methods endpoints may have, and one they may not.
Supported == {"GET", "POST"}
Unsupported == "TRACE"
Methods == Supported \cup {Unsupported, "OPTIONS"}

KeyPair == [public : BOOLEAN, private : BOOLEAN, loads : BOOLEAN]
EndpointConfig ==
  [path : Path, method : Supported \cup {Unsupported}, websocket : BOOLEAN,
   builds : BOOLEAN,         \* the proxy factory makes a proxy of it
   streaming : BOOLEAN]      \* its responses last until the client leaves
ServiceConfig ==
  [router : {"gin", "mux"}, endpoints : Seq(EndpointConfig), debug : BOOLEAN, echo : BOOLEAN,
   autoOptions : BOOLEAN, maxShutdownDuration : Nat,
   tls : {Nil} \cup [disabled : BOOLEAN, keys : Seq(KeyPair)]]

\* What may answer a request.
Handlers == [kind : {"builtin", "internal error", "not found", "method not allowed"}]
            \cup [kind : {"endpoint"}, of : Nat]
            \cup [kind : {"options"}, allow : SUBSET Methods]

ASSUME ConfigurationsAssumption == Configurations \subseteq ServiceConfig
ASSUME NilAssumption == Nil \notin Handlers
\* config.go:invalidPattern keeps the endpoints off these paths.
ASSUME PathAssumption == Path \cap {Health, Debug, Echo} = {}

VARIABLES cfg,       \* the configuration Run was called with
          at,        \* where Run is
          i,         \* the endpoint to register next
          routes,    \* the engine: what answers a method on a path, Nil if nothing
          catalog,   \* gin's urlCatalog: the methods registered on each path
          serving,   \* the goroutine that calls ListenAndServe
          ctx,       \* the context of the router: "live" or "ended"
          timer,     \* the context of Shutdown: "none", "running" or "expired"
          client,    \* what each client waits for
          result     \* what the server returned, Nil before it has

vars == <<cfg, at, i, routes, catalog, serving, ctx, timer, client, result>>

Init ==
  /\ cfg \in Configurations
  /\ at = "builtins" /\ i = 1
  /\ routes = [p \in Paths |-> [m \in Methods |-> Nil]]
  /\ catalog = [p \in Paths |-> {}]
  /\ serving = "no"
  /\ ctx = "live" /\ timer = "none"
  /\ client = [c \in Client |-> "idle"]
  /\ result = Nil

-----------------------------------------------------------------------------
\* The routes every gateway has, and those for debugging with every method.
RegisterBuiltins ==
  /\ at = "builtins"
  /\ routes' = [p \in Paths |-> [m \in Methods |->
                  IF \/ p = Health /\ m = "GET"
                     \/ p = Debug /\ cfg.debug
                     \/ p = Echo /\ cfg.echo
                  THEN [kind |-> "builtin"] ELSE Nil]]
  /\ at' = "register"
  /\ UNCHANGED <<cfg, i, catalog, serving, ctx, timer, client, result>>

\* The gin router serves a websocket endpoint as a GET and without a pipe.
IsWebSocket(e)  == cfg.router = "gin" /\ e.websocket
Method(e)       == IF IsWebSocket(e) THEN "GET" ELSE e.method
ProxyBuilds(e)  == IsWebSocket(e) \/ e.builds

\* Where no pipe can be built gin answers 500; the mux router goes on without
\* the endpoint.
HandlerUnchecked(e, n) == [kind |-> "endpoint", of |-> n]
Handler(e, n)   == IF ProxyBuilds(e) THEN [kind |-> "endpoint", of |-> n]
                   ELSE [kind |-> "internal error"]
Ignored(e)      == Method(e) \notin Supported \/ (cfg.router = "mux" /\ ~ProxyBuilds(e))
Clashes(e)      == cfg.router = "gin" /\ routes[e.path][Method(e)] # Nil
\* The catalog is gin's.
Listed(e, methods) == IF cfg.router = "gin" THEN methods \cup {Method(e)} ELSE methods

RegisterEndpoint ==
  /\ at = "register"
  /\ i <= Len(cfg.endpoints)
  /\ LET e == cfg.endpoints[i] IN
       \/ /\ Ignored(e)
          /\ i' = i + 1
          /\ UNCHANGED <<at, routes, catalog>>
       \/ /\ ~Ignored(e) /\ Clashes(e)
          /\ at' = "panicked"
          /\ UNCHANGED <<i, routes, catalog>>
       \/ /\ ~Ignored(e) /\ ~Clashes(e)
          /\ routes' = [routes EXCEPT ![e.path][Method(e)] = Handler(e, i)]
          /\ catalog' = [catalog EXCEPT ![e.path] = Listed(e, @)]
          /\ i' = i + 1
          /\ UNCHANGED at
  /\ UNCHANGED <<cfg, serving, ctx, timer, client, result>>

\* registerOptionEndpoints, of the gin router only.
RegisterOptionEndpoints ==
  /\ at = "register"
  /\ i > Len(cfg.endpoints)
  /\ routes' = IF cfg.router = "gin" /\ cfg.autoOptions
               THEN [p \in Paths |-> IF catalog[p] = {} THEN routes[p]
                       ELSE [routes[p] EXCEPT !["OPTIONS"] = [kind |-> "options", allow |-> catalog[p]]]]
               ELSE routes
  /\ at' = "serve"
  /\ UNCHANGED <<cfg, i, catalog, serving, ctx, timer, client, result>>

\* What the engine does with a request.
Dispatch(p, m) ==
  IF routes[p][m] # Nil THEN routes[p][m]
  ELSE IF \E n \in Methods : routes[p][n] # Nil THEN [kind |-> "method not allowed"]
  ELSE [kind |-> "not found"]

-----------------------------------------------------------------------------
\* The certificates, the pair of PublicKey and PrivateKey last among the keys:
\* the first pair that is not whole or cannot be loaded ends the server
\* before it listens.
PairError(k) ==
  IF ~k.public       THEN "ErrPublicKey"
  ELSE IF ~k.private THEN "ErrPrivateKey"
  ELSE IF ~k.loads   THEN "load error"
  ELSE Nil
TLSEnabled == cfg.tls # Nil /\ ~cfg.tls.disabled
TLSError ==
  LET keys == cfg.tls.keys
      bad  == {n \in DOMAIN keys : PairError(keys[n]) # Nil}
  IN  IF ~TLSEnabled         THEN Nil
      ELSE IF keys = <<>>    THEN "ErrPublicKey"
      ELSE IF bad = {}       THEN Nil
      ELSE PairError(keys[CHOOSE n \in bad : \A k \in bad : n <= k])

RunServer ==
  /\ at = "serve"
  /\ IF TLSError # Nil
     THEN at' = "ended" /\ result' = TLSError /\ UNCHANGED serving
     ELSE at' = "select" /\ serving' = "starting" /\ UNCHANGED result
  /\ UNCHANGED <<cfg, i, routes, catalog, ctx, timer, client>>

\* ListenAndServe in its goroutine: it serves, it fails, or it finds the
\* server shut down; then it waits for someone to read its error.
ShutDown == at = "shutdown" \/ result \in {"nil", "deadline exceeded"}

Listen ==
  /\ serving = "starting" /\ ~ShutDown
  /\ serving' = "listening"
  /\ UNCHANGED <<cfg, at, i, routes, catalog, ctx, timer, client, result>>

ServeFails ==
  /\ serving \in {"starting", "listening"}
  /\ serving' = "reporting"
  /\ UNCHANGED <<cfg, at, i, routes, catalog, ctx, timer, client, result>>

\* The two cases of RunServer's select.
Done ==
  /\ at = "select" /\ serving = "reporting"
  /\ serving' = "gone"
  /\ at' = "ended" /\ result' = "serve error"
  /\ UNCHANGED <<cfg, i, routes, catalog, ctx, timer, client>>

\* Without a MaxShutdownDuration the shutdown has no end of its own.
ShutdownTimerAlways == "running"
ShutdownTimerNever  == "none"
ShutdownTimer == IF cfg.maxShutdownDuration <= 0 THEN "none" ELSE "running"

ContextDone ==
  /\ at = "select" /\ ctx = "ended"
  /\ at' = "shutdown"
  /\ timer' = ShutdownTimer
  /\ serving' = IF serving = "listening" THEN "reporting" ELSE serving
  /\ UNCHANGED <<cfg, i, routes, catalog, ctx, client, result>>

InFlight == {c \in Client : client[c] # "idle"}

ShutdownReturns ==
  /\ at = "shutdown"
  /\ \/ InFlight = {} /\ result' = "nil"
     \/ timer = "expired" /\ result' = "deadline exceeded"
  /\ at' = "ended"
  /\ UNCHANGED <<cfg, i, routes, catalog, serving, ctx, timer, client>>

-----------------------------------------------------------------------------
\* The world around: the context of the router and the timer of Shutdown end,
\* clients ask and get their answers.
ContextEnds ==
  /\ ctx = "live"
  /\ ctx' = "ended"
  /\ UNCHANGED <<cfg, at, i, routes, catalog, serving, timer, client, result>>

TimerExpires ==
  /\ timer = "running"
  /\ timer' = "expired"
  /\ UNCHANGED <<cfg, at, i, routes, catalog, serving, ctx, client, result>>

Streams(h) == h.kind = "endpoint" /\ cfg.endpoints[h.of].streaming

Request(c) ==
  /\ serving = "listening" /\ client[c] = "idle"
  /\ \E p \in Paths, m \in Methods :
       client' = [client EXCEPT ![c] = IF Streams(Dispatch(p, m)) THEN "stream" ELSE "answer"]
  /\ UNCHANGED <<cfg, at, i, routes, catalog, serving, ctx, timer, result>>

Answered(c) ==
  /\ client[c] = "answer"
  /\ client' = [client EXCEPT ![c] = "idle"]
  /\ UNCHANGED <<cfg, at, i, routes, catalog, serving, ctx, timer, result>>

Leaves(c) ==
  /\ client[c] = "stream"
  /\ client' = [client EXCEPT ![c] = "idle"]
  /\ UNCHANGED <<cfg, at, i, routes, catalog, serving, ctx, timer, result>>

Next ==
  \/ RegisterBuiltins \/ RegisterEndpoint \/ RegisterOptionEndpoints
  \/ RunServer \/ Listen \/ ServeFails \/ Done \/ ContextDone \/ ShutdownReturns
  \/ ContextEnds \/ TimerExpires
  \/ \E c \in Client : Request(c) \/ Answered(c) \/ Leaves(c)

\* Run goes on as long as it can, a timer expires, and a request that is not a
\* stream is answered (every pipe has a timeout).  A client need not leave.
Fairness ==
  /\ WF_vars(RegisterBuiltins \/ RegisterEndpoint \/ RegisterOptionEndpoints
             \/ RunServer \/ ContextDone \/ ShutdownReturns)
  /\ WF_vars(TimerExpires)
  /\ \A c \in Client : WF_vars(Answered(c))

Spec == Init /\ [][Next]_vars /\ Fairness

-----------------------------------------------------------------------------
(***************************************************************************)
(* What the configuration says of a method on a path, whatever the order   *)
(* of the registrations.                                                   *)
(***************************************************************************)
Claims(p, m) == {n \in DOMAIN cfg.endpoints :
                   LET e == cfg.endpoints[n]
                   IN  e.path = p /\ Method(e) = m /\ ~Ignored(e)}
Answerable(p) == {m \in Supported : Claims(p, m) # {}}

Configured(p, m) ==
  IF (p = Health /\ m = "GET") \/ (p = Debug /\ cfg.debug) \/ (p = Echo /\ cfg.echo)
  THEN [kind |-> "builtin"]
  ELSE IF Claims(p, m) # {}
  THEN LET n == CHOOSE n \in Claims(p, m) : \A k \in Claims(p, m) : k <= n
       IN  IF ProxyBuilds(cfg.endpoints[n]) THEN [kind |-> "endpoint", of |-> n]
           ELSE [kind |-> "internal error"]
  ELSE IF m = "OPTIONS" /\ cfg.router = "gin" /\ cfg.autoOptions /\ Answerable(p) # {}
  THEN [kind |-> "options", allow |-> Answerable(p)]
  ELSE IF p = Health \/ Answerable(p) # {} THEN [kind |-> "method not allowed"]
  ELSE [kind |-> "not found"]

(***************************************************************************)
(* Once the server runs every method on every path is answered as the      *)
(* configuration says: by the endpoint that has it (the gin router does    *)
(* not come up where two have), by the later of two in the mux router, and *)
(* an OPTIONS answer allows exactly the methods that are answered.         *)
(***************************************************************************)
RoutedAsConfigured ==
  at \in {"serve", "select", "shutdown", "ended"} =>
    /\ \A p \in Paths, m \in Methods : Dispatch(p, m) = Configured(p, m)
    /\ cfg.router = "gin" => \A p \in Paths, m \in Methods : Cardinality(Claims(p, m)) <= 1

(***************************************************************************)
(* RunServer leaves no request behind on its own account: it returns with  *)
(* requests in flight only when serving failed, or when a shutdown had a   *)
(* MaxShutdownDuration and it has passed, which its error then says.       *)
(***************************************************************************)
CutsNoRequestShort ==
  [][at # "ended" /\ at' = "ended" /\ InFlight # {} =>
       \/ at = "select" /\ serving = "reporting"
       \/ cfg.maxShutdownDuration > 0 /\ result' = "deadline exceeded"]_vars

(***************************************************************************)
(* When its context ends Run returns, whatever the serving goroutine is    *)
(* doing (its error may never be read), unless it has no                   *)
(* MaxShutdownDuration and a client keeps a stream open.                   *)
(***************************************************************************)
Stops ==
  (ctx = "ended") ~> \/ at \in {"ended", "panicked"}
                     \/ /\ cfg.maxShutdownDuration = 0
                        /\ \E c \in Client : client[c] = "stream"
=============================================================================
