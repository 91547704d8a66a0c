--------------------------- MODULE GatewayProofs ---------------------------
(***************************************************************************)
(* Proofs about Gateway, for every set of clients and paths and every      *)
(* configuration: what the shutdown leaves behind, and what the engine     *)
(* answers once the endpoints are registered.                              *)
(***************************************************************************)
EXTENDS Gateway, FiniteSetTheorems, TLAPS

\* The timer of a shutdown runs only where a duration is configured, and no
\* client is served before the server is started.
Before == {"builtins", "register", "serve"}
ShutdownInv ==
  /\ cfg \in ServiceConfig
  /\ timer # "none" => cfg.maxShutdownDuration > 0
  /\ at \in Before => serving = "no"
  /\ at \in Before => InFlight = {}

LEMMA ShutdownInvInit == Init => ShutdownInv
  BY ConfigurationsAssumption DEF Init, ShutdownInv, Before, InFlight

LEMMA ShutdownInvNext == ShutdownInv /\ [Next]_vars => ShutdownInv'
<1> SUFFICES ASSUME ShutdownInv, [Next]_vars PROVE ShutdownInv'
  OBVIOUS
<1> USE DEF ShutdownInv, Before
<1>1. CASE RegisterBuiltins
  BY <1>1 DEF RegisterBuiltins, InFlight
<1>2. CASE RegisterEndpoint
  BY <1>2 DEF RegisterEndpoint, InFlight
<1>3. CASE RegisterOptionEndpoints
  BY <1>3 DEF RegisterOptionEndpoints, InFlight
<1>4. CASE RunServer
  BY <1>4 DEF RunServer, InFlight
<1>5. CASE Listen
  BY <1>5 DEF Listen, InFlight
<1>6. CASE ServeFails
  BY <1>6 DEF ServeFails, InFlight
<1>7. CASE Done
  BY <1>7 DEF Done, InFlight
<1>8. CASE ContextDone
  <2>1. cfg.maxShutdownDuration \in Nat
    BY DEF ServiceConfig
  <2>2. timer' # "none" => cfg'.maxShutdownDuration > 0
    BY <1>8, <2>1 DEF ContextDone, ShutdownTimer
  <2>3. at' \notin Before
    BY <1>8 DEF ContextDone
  <2> QED
    BY <1>8, <2>2, <2>3 DEF ContextDone
<1>9. CASE ShutdownReturns
  BY <1>9 DEF ShutdownReturns, InFlight
<1>10. CASE ContextEnds
  BY <1>10 DEF ContextEnds, InFlight
<1>11. CASE TimerExpires
  BY <1>11 DEF TimerExpires, InFlight
<1>12. ASSUME NEW c \in Client, Request(c) \/ Answered(c) \/ Leaves(c) PROVE ShutdownInv'
  <2>1. CASE Request(c)
    BY <2>1 DEF Request, InFlight
  <2>2. CASE Answered(c)
    BY <2>2 DEF Answered, InFlight
  <2>3. CASE Leaves(c)
    BY <2>3 DEF Leaves, InFlight
  <2> QED
    BY <1>12, <2>1, <2>2, <2>3
<1>13. CASE UNCHANGED vars
  BY <1>13 DEF vars, InFlight
<1> QED
  BY <1>1, <1>2, <1>3, <1>4, <1>5, <1>6, <1>7, <1>8, <1>9, <1>10, <1>11, <1>12, <1>13 DEF Next

THEOREM ShutdownInvariant == Spec => []ShutdownInv
  BY ShutdownInvInit, ShutdownInvNext, PTL DEF Spec

\* What a step may do when RunServer returns in it.
LeavesNobody ==
  at # "ended" /\ at' = "ended" /\ InFlight # {} =>
    \/ at = "select" /\ serving = "reporting"
    \/ cfg.maxShutdownDuration > 0 /\ result' = "deadline exceeded"

LEMMA StepLeavesNobody == ShutdownInv /\ [Next]_vars => LeavesNobody
<1> SUFFICES ASSUME ShutdownInv, [Next]_vars, at # "ended", at' = "ended", InFlight # {}
             PROVE  \/ at = "select" /\ serving = "reporting"
                    \/ cfg.maxShutdownDuration > 0 /\ result' = "deadline exceeded"
  BY DEF LeavesNobody
<1>1. CASE RunServer
  BY <1>1 DEF RunServer, ShutdownInv, Before
<1>2. CASE Done
  BY <1>2 DEF Done
<1>3. CASE ShutdownReturns
  BY <1>3 DEF ShutdownReturns, ShutdownInv
<1>4. CASE RegisterBuiltins \/ RegisterEndpoint \/ RegisterOptionEndpoints
  BY <1>4 DEF RegisterBuiltins, RegisterEndpoint, RegisterOptionEndpoints
<1>5. CASE Listen \/ ServeFails \/ ContextDone \/ ContextEnds \/ TimerExpires
  BY <1>5 DEF Listen, ServeFails, ContextDone, ContextEnds, TimerExpires
<1>6. CASE \E c \in Client : Request(c) \/ Answered(c) \/ Leaves(c)
  BY <1>6 DEF Request, Answered, Leaves
<1>7. CASE UNCHANGED vars
  BY <1>7 DEF vars
<1> QED
  BY <1>1, <1>2, <1>3, <1>4, <1>5, <1>6, <1>7 DEF Next

(***************************************************************************)
(* RunServer leaves requests in flight behind only when serving failed or  *)
(* a configured MaxShutdownDuration has passed (server.go:149-158).        *)
(***************************************************************************)
THEOREM CutsNoRequestShortAlways == Spec => CutsNoRequestShort
<1>1. ShutdownInv /\ [Next]_vars => [LeavesNobody]_vars
  BY StepLeavesNobody
<1>2. Spec => [][LeavesNobody]_vars
  BY <1>1, ShutdownInvariant, PTL DEF Spec
<1> QED
  BY <1>2 DEF CutsNoRequestShort, LeavesNobody

-----------------------------------------------------------------------------
\* What the registration has done when it stands before endpoint i: the routes
\* are those of the endpoints below i, the catalog lists their methods.
Builtin(p, m) ==
  (p = Health /\ m = "GET") \/ (p = Debug /\ cfg.debug) \/ (p = Echo /\ cfg.echo)
Upto(p, m)    == {n \in Claims(p, m) : n < i}
Last(n, S)    == n \in S /\ \A k \in S : k <= n

RouteRegistered(p, m) ==
  /\ Builtin(p, m)  => routes[p][m] = [kind |-> "builtin"]
  /\ ~Builtin(p, m) =>
       \/ Upto(p, m) = {} /\ routes[p][m] = Nil
       \/ \E n \in Upto(p, m) : /\ Last(n, Upto(p, m))
                                /\ routes[p][m] = Handler(cfg.endpoints[n], n)
  /\ cfg.router = "gin" => \A k, n \in Upto(p, m) : k = n

Registered ==
  /\ i \in Nat \ {0}
  /\ routes \in [Paths -> [Methods -> Handlers \cup {Nil}]]
  /\ catalog = [p \in Paths |-> IF cfg.router = "gin"
                                THEN {m \in Supported : Upto(p, m) # {}} ELSE {}]
  /\ \A p \in Paths, m \in Methods : RouteRegistered(p, m)

Routed ==
  /\ \A p \in Paths, m \in Methods : Dispatch(p, m) = Configured(p, m)
  /\ cfg.router = "gin" => \A p \in Paths, m \in Methods : Cardinality(Claims(p, m)) <= 1

After == {"serve", "select", "shutdown", "ended"}
RoutesInv ==
  /\ cfg \in ServiceConfig
  /\ at \in {"builtins", "register", "panicked"} \cup After
  /\ at = "builtins" => i = 1 /\ catalog = [p \in Paths |-> {}]
  /\ at = "register" => Registered
  /\ at \in After => Routed

LEMMA ConfigFields ==
  ASSUME cfg \in ServiceConfig
  PROVE  /\ cfg.endpoints \in Seq(EndpointConfig)
         /\ cfg.router \in {"gin", "mux"}
  BY DEF ServiceConfig

\* An endpoint claims a supported method on a path that no builtin has.
LEMMA ClaimFacts ==
  ASSUME cfg \in ServiceConfig, NEW p, NEW m, NEW n \in Claims(p, m)
  PROVE  /\ n \in 1..Len(cfg.endpoints)
         /\ cfg.endpoints[n] \in EndpointConfig
         /\ cfg.endpoints[n].path = p /\ Method(cfg.endpoints[n]) = m
         /\ ~Ignored(cfg.endpoints[n])
         /\ p \in Path /\ m \in Supported
<1>1. n \in DOMAIN cfg.endpoints /\ cfg.endpoints \in Seq(EndpointConfig)
  BY ConfigFields DEF Claims
<1>2. n \in 1..Len(cfg.endpoints) /\ cfg.endpoints[n] \in EndpointConfig
  BY <1>1
<1>3. cfg.endpoints[n].path = p /\ Method(cfg.endpoints[n]) = m /\ ~Ignored(cfg.endpoints[n])
  BY DEF Claims
<1> QED
  BY <1>2, <1>3 DEF EndpointConfig, Ignored

LEMMA HandlerFacts ==
  ASSUME NEW e, NEW n \in Nat
  PROVE  Handler(e, n) \in Handlers /\ Handler(e, n) # Nil
<1>1. [kind |-> "endpoint", of |-> n] \in Handlers
  BY DEF Handlers
<1>2. [kind |-> "internal error"] \in Handlers
  BY DEF Handlers
<1>3. Handler(e, n) \in Handlers
  BY <1>1, <1>2 DEF Handler
<1> QED
  BY <1>3, NilAssumption

\* The last of a set of numbers is the one that Configured chooses.
LEMMA ChosenLast ==
  ASSUME NEW S \in SUBSET Nat, NEW n, Last(n, S)
  PROVE  (CHOOSE x \in S : \A k \in S : k <= x) = n
<1>1. n \in S /\ \A k \in S : k <= n
  BY DEF Last
<1>2. ASSUME NEW x \in S, \A k \in S : k <= x PROVE x = n
  BY <1>1, <1>2
<1> QED
  BY <1>1, <1>2

LEMMA AtMostOne ==
  ASSUME NEW S, \A k, n \in S : k = n
  PROVE  Cardinality(S) <= 1
<1>1. CASE S = {}
  BY <1>1, FS_EmptySet
<1>2. CASE S # {}
  <2>1. PICK x \in S : TRUE
    BY <1>2
  <2>2. S = {x}
    BY <2>1
  <2> QED
    BY <2>2, FS_Singleton
<1> QED
  BY <1>1, <1>2

-----------------------------------------------------------------------------
LEMMA RoutesInvInit == Init => RoutesInv
  BY ConfigurationsAssumption DEF Init, RoutesInv, After

\* Before the first endpoint only the builtins are there.
LEMMA BuiltinsRegistered == RoutesInv /\ RegisterBuiltins => Registered'
<1> SUFFICES ASSUME RoutesInv, RegisterBuiltins PROVE Registered'
  OBVIOUS
<1>1. cfg \in ServiceConfig /\ i = 1 /\ catalog = [p \in Paths |-> {}]
  BY DEF RoutesInv, RegisterBuiltins
<1>2. i' = i /\ cfg' = cfg /\ catalog' = catalog
  BY DEF RegisterBuiltins
<1>3. \A p, m : Claims(p, m)' = Claims(p, m)
  BY <1>2 DEF Claims, Method, IsWebSocket, Ignored, ProxyBuilds
<1>4. \A p, m : Upto(p, m)' = {}
  <2> SUFFICES ASSUME NEW p, NEW m, NEW n \in Claims(p, m) PROVE ~(n < 1)
    BY <1>1, <1>2, <1>3 DEF Upto
  <2> QED
    BY <1>1, ClaimFacts, ConfigFields
<1>5. [kind |-> "builtin"] \in Handlers
  BY DEF Handlers
<1>6. routes' \in [Paths -> [Methods -> Handlers \cup {Nil}]]
  BY <1>5 DEF RegisterBuiltins
<1>7. \A p \in Paths, m \in Methods : RouteRegistered(p, m)'
  BY <1>2, <1>4 DEF RegisterBuiltins, RouteRegistered, Builtin
<1>8. catalog' = [p \in Paths |-> IF cfg'.router = "gin"
                                 THEN {m \in Supported : Upto(p, m)' # {}} ELSE {}]
  BY <1>1, <1>2, <1>4
<1> QED
  BY <1>1, <1>2, <1>6, <1>7, <1>8 DEF Registered

\* One more endpoint.
LEMMA EndpointRegistered ==
  RoutesInv /\ at = "register" /\ RegisterEndpoint /\ at' = "register" => Registered'
<1> SUFFICES ASSUME RoutesInv, at = "register", RegisterEndpoint, at' = "register"
             PROVE  Registered'
  OBVIOUS
<1> DEFINE e == cfg.endpoints[i]
<1>1. cfg \in ServiceConfig /\ Registered
  BY DEF RoutesInv
<1>2. cfg' = cfg /\ i' = i + 1 /\ i \in Nat \ {0} /\ i <= Len(cfg.endpoints)
  BY <1>1 DEF RegisterEndpoint, Registered
<1>3. \A p, m : Claims(p, m)' = Claims(p, m)
  BY <1>2 DEF Claims, Method, IsWebSocket, Ignored, ProxyBuilds
<1>4. \A p, m : Claims(p, m) \subseteq 1..Len(cfg.endpoints) /\ Len(cfg.endpoints) \in Nat
  BY <1>1, ClaimFacts, ConfigFields
<1>5. \A p, m : Upto(p, m)' = Upto(p, m) \cup (Claims(p, m) \cap {i})
  BY <1>2, <1>3, <1>4 DEF Upto
<1>6. CASE Ignored(e)
  <2>1. UNCHANGED <<routes, catalog>>
    BY <1>6 DEF RegisterEndpoint
  <2>2. \A p, m : i \notin Claims(p, m)
    BY <1>6 DEF Claims
  <2>3. \A p, m : Upto(p, m)' = Upto(p, m)
    BY <1>5, <2>2
  <2>4. \A p \in Paths, m \in Methods : RouteRegistered(p, m)'
    <3>1. \A p, m : Builtin(p, m)' = Builtin(p, m)
      BY <1>2 DEF Builtin
    <3>2. \A n : Handler(cfg.endpoints[n], n)' = Handler(cfg.endpoints[n], n)
      BY <1>2 DEF Handler, ProxyBuilds, IsWebSocket
    <3>3. \A p \in Paths, m \in Methods : RouteRegistered(p, m)
      BY <1>1 DEF Registered
    <3>4. routes' = routes
      BY <2>1
    <3> SUFFICES ASSUME NEW p \in Paths, NEW m \in Methods PROVE RouteRegistered(p, m)'
      OBVIOUS
    <3>5. Upto(p, m)' = Upto(p, m) /\ cfg'.router = cfg.router
      BY <1>2, <2>3
    <3>6. Builtin(p, m)' => routes'[p][m] = [kind |-> "builtin"]
      BY <3>1, <3>3, <3>4 DEF RouteRegistered
    <3>7. ASSUME ~Builtin(p, m)'
          PROVE  \/ Upto(p, m)' = {} /\ routes'[p][m] = Nil
                 \/ \E n \in Upto(p, m)' : /\ Last(n, Upto(p, m))'
                                           /\ routes'[p][m] = Handler(cfg.endpoints[n], n)'
      BY <3>1, <3>2, <3>3, <3>4, <3>5, <3>7 DEF RouteRegistered, Last
    <3>8. cfg'.router = "gin" => \A k, n \in Upto(p, m)' : k = n
      BY <3>3, <3>5 DEF RouteRegistered
    <3> QED
      BY <3>6, <3>7, <3>8 DEF RouteRegistered
  <2>5. i' \in Nat \ {0} /\ routes' \in [Paths -> [Methods -> Handlers \cup {Nil}]]
    BY <1>1, <1>2, <2>1 DEF Registered
  <2>6. catalog' = [p \in Paths |-> IF cfg'.router = "gin"
                                   THEN {m \in Supported : Upto(p, m)' # {}} ELSE {}]
    <3>1. catalog = [p \in Paths |-> IF cfg.router = "gin"
                                    THEN {m \in Supported : Upto(p, m) # {}} ELSE {}]
      BY <1>1 DEF Registered
    <3> QED
      BY <1>2, <2>1, <2>3, <3>1
  <2> QED
    BY <2>4, <2>5, <2>6 DEF Registered
<1>7. CASE ~Ignored(e)
  <2>1. ~Clashes(e)
    BY <1>7 DEF RegisterEndpoint
  <2>2. /\ routes' = [routes EXCEPT ![e.path][Method(e)] = Handler(e, i)]
        /\ catalog' = [catalog EXCEPT ![e.path] = Listed(e, @)]
    BY <1>7, <2>1 DEF RegisterEndpoint
  <2>3. i \in DOMAIN cfg.endpoints /\ e \in EndpointConfig
    BY <1>1, <1>2, ConfigFields
  <2>4. PICK pp, mm, h : pp = e.path /\ mm = Method(e) /\ h = Handler(e, i)
    OBVIOUS
  <2>5. \A p, m : i \in Claims(p, m) <=> (p = pp /\ m = mm)
    BY <1>7, <2>3, <2>4 DEF Claims
  <2>6. pp \in Path /\ mm \in Supported
    BY <1>1, <2>5, ClaimFacts
  <2>7. pp \in Paths /\ mm \in Methods /\ ~Builtin(pp, mm)
    BY <2>6, PathAssumption DEF Paths, Methods, Builtin
  <2>8. h \in Handlers /\ h # Nil
    BY <1>2, <2>4, HandlerFacts
  <2>9. \A p, m : Upto(p, m)' = IF p = pp /\ m = mm THEN Upto(p, m) \cup {i} ELSE Upto(p, m)
    BY <1>5, <2>5
  <2>10. routes \in [Paths -> [Methods -> Handlers \cup {Nil}]]
    BY <1>1 DEF Registered
  <2>11. routes' = [routes EXCEPT ![pp] = [routes[pp] EXCEPT ![mm] = h]]
    BY <2>2, <2>4
  <2>12. routes[pp] \in [Methods -> Handlers \cup {Nil}]
    BY <2>7, <2>10
  <2>13. [routes[pp] EXCEPT ![mm] = h] \in [Methods -> Handlers \cup {Nil}]
    BY <2>8, <2>12
  <2>14. routes' \in [Paths -> [Methods -> Handlers \cup {Nil}]]
    BY <2>10, <2>11, <2>13
  <2>15. ASSUME NEW p \in Paths, NEW m \in Methods PROVE RouteRegistered(p, m)'
    <3>1. RouteRegistered(p, m)
      BY <1>1 DEF Registered
    <3>2. CASE ~(p = pp /\ m = mm)
      <4>1. routes'[p][m] = routes[p][m]
        BY <2>10, <2>11, <2>12, <3>2
      <4>2. Upto(p, m)' = Upto(p, m)
        BY <2>9, <3>2
      <4> QED
        BY <1>2, <3>1, <4>1, <4>2 DEF RouteRegistered, Builtin, Last, Handler, ProxyBuilds, IsWebSocket
    <3>3. CASE p = pp /\ m = mm
      <4>1. routes'[p][m] = h
        BY <2>7, <2>10, <2>11, <2>12, <3>3
      <4>2. Upto(p, m)' = Upto(p, m) \cup {i}
        BY <2>9, <3>3
      <4>3. i \in Nat /\ \A k \in Upto(p, m) : k \in Nat /\ k < i
        BY <1>2, <1>4 DEF Upto
      <4>4. i \in Upto(p, m)' /\ \A k \in Upto(p, m)' : k <= i
        BY <4>2, <4>3
      <4>6. \A n : n = i => Handler(cfg.endpoints[n], n)' = h
        BY <1>2, <2>4 DEF Handler, ProxyBuilds, IsWebSocket
      <4>7. cfg.router = "gin" => Upto(p, m) = {}
        <5> SUFFICES ASSUME cfg.router = "gin", NEW n \in Upto(p, m) PROVE FALSE
          OBVIOUS
        <5>1. routes[p][m] = Nil
          BY <2>1, <2>4, <3>3 DEF Clashes
        <5>2. PICK k \in Upto(p, m) : routes[p][m] = Handler(cfg.endpoints[k], k)
          BY <2>7, <3>1, <3>3 DEF RouteRegistered
        <5>3. k \in Nat
          BY <4>3, <5>2
        <5> QED
          BY <5>1, <5>2, <5>3, HandlerFacts
      <4>8. cfg'.router = "gin" => \A k, n \in Upto(p, m)' : k = n
        BY <1>2, <4>2, <4>7
      <4>9. ~Builtin(p, m)' /\ ~Builtin(p, m)
        BY <1>2, <2>7, <3>3 DEF Builtin
      <4>10. \E n \in Upto(p, m)' : /\ Last(n, Upto(p, m)')
                                    /\ routes'[p][m] = Handler(cfg.endpoints[n], n)'
        BY <4>1, <4>4, <4>6 DEF Last
      <4> QED
        BY <4>8, <4>9, <4>10 DEF RouteRegistered
    <3> QED
      BY <3>2, <3>3
  <2>16. catalog' = [p \in Paths |-> IF cfg'.router = "gin"
                                    THEN {m \in Supported : Upto(p, m)' # {}} ELSE {}]
    <3>1. catalog = [p \in Paths |-> IF cfg.router = "gin"
                                    THEN {m \in Supported : Upto(p, m) # {}} ELSE {}]
      BY <1>1 DEF Registered
    <3>2. catalog' = [catalog EXCEPT ![pp] = IF cfg.router = "gin" THEN catalog[pp] \cup {mm}
                                             ELSE catalog[pp]]
      BY <2>2, <2>4 DEF Listed
    <3>3. CASE cfg.router # "gin"
      BY <1>2, <2>7, <3>1, <3>2, <3>3
    <3>4. CASE cfg.router = "gin"
      <4>1. catalog = [p \in Paths |-> {m \in Supported : Upto(p, m) # {}}]
        BY <3>1, <3>4
      <4>2. \A p \in Paths : {m \in Supported : Upto(p, m)' # {}}
               = IF p = pp THEN {m \in Supported : Upto(p, m) # {}} \cup {mm}
                 ELSE {m \in Supported : Upto(p, m) # {}}
        BY <2>6, <2>9
      <4>3. catalog' = [catalog EXCEPT ![pp] = catalog[pp] \cup {mm}]
        BY <3>2, <3>4
      <4>4. catalog' = [p \in Paths |-> {m \in Supported : Upto(p, m)' # {}}]
        BY <2>7, <4>1, <4>2, <4>3
      <4> QED
        BY <1>2, <3>4, <4>4
    <3> QED
      BY <3>3, <3>4
  <2> QED
    BY <1>2, <2>14, <2>15, <2>16 DEF Registered
<1> QED
  BY <1>6, <1>7

-----------------------------------------------------------------------------
\* The OPTIONS routes complete the engine: what it answers is what the
\* configuration says.
Optional(p, m) == m = "OPTIONS" /\ cfg.router = "gin" /\ cfg.autoOptions /\ Answerable(p) # {}

LEMMA OptionsRegistered ==
  RoutesInv /\ at = "register" /\ RegisterOptionEndpoints => Routed'
<1> SUFFICES ASSUME RoutesInv, at = "register", RegisterOptionEndpoints PROVE Routed'
  OBVIOUS
<1>1. cfg \in ServiceConfig /\ Registered
  BY DEF RoutesInv
<1>2. cfg' = cfg /\ i > Len(cfg.endpoints) /\ i \in Nat /\ Len(cfg.endpoints) \in Nat
  BY <1>1, ConfigFields DEF RegisterOptionEndpoints, Registered
<1>3. \A p, m : Upto(p, m) = Claims(p, m)
  <2> SUFFICES ASSUME NEW p, NEW m, NEW n \in Claims(p, m) PROVE n < i
    BY DEF Upto
  <2> QED
    BY <1>1, <1>2, ClaimFacts
<1>4. \A p, m : Claims(p, m) # {} => p \in Path /\ m \in Supported
  BY <1>1, ClaimFacts
<1>5. \A p \in Paths : catalog[p] = IF cfg.router = "gin" THEN Answerable(p) ELSE {}
  BY <1>1, <1>3 DEF Registered, Answerable
<1>6. /\ [kind |-> "builtin"] # Nil
      /\ \A S \in SUBSET Methods : [kind |-> "options", allow |-> S] # Nil
  <2>1. [kind |-> "builtin"] \in Handlers
    BY DEF Handlers
  <2>2. \A S \in SUBSET Methods : [kind |-> "options", allow |-> S] \in Handlers
    BY DEF Handlers
  <2> QED
    BY <2>1, <2>2, NilAssumption
<1>7. routes \in [Paths -> [Methods -> Handlers \cup {Nil}]]
  BY <1>1 DEF Registered
<1>8. ASSUME NEW p \in Paths, NEW m \in Methods
      PROVE  routes'[p][m] = IF Optional(p, m) THEN [kind |-> "options", allow |-> Answerable(p)]
                             ELSE routes[p][m]
  <2>1. CASE cfg.router = "gin" /\ cfg.autoOptions
    <3>1. routes' = [q \in Paths |-> IF catalog[q] = {} THEN routes[q]
                       ELSE [routes[q] EXCEPT !["OPTIONS"] = [kind |-> "options", allow |-> catalog[q]]]]
      BY <2>1 DEF RegisterOptionEndpoints
    <3>2. catalog[p] = Answerable(p) /\ routes[p] \in [Methods -> Handlers \cup {Nil}]
      BY <1>5, <1>7, <2>1
    <3> QED
      BY <2>1, <3>1, <3>2 DEF Optional, Methods
  <2>2. CASE ~(cfg.router = "gin" /\ cfg.autoOptions)
    BY <2>2 DEF RegisterOptionEndpoints, Optional
  <2> QED
    BY <2>1, <2>2
<1>9. ASSUME NEW p \in Paths, NEW m \in Methods, Builtin(p, m)
      PROVE  routes'[p][m] = [kind |-> "builtin"]
  <2>1. Answerable(p) = {}
    BY <1>4, <1>9, PathAssumption DEF Answerable, Builtin
  <2>2. ~Optional(p, m)
    BY <2>1 DEF Optional
  <2> QED
    BY <1>1, <1>8, <1>9, <2>2 DEF Registered, RouteRegistered
<1>10. ASSUME NEW p \in Paths, NEW m \in Methods, Claims(p, m) # {}
       PROVE  /\ ~Builtin(p, m)
              /\ \E n \in Claims(p, m) : /\ Last(n, Claims(p, m)) /\ n \in Nat
                                         /\ routes'[p][m] = Handler(cfg.endpoints[n], n)
  <2>1. p \in Path /\ m \in Supported
    BY <1>4, <1>10
  <2>2. ~Builtin(p, m) /\ ~Optional(p, m)
    BY <2>1, PathAssumption DEF Builtin, Optional, Supported
  <2>3. routes'[p][m] = routes[p][m] /\ RouteRegistered(p, m)
    BY <1>1, <1>8, <2>2 DEF Registered
  <2>4. PICK n \in Claims(p, m) : /\ Last(n, Claims(p, m))
                                  /\ routes[p][m] = Handler(cfg.endpoints[n], n)
    BY <1>3, <1>10, <2>2, <2>3 DEF RouteRegistered
  <2>5. n \in Nat
    BY <1>1, <1>2, ClaimFacts
  <2> QED
    BY <2>2, <2>3, <2>4, <2>5
<1>11. ASSUME NEW p \in Paths, NEW m \in Methods, ~Builtin(p, m), Claims(p, m) = {}
       PROVE  routes'[p][m] = IF Optional(p, m) THEN [kind |-> "options", allow |-> Answerable(p)]
                              ELSE Nil
  <2>1. routes[p][m] = Nil
    BY <1>1, <1>3, <1>11 DEF Registered, RouteRegistered
  <2> QED
    BY <1>8, <2>1
<1>12. \A p : Answerable(p) \subseteq Methods
  BY DEF Answerable, Methods
<1>13. ASSUME NEW p \in Paths, NEW m \in Methods PROVE Dispatch(p, m)' = Configured(p, m)
  <2>1. CASE Builtin(p, m)
    <3>1. Dispatch(p, m)' = [kind |-> "builtin"]
      BY <1>6, <1>9, <2>1 DEF Dispatch
    <3> QED
      BY <2>1, <3>1 DEF Configured, Builtin
  <2>2. CASE Claims(p, m) # {}
    <3>1. PICK n \in Claims(p, m) : /\ Last(n, Claims(p, m)) /\ n \in Nat
                                    /\ routes'[p][m] = Handler(cfg.endpoints[n], n)
      BY <1>10, <2>2
    <3>2. ~Builtin(p, m)
      BY <1>10, <2>2
    <3>3. Dispatch(p, m)' = Handler(cfg.endpoints[n], n)
      BY <3>1, HandlerFacts DEF Dispatch
    <3>4. Claims(p, m) \in SUBSET Nat
      BY <1>1, <1>2, ClaimFacts
    <3>5. (CHOOSE x \in Claims(p, m) : \A k \in Claims(p, m) : k <= x) = n
      BY <3>1, <3>4, ChosenLast
    <3> QED
      BY <2>2, <3>2, <3>3, <3>5 DEF Configured, Builtin, Handler
  <2>3. CASE ~Builtin(p, m) /\ Claims(p, m) = {} /\ Optional(p, m)
    <3>1. Dispatch(p, m)' = [kind |-> "options", allow |-> Answerable(p)]
      BY <1>6, <1>11, <1>12, <2>3 DEF Dispatch
    <3> QED
      BY <2>3, <3>1 DEF Configured, Builtin, Optional
  <2>4. CASE ~Builtin(p, m) /\ Claims(p, m) = {} /\ ~Optional(p, m)
    <3>1. routes'[p][m] = Nil
      BY <1>11, <2>4
    <3>2. (p = Health \/ Answerable(p) # {}) => \E n \in Methods : routes'[p][n] # Nil
      <4>1. CASE p = Health
        <5>1. "GET" \in Methods /\ Builtin(p, "GET")
          BY <4>1 DEF Methods, Supported, Builtin
        <5> QED
          BY <1>6, <1>9, <5>1
      <4>2. ASSUME NEW n \in Answerable(p) PROVE routes'[p][n] # Nil
        <5>1. n \in Methods /\ Claims(p, n) # {}
          BY <1>12 DEF Answerable
        <5> QED
          BY <1>10, <5>1, HandlerFacts
      <4> QED
        BY <1>12, <4>1, <4>2
    <3>3. (\E n \in Methods : routes'[p][n] # Nil) => (p = Health \/ Answerable(p) # {})
      <4> SUFFICES ASSUME NEW n \in Methods, routes'[p][n] # Nil, p # Health, Answerable(p) = {}
                   PROVE  FALSE
        OBVIOUS
      <4>1. ~Builtin(p, n)
        BY <2>4 DEF Builtin
      <4>2. Claims(p, n) = {}
        BY <1>4 DEF Answerable
      <4>3. ~Optional(p, n)
        BY DEF Optional
      <4> QED
        BY <1>11, <4>1, <4>2, <4>3
    <3>4. Dispatch(p, m)' = IF p = Health \/ Answerable(p) # {}
                            THEN [kind |-> "method not allowed"] ELSE [kind |-> "not found"]
      BY <3>1, <3>2, <3>3 DEF Dispatch
    <3> QED
      BY <2>4, <3>4 DEF Configured, Builtin, Optional
  <2> QED
    BY <2>1, <2>2, <2>3, <2>4
<1>14. \A p, m : Configured(p, m)' = Configured(p, m) /\ Claims(p, m)' = Claims(p, m)
  BY <1>2 DEF Configured, Answerable, Claims, Method, IsWebSocket, Ignored, ProxyBuilds
<1>15. ASSUME cfg.router = "gin", NEW p \in Paths, NEW m \in Methods
       PROVE  Cardinality(Claims(p, m)) <= 1
  <2>1. \A k, n \in Claims(p, m) : k = n
    BY <1>1, <1>3, <1>15 DEF Registered, RouteRegistered
  <2> QED
    BY <2>1, AtMostOne
<1> QED
  BY <1>2, <1>13, <1>14, <1>15 DEF Routed

-----------------------------------------------------------------------------
\* Nothing else touches the engine or the configuration.
LEMMA RoutesInvNext == RoutesInv /\ [Next]_vars => RoutesInv'
<1> SUFFICES ASSUME RoutesInv, [Next]_vars PROVE RoutesInv'
  OBVIOUS
<1>1. CASE RegisterBuiltins
  BY <1>1, BuiltinsRegistered DEF RegisterBuiltins, RoutesInv, After
<1>2. CASE RegisterEndpoint
  <2>1. at = "register" /\ cfg' = cfg /\ at' \in {"register", "panicked"}
    BY <1>2 DEF RegisterEndpoint
  <2> QED
    BY <1>2, <2>1, EndpointRegistered DEF RoutesInv, After
<1>3. CASE RegisterOptionEndpoints
  <2>1. at = "register" /\ cfg' = cfg /\ at' = "serve"
    BY <1>3 DEF RegisterOptionEndpoints
  <2> QED
    BY <1>3, <2>1, OptionsRegistered DEF RoutesInv, After
<1>4. ASSUME UNCHANGED <<cfg, i, routes, catalog>>,
             at' = at \/ (at \in After /\ at' \in After)
      PROVE  RoutesInv'
  <2>1. \A p, m : Claims(p, m)' = Claims(p, m)
    BY <1>4 DEF Claims, Method, IsWebSocket, Ignored, ProxyBuilds
  <2>2. ASSUME NEW p, NEW m
        PROVE  Configured(p, m)' = Configured(p, m) /\ Dispatch(p, m)' = Dispatch(p, m)
    <3>1. Claims(p, m)' = Claims(p, m) /\ Answerable(p)' = Answerable(p)
      BY <2>1 DEF Answerable
    <3>2. Dispatch(p, m)' = Dispatch(p, m)
      BY <1>4 DEF Dispatch
    <3>3. Configured(p, m)' = Configured(p, m)
      BY <1>4, <3>1 DEF Configured, ProxyBuilds, IsWebSocket
    <3> QED
      BY <3>2, <3>3
  <2>3. Routed => Routed'
    BY <1>4, <2>1, <2>2 DEF Routed
  <2>4. \A p, m : Upto(p, m)' = Upto(p, m)
    BY <1>4, <2>1 DEF Upto
  <2>5. ASSUME NEW p, NEW m, RouteRegistered(p, m) PROVE RouteRegistered(p, m)'
    <3>1. Upto(p, m)' = Upto(p, m)
      BY <2>4
    <3>2. cfg' = cfg /\ routes' = routes
      BY <1>4
    <3> QED
      BY <2>5, <3>1, <3>2 DEF RouteRegistered, Builtin, Last, Handler, ProxyBuilds, IsWebSocket
  <2>6. Registered => Registered'
    BY <1>4, <2>4, <2>5 DEF Registered
  <2> QED
    BY <1>4, <2>3, <2>6 DEF RoutesInv, After
<1>5. CASE RunServer \/ Done \/ ContextDone \/ ShutdownReturns
  BY <1>4, <1>5 DEF RunServer, Done, ContextDone, ShutdownReturns, After
<1>6. CASE Listen \/ ServeFails \/ ContextEnds \/ TimerExpires
  BY <1>4, <1>6 DEF Listen, ServeFails, ContextEnds, TimerExpires
<1>7. ASSUME NEW c \in Client, Request(c) \/ Answered(c) \/ Leaves(c) PROVE RoutesInv'
  BY <1>4, <1>7 DEF Request, Answered, Leaves
<1>8. CASE UNCHANGED vars
  BY <1>4, <1>8 DEF vars
<1> QED
  BY <1>1, <1>2, <1>3, <1>5, <1>6, <1>7, <1>8 DEF Next

(***************************************************************************)
(* Once the server runs, whatever the configuration, every method on every *)
(* path is answered as the configuration says, and a gin engine that came  *)
(* up has no two endpoints on one route.                                   *)
(***************************************************************************)
THEOREM RoutedAsConfiguredAlways == Spec => []RoutedAsConfigured
<1>1. RoutesInv => RoutedAsConfigured
  BY DEF RoutesInv, Routed, After, RoutedAsConfigured
<1> QED
  BY <1>1, RoutesInvInit, RoutesInvNext, PTL DEF Spec
=============================================================================
