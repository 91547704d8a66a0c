----------------------------- MODULE MCGateway -----------------------------
(***************************************************************************)
(* Two families of configurations.  For the routes: up to two endpoints on *)
(* two paths, every kind of endpoint, both routers, the options that add   *)
(* routes.  For the life of the server: one endpoint, a stream or not, and *)
(* every way to configure the shutdown and up to two key pairs.  Two       *)
(* clients ask again and again, so that one may be waited for while the    *)
(* other keeps a stream.                                                   *)
(***************************************************************************)
EXTENDS Gateway

CONSTANTS c1, c2
MCClient == {c1, c2}
MCPath   == {"/a", "/b"}

Endpoints(streams) ==
  {e \in EndpointConfig : e.streaming \in streams /\ (e.websocket => e.builds)}

Routed ==
  [router : {"gin", "mux"},
   endpoints : {<<e, f>> : e \in Endpoints({FALSE}), f \in Endpoints({FALSE})},
   debug : {FALSE}, echo : {FALSE}, autoOptions : BOOLEAN, maxShutdownDuration : {0}, tls : {Nil}]
  \cup
  [router : {"gin", "mux"}, endpoints : {<<e>> : e \in Endpoints({FALSE})},
   debug : BOOLEAN, echo : BOOLEAN, autoOptions : BOOLEAN, maxShutdownDuration : {0}, tls : {Nil}]

Keys == {<<>>} \cup {<<k>> : k \in KeyPair} \cup {<<k, l>> : k \in KeyPair, l \in KeyPair}

Served ==
  [router : {"mux"},
   endpoints : {<<e>> : e \in {e \in Endpoints(BOOLEAN) :
                  e.path = "/a" /\ e.method = "GET" /\ ~e.websocket /\ e.builds}},
   debug : {FALSE}, echo : {FALSE}, autoOptions : {FALSE}, maxShutdownDuration : 0..1,
   tls : {Nil} \cup [disabled : BOOLEAN, keys : Keys]]

MCConfigurations == Routed \cup Served
=============================================================================
