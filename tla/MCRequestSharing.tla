-------------------------- MODULE MCRequestSharing --------------------------
(***************************************************************************)
(* Two backends: enough for two GraphQL backends, a GraphQL one next to a  *)
(* plain one, and either as the shadow of the other.  Only the first may   *)
(* have filters, concurrent calls or an unsafe method.                     *)
(***************************************************************************)
EXTENDS RequestSharing

MCBackend == {1, 2}

MCEndpoints ==
  {e \in Endpoint : /\ e.method[2] = "GET"   /\ e.calls[2] = 1
                    /\ e.queries[2] = "none" /\ e.headers[2] = "none"
                    /\ ~e.forceDeepClone     /\ e.headers[1] # "passes"}
=============================================================================
