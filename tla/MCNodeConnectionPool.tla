------------------------ MODULE MCNodeConnectionPool ------------------------
(* Small instances of NodeConnectionPool: two node addresses, one of them   *)
(* with two connections, so that an address is reused and an eviction can   *)
(* hit either address.                                                      *)
EXTENDS NodeConnectionPool

CONSTANTS a1, a2, c1, c2, c3

MCRemoteAddress == c1 :> a1 @@ c2 :> a1 @@ c3 :> a2
=============================================================================
