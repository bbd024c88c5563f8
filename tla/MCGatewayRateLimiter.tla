------------------------ MODULE MCGatewayRateLimiter ------------------------
(* Policies whose rates do not divide a minute evenly, one with a burst that *)
(* is smaller than the rate earns in the time that is explored, one without  *)
(* a burst of its own.                                                       *)
EXTENDS GatewayRateLimiter, TLC

TwoPolicies == {[rpm |-> 40, burst |-> 2], [rpm |-> 2, burst |-> 0]}

ClientSymmetry == Permutations(Clients)

=============================================================================
