--------------------------- MODULE MCGatewayRouter ---------------------------
(* Instances of GatewayRouter for TLC.                                      *)
EXTENDS GatewayRouter

Entry(weight, strategy) == [state |-> "ready", weight |-> weight, strategy |-> strategy]

(* The route is weighted as long as a backend of weight 2 is ready; one of  *)
(* weight 0 is published and gets no traffic.                               *)
CanaryEntries == {Entry(0, "weighted"), Entry(1, "least-loaded"), Entry(2, "weighted")}
=============================================================================
