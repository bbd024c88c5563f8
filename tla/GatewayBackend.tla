--------------------------- MODULE GatewayBackend ---------------------------
(***************************************************************************)
(* The routing decision of the gateway: backendFor maps one ModelDeployment *)
(* and the Service and EndpointSlice lists of the same synchronisation to   *)
(* the state under which the registry publishes the model.  A deployment is *)
(* abstracted to the fields the decision reads:                             *)
(*                                                                         *)
(*   uid       the object's UID (its incarnation)                           *)
(*   phase     status.phase                                                 *)
(*   active    spec.activation.desiredState = Active                        *)
(*   routed    routing enabled and OpenAI compatible                        *)
(*   observed  status.observedGeneration has reached metadata.generation    *)
(*   blocked   a Rollout=False condition of this generation with reason     *)
(*             WaitingForCapacity or Rejected                               *)
(*   stable    RuntimeReady, ModelLoaded and RoutingReady are True (for any *)
(*             generation) and status.model.loaded                          *)
(*   current   the same conditions and Ready are True for this generation,  *)
(*             and status.model.loaded                                      *)
(*   full      at least one replica is desired and all of them are ready    *)
(*                                                                         *)
(* and a runtime Service to its owner's UID, whether its label and selector *)
(* name the deployment (a drained Service keeps the label and loses the     *)
(* selector), whether it is terminating, and whether its port, type and     *)
(* cluster IP are the ones the gateway can forward to.                      *)
(***************************************************************************)
EXTENDS Naturals

BackendStates == {"inactive", "activating", "ready", "unavailable", "draining"}

DeploymentPhases ==
  {"Pending", "Downloading", "WaitingForCapacity", "WaitingForGPU", "Activating",
   "Active", "Draining", "Deactivating", "Cached", "Failed", "Unknown"}

(* rolloutBlockedWithStableRuntime and the two condition lists: a blocked   *)
(* rollout keeps routing to the previous runtime, whose conditions belong   *)
(* to an earlier generation.                                                *)
RuntimeReady(d) == IF d.blocked THEN d.stable ELSE d.current

(* The gates on the deployment itself.                                      *)
DeploymentRoutable(d) == d.routed /\ d.observed /\ RuntimeReady(d) /\ d.full

(* ownedByDeployment: the controller reference must name this incarnation.  *)
OwnedByDeployment(s, d) == s.owner = d.uid

(* The gates on the Service and its endpoints: found, not terminating,      *)
(* labelled, owned, selecting, of the right shape, with a ready endpoint.   *)
ServiceRoutable(d, found, s, endpoints) ==
  /\ found
  /\ ~s.terminating
  /\ s.labelled
  /\ OwnedByDeployment(s, d)
  /\ s.selects
  /\ s.shaped
  /\ endpoints

(* Faulty variant: the desired state is looked at before the Draining       *)
(* phase, so a model that drains because it was deactivated is published as *)
(* inactive.                                                                *)
BackendForDesiredFirst(d, found, s, endpoints) ==
  CASE ~d.active -> "inactive"
    [] d.active /\ d.phase = "Draining" -> "draining"
    [] d.active /\ d.phase \in {"Deactivating", "Cached"} -> "inactive"
    [] d.active /\ d.phase \in {"Pending", "Downloading", "WaitingForCapacity", "WaitingForGPU",
                                "Activating", "Unknown"} -> "activating"
    [] d.active /\ d.phase = "Failed" -> "unavailable"
    [] OTHER -> IF DeploymentRoutable(d) /\ ServiceRoutable(d, found, s, endpoints)
                  THEN "ready" ELSE "unavailable"

(* backendFor.                                                              *)
BackendFor(d, found, s, endpoints) ==
  CASE d.phase = "Draining" -> "draining"
    [] d.phase # "Draining" /\ ~d.active -> "inactive"
    [] d.active /\ d.phase \in {"Deactivating", "Cached"} -> "inactive"
    [] d.active /\ d.phase \in {"Pending", "Downloading", "WaitingForCapacity", "WaitingForGPU",
                                "Activating", "Unknown"} -> "activating"
    [] d.active /\ d.phase = "Failed" -> "unavailable"
    [] d.active /\ d.phase = "Active" ->
         IF DeploymentRoutable(d) /\ ServiceRoutable(d, found, s, endpoints)
           THEN "ready" ELSE "unavailable"

(* MarkReadyUnavailable, for one published state.                           *)
MarkReadyUnavailable(state) == IF state = "ready" THEN "unavailable" ELSE state

=============================================================================
