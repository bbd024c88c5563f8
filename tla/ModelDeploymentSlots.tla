------------------------ MODULE ModelDeploymentSlots ------------------------
(***************************************************************************)
(* The ModelDeployment controller implements GPUSlotLease: runtime          *)
(* Deployments, terminating ones included, are the leases, and the          *)
(* replacement transactions recorded in status are the handoffs.            *)
(***************************************************************************)
EXTENDS ModelDeploymentLifecycle

Lease == INSTANCE GPUSlotLease WITH
  Clients <- Deployments,
  None <- NoDep,
  Home <- CacheNode,
  Slots <- GPUCount,
  running <- {d \in Deployments : RuntimeExists(d)},
  handoff <- [r \in Deployments |->
                IF r \in objects /\ ReservesHandoff(r) /\ st[r].node # NoNode
                  THEN [target |-> st[r].rep.target, back |-> st[r].rep.phase = "RollingBack"]
                  ELSE [target |-> NoDep, back |-> FALSE]]

(* Every creation of a runtime Deployment is the start of a lease that      *)
(* fits its node and respects the open handoffs, whatever reconciles,       *)
(* failed writes and edits came before it; and handoffs open, turn back and *)
(* close as announced.                                                      *)
ImplementsLease == Lease!Spec
=============================================================================
