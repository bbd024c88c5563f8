-------------------------- MODULE MCReplicaScaling --------------------------
(* Instances of ReplicaScaling for TLC.                                     *)
EXTENDS ReplicaScaling

Scaling(lo, hi, target, idle, strategy) ==
  [min |-> lo, max |-> hi, target |-> target, idle |-> idle, gpus |-> 1, strategy |-> strategy]

Setup(policy, capacity, maxLoad, edits, maxEdits, kinds, maxFaults) ==
  [policy |-> policy, capacity |-> capacity, maxLoad |-> maxLoad, edits |-> edits,
   maxEdits |-> maxEdits, faults |-> kinds, maxFaults |-> maxFaults]

AnyFault == {"Write", "Pod", "Metrics"}

(* Two deployments that want more replicas than the node has slots.         *)
Crowded ==
  Setup(<<Scaling(1, 3, 1, 0, "Recreate"), Scaling(2, 3, 1, 0, "Recreate")>>,
        4, 2, {"template"}, 1, {}, 0)

(* One that goes to zero beside one that does not, with faults.             *)
IdleAndFloor ==
  Setup(<<Scaling(0, 2, 1, 1, "Recreate"), Scaling(1, 2, 1, 0, "Recreate")>>,
        2, 2, {}, 0, AnyFault, 1)

(* Rollouts that need spare slots, of fixed numbers of replicas.            *)
FixedRollouts ==
  Setup(<<Scaling(2, 2, 0, 0, "BlueGreen"), Scaling(1, 1, 0, 0, "Rolling")>>,
        4, 0, {"template"}, 1, AnyFault, 1)

(* One replica with an idle timeout, and two whose spec is edited.          *)
OneIdle == Setup(<<Scaling(0, 1, 1, 2, "Recreate")>>, 1, 2, {}, 0, AnyFault, 2)
TwoIdle == Setup(<<Scaling(0, 2, 1, 2, "Recreate")>>, 2, 2, {"template", "max"}, 2, {}, 0)

(* Two that sleep on a node with room for one, and are woken by an edit.    *)
TwoWoken ==
  Setup(<<Scaling(0, 1, 1, 1, "Recreate"), Scaling(0, 1, 1, 1, "Recreate")>>,
        1, 1, {"template"}, 1, {}, 0)

(* Where stronger statements fail: autoscaled Rolling deployments, a lost   *)
(* status write, a lowered maxReplicas, a template edit during scaling, and *)
(* an edit that wakes an idle deployment.                                   *)
TwoRolling == <<Scaling(1, 2, 1, 0, "Rolling"), Scaling(1, 2, 1, 0, "Rolling")>>
RollingCrowded == {Setup(TwoRolling, 3, 2, {}, 0, {}, 0)}
RollingEdited == {Setup(TwoRolling, 3, 1, {"template"}, 1, {}, 0)}
CrowdedFaulty == {[Crowded EXCEPT !.edits = {}, !.faults = {"Write"}, !.maxFaults = 1]}
CrowdedLowered == {[Crowded EXCEPT !.edits = {"max"}]}
OneWoken == {[TwoIdle EXCEPT !.maxLoad = 1, !.edits = {"max"}, !.maxEdits = 1]}

AllSetups == {Crowded, IdleAndFloor, FixedRollouts, OneIdle, TwoIdle, TwoWoken}
=============================================================================
