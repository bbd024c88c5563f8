--------------------- MODULE MCModelDeploymentLifecycle ---------------------
(***************************************************************************)
(* Small instances of ModelDeploymentLifecycle: the deployments a, b, c, e *)
(* compete for the GPUs of one node.  b is the one that replaces.          *)
(***************************************************************************)
EXTENDS ModelDeploymentSlots

CONSTANTS a, b, c, e, node

OneNode == [d \in Deployments |-> node]
OneGPU == [d \in Deployments |-> 1]
CPUOnlyC == [d \in Deployments |-> IF d = c THEN 0 ELSE 1]
OneSlot == [n \in Nodes |-> 1]
TwoSlots == [n \in Nodes |-> 2]
LowestA == [d \in Deployments |-> IF d = a THEN 1 ELSE 2]

Body(desired, whenFull) ==
  [desired |-> desired, whenFull |-> whenFull, valid |-> TRUE, preflight |-> "Fit"]
Oversized(body) == [body EXCEPT !.preflight = "TooSmall"]
Misplaced(body) == [body EXCEPT !.preflight = "Constrained"]

(* Replacers replace whoever holds a slot, the others follow the policy.   *)
Competing(replacers, otherwise) ==
  {[d \in Deployments |->
      IF d \in replacers THEN Body("Active", "ReplaceOldest")
                         ELSE Body("Active", otherwise)]}

QueueAgainstB == Competing({b}, "Queue")
RejectAgainstB == Competing({b}, "Reject")
QueueAgainstAB == Competing({a, b}, "Queue")
Contending == QueueAgainstB \cup RejectAgainstB
OversizedB ==
  {[s EXCEPT ![b] = Oversized(@)] : s \in QueueAgainstB}

(* What users write: another policy, Inactive, or a spec that cannot run.  *)
UserEdits ==
  {Body("Active", "Queue"), Body("Inactive", "Queue"),
   Body("Active", "ReplaceOldest"), Body("Active", "ReplaceLowestPriority")}
OldestEdits == UserEdits \ {Body("Active", "ReplaceLowestPriority")}
PriorityEdits == UserEdits \ {Body("Active", "ReplaceOldest")}
BadEdits ==
  {Body("Active", "ReplaceOldest"),
   [Body("Active", "ReplaceOldest") EXCEPT !.valid = FALSE],
   Oversized(Body("Active", "Queue")), Misplaced(Body("Active", "Queue"))}
NoEdits == {}
=============================================================================
