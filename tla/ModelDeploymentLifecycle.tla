---------------------- MODULE ModelDeploymentLifecycle ----------------------
(***************************************************************************)
(* The ModelDeployment controller of the InferOps operator: activation,    *)
(* GPU reservation, drain, and the single-GPU replacement transaction      *)
(* between a requester and the deployment it displaces.                    *)
(*                                                                         *)
(* One reconcile reads the cluster, decides, and then issues its API       *)
(* writes one after the other.  A Reconcile step is the read and the       *)
(* decision; it leaves the writes in todo, in the order of the code.  Each *)
(* write is a step of its own, so users, the kubelet and the cache         *)
(* controller interleave with them, and ReconcileError drops the rest of   *)
(* them (an API error, a conflict or an operator crash).  The controller   *)
(* runs one reconcile at a time (MaxConcurrentReconciles: 1): a Reconcile  *)
(* step needs todo to be empty.                                            *)
(*                                                                         *)
(* Every deployment runs one replica with autoscaling off and the Recreate *)
(* rollout, so planRuntimeReplicas plans 1.  A deployment stands for one   *)
(* object UID: a recreated object is another element of Deployments.       *)
(***************************************************************************)
EXTENDS Integers, Sequences, FiniteSetsExt

CONSTANTS
  Deployments,    \* ModelDeployment objects (UIDs) of one namespace
  NoDep,          \* a nil ReplacementReference
  Nodes,          \* nodes of the cluster
  NoNode,         \* an empty status.assignedNode
  CacheNode,      \* the node that holds each deployment's model cache
  GPUCount,       \* spec.resources.gpu.count; 0 for a CPU-only deployment
  Capacity,       \* allocatable GPUs of each node
  Priority,       \* spec.activation.priority
  SpecBodies,     \* spec contents a user may write
  InitialSpecs,   \* the possible initial assignments of specs
  InitialCache,   \* phase of every ModelCache at the start
  CachePhases,    \* phases a cache fault may throw a ModelCache into
  NodeStates,     \* states a node may change to
  FaultKinds,     \* the kinds of fault the environment may inject
  MaxEdits,       \* bound: user edits of a spec
  MaxFaults       \* bound: injected faults

VARIABLES
  objects,        \* deployments that exist in the API server
  spec,           \* spec.activation, validity, and fit on a healthy node
  gen,            \* metadata.generation
  st,             \* status
  wl,             \* the runtime Deployment owned by each deployment
  terminating,    \* runtime Deployments under foreground deletion
  svc,            \* deployments whose Service still selects their pods
  cache,          \* phase of each deployment's ModelCache
  nodes,          \* what the scheduler sees of each node
  todo,           \* writes the running reconcile has still to issue
  edits, faults   \* how much of the two bounds is used

cluster == <<objects, spec, gen, st, wl, terminating, svc, cache, nodes>>
vars == <<cluster, todo, edits, faults>>

ReplacementPolicies == {"ReplaceOldest", "ReplaceLowestPriority"}
WhenFull == {"Queue", "Reject"} \cup ReplacementPolicies
NodeState == {"Fit", "TooSmall", "Constrained", "Down"}
SpecBody == [desired: {"Active", "Inactive"}, whenFull: WhenFull, valid: BOOLEAN,
             preflight: NodeState \ {"Down"}]
Phases == {"New", "Pending", "Downloading", "Cached", "WaitingForCapacity",
           "WaitingForGPU", "Activating", "Active", "Draining",
           "Deactivating", "Failed"}
HandoffPhases == {"Draining", "Activating", "RollingBack"}
ReplacementPhases == HandoffPhases \cup
  {"None", "Displaced", "Succeeded", "RolledBack", "RollbackFailed"}
CachePhase == {"Absent", "Pending", "Downloading", "Ready", "Failed"}
Workload == {"None", "Starting", "Ready", "Stalled"}
FaultKind == {"Error", "Stall", "Unready", "Cache", "Node", "Remove"}

(* status.replacement; None stands for a nil pointer.  A requester has a   *)
(* target, the deployment it displaces has a by (RequestedBy).             *)
Replacement == [phase: ReplacementPhases, target: Deployments \cup {NoDep},
                by: Deployments \cup {NoDep}, gen: Nat]
NoReplacement == [phase |-> "None", target |-> NoDep, by |-> NoDep, gen |-> 0]

(* drain is status.drainStartedAt seen against the drain timeout; blocked  *)
(* says a validation condition is not True; cacheFailed says Ready has     *)
(* reason CacheFailed, which matters only while the phase is Failed.       *)
Status == [phase: Phases, node: Nodes \cup {NoNode}, obs: Nat,
           rep: Replacement, drain: {"Nil", "Running", "Elapsed"},
           blocked: BOOLEAN, cacheFailed: BOOLEAN]
NewStatus == [phase |-> "New", node |-> NoNode, obs |-> 0,
              rep |-> NoReplacement, drain |-> "Nil",
              blocked |-> FALSE, cacheFailed |-> FALSE]

Write ==
  [op: {"Attach", "Detach", "Apply", "Delete", "CreateCache"}, d: Deployments]
    \cup [op: {"Release", "Mark", "RollBack"}, d: Deployments, by: Deployments]
    \cup [op: {"PatchStatus"}, d: Deployments, new: Status]

ASSUME ConstantsAssumption ==
  /\ NoDep \notin Deployments
  /\ NoNode \notin Nodes
  /\ CacheNode \in [Deployments -> Nodes]
  /\ GPUCount \in [Deployments -> Nat]
  /\ Capacity \in [Nodes -> Nat]
  /\ Priority \in [Deployments -> Int]
  /\ SpecBodies \subseteq SpecBody
  /\ InitialSpecs \subseteq [Deployments -> SpecBody]
  /\ InitialCache \in CachePhase
  /\ CachePhases \subseteq CachePhase
  /\ NodeStates \subseteq NodeState
  /\ FaultKinds \subseteq FaultKind
  /\ MaxEdits \in Nat
  /\ MaxFaults \in Nat

Init ==
  /\ objects = Deployments
  /\ spec \in InitialSpecs
  /\ gen = [d \in Deployments |-> 1]
  /\ st = [d \in Deployments |-> NewStatus]
  /\ wl = [d \in Deployments |-> "None"]
  /\ terminating = {}
  /\ svc = {}
  /\ cache = [d \in Deployments |-> InitialCache]
  /\ nodes = [n \in Nodes |-> "Fit"]
  /\ todo = <<>>
  /\ edits = 0
  /\ faults = 0

-----------------------------------------------------------------------------
(* Reading the cluster: desired state, GPU reservations, candidates.       *)

WantsActive(d) == spec[d].desired = "Active"

(* runtimeWorkloadExists: a terminating Deployment still exists.           *)
RuntimeExists(d) == wl[d] # "None"

ReservesHandoff(d) ==
  /\ st[d].rep.target # NoDep
  /\ st[d].rep.phase \in HandoffPhases

(* Targets whose slot is accounted to the requester taking it over.        *)
HandoffTargets ==
  {st[r].rep.target : r \in {x \in objects : /\ ReservesHandoff(x)
                                             /\ st[x].node # NoNode
                                             /\ GPUCount[x] > 0}}

(* Faulty variants of ReservedByStatus: the handoff is not reserved; the    *)
(* rollback target counts the reservation it is to consume.                *)
ReservedByPhaseOnly(d) ==
  {x \in objects \ {d} : st[x].node # NoNode /\ st[x].phase \in {"Activating", "Active"}}

ReservedDespiteRollback(d) ==
  {x \in objects \ {d} :
     st[x].node # NoNode /\ (st[x].phase \in {"Activating", "Active"} \/ ReservesHandoff(x))}

(* Deployments whose status holds a reservation, as d counts them: the     *)
(* rollback target skips the requester that is giving the slot back.       *)
ReservedByStatus(d) ==
  {x \in objects \ {d} :
     /\ st[x].node # NoNode
     /\ st[x].phase \in {"Activating", "Active"} \/ ReservesHandoff(x)
     /\ ~(st[x].rep.phase = "RollingBack" /\ st[x].rep.target = d)}

(* Faulty variant: runtime Deployments without a status are not counted.   *)
GPUAllocationsInStatus(d) == ReservedByStatus(d) \ HandoffTargets

(* gpuAllocations: reservations in status, plus runtime Deployments that   *)
(* no status accounts for, both without the handoff targets.               *)
GPUAllocations(d) ==
  (ReservedByStatus(d) \cup {x \in Deployments \ {d} : RuntimeExists(x)})
    \ HandoffTargets

(* A cache is node-local: allocations and requests meet on CacheNode.      *)
Used(d) ==
  MapThenSumSet(LAMBDA x : GPUCount[x],
                {x \in GPUAllocations(d) : CacheNode[x] = CacheNode[d]})

GPUFits(d) ==
  /\ nodes[CacheNode[d]] # "Down"
  /\ Used(d) + GPUCount[d] <= Capacity[CacheNode[d]]

(* ValidateRuntimeNode: the node's labels, taints and allocatable compute   *)
(* against the scheduling constraints and requests of the spec.            *)
Preflight(d) ==
  IF nodes[CacheNode[d]] = "Fit" THEN spec[d].preflight ELSE nodes[CacheNode[d]]

CandidateAvailable(rep) ==
  \/ rep = NoReplacement
  \/ rep.by = NoDep /\ rep.target # NoDep /\ rep.phase = "Succeeded"

(* selectReplacementTarget before its sort.                                *)
Candidates(d) ==
  {x \in objects \ {d} :
     /\ WantsActive(x)
     /\ st[x].obs >= gen[x]
     /\ st[x].phase = "Active"
     /\ st[x].node = CacheNode[d]
     /\ GPUCount[x] = 1
     /\ CandidateAvailable(st[x].rep)
     /\ spec[d].whenFull = "ReplaceLowestPriority" => Priority[x] < Priority[d]}

(* The sort puts the lowest priority first under ReplaceLowestPriority;    *)
(* ages are abstracted, so any candidate of equal rank may come first.     *)
FirstCandidates(d) ==
  {x \in Candidates(d) :
     spec[d].whenFull = "ReplaceLowestPriority" =>
       \A y \in Candidates(d) : Priority[x] <= Priority[y]}

-----------------------------------------------------------------------------
(* The status as the stages of one reconcile rewrite it in memory.         *)

(* ModelDeploymentReconciler.Reconcile, and the first lines of reconcile.  *)
Validated(d) ==
  LET s == st[d]
      edited == s.phase = "Failed" /\ gen[d] > s.obs
  IN  IF ~spec[d].valid
        THEN [s EXCEPT !.phase = "Failed", !.blocked = TRUE, !.cacheFailed = FALSE]
      ELSE IF s.phase = "New" \/ (s.phase = "Failed" /\ s.blocked) \/ edited
        THEN [s EXCEPT !.phase = "Pending", !.blocked = FALSE, !.cacheFailed = FALSE,
                       !.rep = IF edited THEN NoReplacement ELSE @]
      ELSE [s EXCEPT !.blocked = FALSE]

Terminal(d) == Validated(d).phase = "Failed" /\ ~Validated(d).cacheFailed

(* A displaced deployment drops a requester that is gone, no longer names  *)
(* it, has ended, or whose claim the user overrides by asking Inactive.    *)
ClaimLapsed(d, rep) ==
  \/ rep.by \notin objects
  \/ st[rep.by].rep.target # d
  \/ ~WantsActive(d)
  \/ st[rep.by].rep.phase \notin HandoffPhases \cup {"Succeeded"}
  \/ st[rep.by].rep.phase = "Succeeded" /\ st[rep.by].phase # "Active"

AfterParticipant(d) ==
  LET s == Validated(d)
  IN  IF s.rep.by = NoDep THEN s
      ELSE IF ClaimLapsed(d, s.rep) THEN [s EXCEPT !.rep = NoReplacement]
      ELSE IF st[s.rep.by].rep.phase = "RollingBack"
        THEN [s EXCEPT !.rep.phase = "RollingBack", !.drain = "Nil"]
      ELSE s

ParticipantHandled(d) ==
  LET s == Validated(d)
  IN  /\ s.rep.by # NoDep
      /\ ~ClaimLapsed(d, s.rep)
      /\ st[s.rep.by].rep.phase # "RollingBack"

(* Faulty variant: only a Cached target counts as released.                *)
TargetReleasedWhenCached(d, t) ==
  /\ t \in objects
  /\ st[t].rep = NoReplacement \/ st[t].rep.by = d
  /\ ~RuntimeExists(t)
  /\ st[t].node = NoNode
  /\ st[t].phase = "Cached"

(* The target has let go of its slot: the requester may activate.          *)
TargetReleased(d, t) ==
  /\ t \in objects
  /\ st[t].rep = NoReplacement \/ st[t].rep.by = d
  /\ ~RuntimeExists(t)
  /\ st[t].node = NoNode
  /\ st[t].phase \in {"Cached", "WaitingForGPU"}

(* Faulty variant: requestGeneration is not compared.                      *)
PolicyWithdrawn(d) == spec[d].whenFull \notin ReplacementPolicies

(* The spec the transaction was started for has changed.                   *)
RequestWithdrawn(d) ==
  \/ AfterParticipant(d).rep.gen # gen[d]
  \/ spec[d].whenFull \notin ReplacementPolicies

RequesterHandled(d) ==
  LET rep == AfterParticipant(d).rep
  IN  /\ rep.target # NoDep
      /\ WantsActive(d)
      /\ \/ rep.phase = "RollingBack"
         \/ rep.phase = "Activating" /\ RequestWithdrawn(d)
         \/ rep.phase = "Draining" /\ (RequestWithdrawn(d) \/ ~TargetReleased(d, rep.target))

AfterRequester(d) ==
  LET s == AfterParticipant(d)
  IN  IF s.rep.target = NoDep THEN s
      ELSE IF ~WantsActive(d) THEN [s EXCEPT !.rep = NoReplacement]
      ELSE IF s.rep.phase = "Draining" THEN [s EXCEPT !.rep.phase = "Activating"]
      ELSE s

-----------------------------------------------------------------------------
(* The writes a reconcile issues; each is left out when it changes nothing. *)

(* Faulty variant: a draining phase does not keep the Service detached.    *)
ServiceShouldDetachUnlessDraining(d) ==
  LET s == Validated(d)
  IN  \/ ~WantsActive(d)
      \/ s.phase \in {"Deactivating", "Failed"}
      \/ s.rep.by # NoDep /\ s.rep.phase # "RollingBack"

ServiceShouldDetach(d) ==
  LET s == Validated(d)
  IN  \/ ~WantsActive(d)
      \/ s.phase \in {"Draining", "Deactivating", "Failed"}
      \/ s.rep.by # NoDep /\ s.rep.phase # "RollingBack"

(* Faulty variant: the Service is patched without a comparison.            *)
EnsureServiceUncompared(d) ==
  <<[op |-> IF ServiceShouldDetach(d) THEN "Detach" ELSE "Attach", d |-> d]>>

EnsureService(d) ==
  IF ServiceShouldDetach(d)
    THEN IF d \in svc THEN <<[op |-> "Detach", d |-> d]>> ELSE <<>>
    ELSE IF d \in svc THEN <<>> ELSE <<[op |-> "Attach", d |-> d]>>

(* detachRuntimeService, after EnsureService has run in the same reconcile. *)
DetachService(d) ==
  IF ServiceShouldDetach(d) THEN <<>> ELSE <<[op |-> "Detach", d |-> d]>>

(* Faulty variant: the endpoints are withdrawn, the Deployment stays.      *)
WithdrawOnly(d) == IF RuntimeExists(d) THEN DetachService(d) ELSE <<>>

DeleteWorkload(d) ==
  IF ~RuntimeExists(d) THEN <<>>
  ELSE DetachService(d) \o
       (IF d \in terminating THEN <<>> ELSE <<[op |-> "Delete", d |-> d]>>)

Observed(d, s) ==
  [s EXCEPT !.obs = gen[d], !.cacheFailed = @ /\ s.phase = "Failed"]

PatchStatus(d, s) ==
  IF Observed(d, s) = st[d] THEN <<>>
  ELSE <<[op |-> "PatchStatus", d |-> d, new |-> Observed(d, s)]>>

Fail(s) == [s EXCEPT !.phase = "Failed", !.cacheFailed = FALSE]

FailDeployment(d, s) == DetachService(d) \o PatchStatus(d, Fail(s))

(* deleteRuntimeWorkload followed by failDeployment.                       *)
TearDownAndFail(d, s) ==
  DeleteWorkload(d) \o (IF RuntimeExists(d) THEN <<>> ELSE DetachService(d))
    \o PatchStatus(d, Fail(s))

Release(t, r) ==
  IF t \in objects /\ st[t].rep.by = r
    THEN <<[op |-> "Release", d |-> t, by |-> r]>> ELSE <<>>

(* markReplacementTarget: a target that had displaced a deployment itself  *)
(* releases that one first.                                                *)
MarkTarget(t, r) ==
  (IF st[t].rep.target # NoDep THEN Release(st[t].rep.target, t) ELSE <<>>)
    \o <<[op |-> "Mark", d |-> t, by |-> r]>>

BeginRollback(d, s) ==
  DeleteWorkload(d) \o
  PatchStatus(d, [s EXCEPT !.rep.phase = "RollingBack", !.phase = "Deactivating"])

(* Faulty variant: the runtime is deleted without a Draining stage.        *)
DeactivationAtOnce(d, s, drained) ==
  IF RuntimeExists(d)
    THEN DeleteWorkload(d) \o PatchStatus(d, [s EXCEPT !.phase = "Deactivating"])
    ELSE PatchStatus(d, [s EXCEPT !.drain = "Nil", !.phase = "Cached", !.node = NoNode])

(* reconcileDeactivation.  drained says every ready gateway reported       *)
(* drainComplete; once the drain timeout has elapsed nobody is asked.      *)
Deactivation(d, s, drained) ==
  LET started == IF s.drain = "Nil" THEN "Running" ELSE s.drain
  IN  IF s.phase = "Draining"
        THEN DeleteWorkload(d) \o
             PatchStatus(d, [s EXCEPT !.drain = started,
               !.phase = IF drained \/ started = "Elapsed" THEN "Deactivating" ELSE "Draining"])
      ELSE IF s.phase = "Deactivating" /\ RuntimeExists(d)
        THEN DeleteWorkload(d) \o PatchStatus(d, s)
      ELSE IF RuntimeExists(d)
        THEN PatchStatus(d, [s EXCEPT !.drain = "Running", !.phase = "Draining"])
      ELSE PatchStatus(d, [s EXCEPT !.drain = "Nil", !.phase = "Cached", !.node = NoNode])

-----------------------------------------------------------------------------
(* The decisions of one reconcile, in the order of the code.  Each is the  *)
(* condition that leads there and the writes it issues.                    *)

(* A terminal failure, by validation or by an earlier reconcile.           *)
ReconcileFailed(d) ==
  LET s == Validated(d)
      release == s.blocked /\ s.rep.target # NoDep
  IN  /\ Terminal(d)
      /\ todo' = (IF release THEN Release(s.rep.target, d) ELSE <<>>)
                  \o (IF d \in svc THEN <<[op |-> "Detach", d |-> d]>> ELSE <<>>)
                  \o (IF RuntimeExists(d) /\ d \notin terminating
                        THEN <<[op |-> "Delete", d |-> d]>> ELSE <<>>)
                  \o PatchStatus(d, [s EXCEPT !.node = NoNode,
                       !.rep = IF release THEN NoReplacement ELSE @])

(* Faulty variant: the cache phase is projected without projectCachePending. *)
ReconcileCacheCreatedRaw(d) ==
  /\ ~Terminal(d)
  /\ cache[d] = "Absent"
  /\ todo' = EnsureService(d) \o <<[op |-> "CreateCache", d |-> d]>>
              \o PatchStatus(d, [Validated(d) EXCEPT !.phase = cache[d]])

(* ensureModelCache had to create the ModelCache.                          *)
ReconcileCacheCreated(d) ==
  /\ ~Terminal(d)
  /\ cache[d] = "Absent"
  /\ todo' = EnsureService(d) \o <<[op |-> "CreateCache", d |-> d]>>
              \o PatchStatus(d, [Validated(d) EXCEPT !.phase = "Pending"])

(* The cache is not Ready: give everything back and project its phase.     *)
ReconcileCacheNotReady(d) ==
  LET s == Validated(d)
      requester == s.rep.target # NoDep
      given == [s EXCEPT !.node = NoNode, !.rep = IF requester THEN NoReplacement ELSE @]
  IN  /\ ~Terminal(d)
      /\ cache[d] \in {"Pending", "Downloading", "Failed"}
      /\ todo' = EnsureService(d)
                  \o (IF requester THEN Release(s.rep.target, d) ELSE <<>>)
                  \o DeleteWorkload(d)
                  \o (IF cache[d] = "Failed" /\ ~RuntimeExists(d)
                        THEN DetachService(d) ELSE <<>>)
                  \o PatchStatus(d, [given EXCEPT !.phase = cache[d],
                                                  !.cacheFailed = cache[d] = "Failed"])

CacheServes(d) == ~Terminal(d) /\ cache[d] = "Ready"

(* reconcileReplacementParticipant, displaced deployment: drain and stop.  *)
ParticipantDrain(d) ==
  LET s == Validated(d)
      requested == st[s.rep.by].rep.phase
  IN  /\ CacheServes(d)
      /\ ParticipantHandled(d)
      /\ \/ requested = "Draining"
         \/ requested = "Activating" /\ (RuntimeExists(d) \/ s.node # NoNode)
      /\ \E drained \in BOOLEAN :
           todo' = EnsureService(d) \o Deactivation(d,
             [s EXCEPT !.rep.phase = IF requested = "Draining" THEN "Draining" ELSE @],
             drained)

(* Displaced, and the slot belongs to the requester.                       *)
ParticipantDisplaced(d) ==
  LET s == Validated(d)
      requested == st[s.rep.by].rep.phase
  IN  /\ CacheServes(d)
      /\ ParticipantHandled(d)
      /\ \/ /\ requested = "Activating" /\ ~RuntimeExists(d) /\ s.node = NoNode
            /\ todo' = EnsureService(d) \o
                 PatchStatus(d, [s EXCEPT !.rep.phase = "Displaced", !.phase = "Cached"])
         \/ /\ requested = "Succeeded"
            /\ todo' = EnsureService(d) \o
                 PatchStatus(d, [s EXCEPT !.rep.phase = "Displaced",
                                  !.phase = "WaitingForGPU", !.node = NoNode])

(* reconcileReplacementRequester up to its handled returns: s is the       *)
(* requester's status, t its target.                                       *)
RequesterReads(d) == CacheServes(d) /\ ~ParticipantHandled(d) /\ RequesterHandled(d)

(* The transaction ends, the requester fails and gives up the handoff.     *)
EndTransaction(d, s, outcome) ==
  FailDeployment(d, [s EXCEPT !.rep.phase = outcome, !.node = NoNode])

RequesterCancel(d) ==
  LET s == AfterParticipant(d)
  IN  /\ RequesterReads(d)
      /\ s.rep.phase = "Draining" /\ RequestWithdrawn(d)
      /\ todo' = EnsureService(d) \o Release(s.rep.target, d)
                  \o PatchStatus(d, [s EXCEPT !.rep = NoReplacement, !.node = NoNode,
                                               !.phase = "WaitingForGPU"])

RequesterWithdraw(d) ==
  /\ RequesterReads(d)
  /\ AfterParticipant(d).rep.phase = "Activating"
  /\ todo' = EnsureService(d) \o BeginRollback(d, AfterParticipant(d))

(* Waiting for the target to drain, marking it when that was not done yet. *)
TargetMarkable(t) ==
  CandidateAvailable(st[t].rep) /\ WantsActive(t) /\ st[t].phase = "Active"

TargetLost(d, t) ==
  \/ t \notin objects
  \/ /\ ~TargetMarkable(t)
     /\ st[t].rep # NoReplacement /\ st[t].rep.by # d

RequesterTargetLost(d) ==
  LET s == AfterParticipant(d)
      t == s.rep.target
  IN  /\ RequesterReads(d)
      /\ s.rep.phase = "Draining" /\ ~RequestWithdrawn(d)
      /\ \/ TargetLost(d, t)
         \/ st[t].phase = "Failed"
      /\ todo' = EnsureService(d)
                  \o (IF TargetLost(d, t) THEN <<>> ELSE Release(t, d))
                  \o EndTransaction(d, s, "RollbackFailed")

RequesterWait(d) ==
  LET s == AfterParticipant(d)
      t == s.rep.target
  IN  /\ RequesterReads(d)
      /\ s.rep.phase = "Draining" /\ ~RequestWithdrawn(d)
      /\ ~TargetLost(d, t)
      /\ st[t].phase # "Failed"
      /\ todo' = EnsureService(d)
                  \o (IF TargetMarkable(t) THEN MarkTarget(t, d) ELSE <<>>)
                  \o PatchStatus(d, [s EXCEPT !.phase = "WaitingForGPU"])

(* reconcileReplacementRollback: the requester gives the slot back.        *)
RollbackReads(d) ==
  RequesterReads(d) /\ AfterParticipant(d).rep.phase = "RollingBack"

OwnedByOther(t, d) == st[t].rep # NoReplacement /\ st[t].rep.by # d

(* The target is past restoring before the own runtime is looked at.       *)
RollbackTargetGone(d) ==
  LET s == AfterParticipant(d)
      t == s.rep.target
  IN  /\ RollbackReads(d)
      /\ t \notin objects \/ ~WantsActive(t)
      /\ todo' = EnsureService(d) \o Release(t, d) \o EndTransaction(d, s, "RollbackFailed")

RollbackStopsRuntime(d) ==
  LET s == AfterParticipant(d)
      t == s.rep.target
  IN  /\ RollbackReads(d)
      /\ t \in objects /\ WantsActive(t)
      /\ RuntimeExists(d)
      /\ todo' = EnsureService(d) \o DeleteWorkload(d) \o PatchStatus(d, s)

RollbackResumes(d) ==
  LET s == AfterParticipant(d)
      t == s.rep.target
      request == IF st[t].rep.phase = "RollingBack" THEN <<>>
                 ELSE <<[op |-> "RollBack", d |-> t, by |-> d]>>
      release == <<[op |-> "Release", d |-> t, by |-> d]>>
  IN  /\ RollbackReads(d)
      /\ t \in objects /\ WantsActive(t)
      /\ ~RuntimeExists(d)
      /\ todo' = EnsureService(d) \o
           CASE OwnedByOther(t, d) -> EndTransaction(d, s, "RollbackFailed")
             [] ~OwnedByOther(t, d) /\ st[t].phase = "Active" ->
                  request \o release \o EndTransaction(d, s, "RolledBack")
             [] ~OwnedByOther(t, d) /\ st[t].phase = "Failed" ->
                  request \o release \o EndTransaction(d, s, "RollbackFailed")
             [] OTHER -> request \o PatchStatus(d, [s EXCEPT !.phase = "Deactivating"])

(* Past the transaction: what the reconcile goes on with.                  *)
Proceeds(d) == CacheServes(d) /\ ~ParticipantHandled(d) /\ ~RequesterHandled(d)

(* The user asked for Inactive; a requester first releases its target.     *)
ReconcileInactive(d) ==
  /\ Proceeds(d)
  /\ ~WantsActive(d)
  /\ \E drained \in BOOLEAN :
       todo' = EnsureService(d)
               \o (IF AfterParticipant(d).rep.target # NoDep
                     THEN Release(AfterParticipant(d).rep.target, d) ELSE <<>>)
               \o Deactivation(d, AfterRequester(d), drained)

Activates(d) == Proceeds(d) /\ WantsActive(d)
ActivationStatus(d) == [AfterRequester(d) EXCEPT !.drain = "Nil"]

(* Faulty variant: the transaction is looked for in the wrong phase.       *)
InHandoffDraining(s) == s.rep.target # NoDep /\ s.rep.phase = "Draining"

InHandoff(s) == s.rep.target # NoDep /\ s.rep.phase = "Activating"

(* handleGPUCapacityError with an owned handoff, Queue and Reject.         *)
CapacityRefused(d) ==
  LET s == ActivationStatus(d)
      unassigned == [s EXCEPT !.node = NoNode]
  IN  /\ Activates(d)
      /\ GPUCount[d] > 0
      /\ ~GPUFits(d)
      /\ InHandoff(s) \/ spec[d].whenFull \notin ReplacementPolicies
      /\ todo' = EnsureService(d) \o
           CASE InHandoff(s) -> BeginRollback(d, s)
             [] ~InHandoff(s) /\ spec[d].whenFull = "Queue" ->
                  DeleteWorkload(d) \o PatchStatus(d, [unassigned EXCEPT !.phase = "WaitingForGPU"])
             [] OTHER -> TearDownAndFail(d, unassigned)

(* startReplacement: record the own intent first, then mark the target.    *)
StartReplacement(d) ==
  LET s == ActivationStatus(d)
  IN  /\ Activates(d)
      /\ GPUCount[d] > 0
      /\ ~GPUFits(d)
      /\ ~InHandoff(s) /\ spec[d].whenFull \in ReplacementPolicies
      /\ \/ /\ GPUCount[d] # 1 \/ Candidates(d) = {}
            /\ todo' = EnsureService(d) \o TearDownAndFail(d, [s EXCEPT !.node = NoNode])
         \/ /\ GPUCount[d] = 1
            /\ \E t \in FirstCandidates(d) :
                 todo' = EnsureService(d) \o DeleteWorkload(d) \o
                   PatchStatus(d, [s EXCEPT !.phase = "WaitingForGPU", !.node = st[t].node,
                     !.rep = [phase |-> "Draining", target |-> t, by |-> NoDep, gen |-> gen[d]]])
                   \o MarkTarget(t, d)

(* A CPU-only deployment whose cache node is missing or not schedulable.   *)
NodeRefused(d) ==
  /\ Activates(d)
  /\ GPUCount[d] = 0
  /\ nodes[CacheNode[d]] = "Down"
  /\ todo' = EnsureService(d) \o DeleteWorkload(d) \o
       PatchStatus(d, [ActivationStatus(d) EXCEPT !.node = NoNode, !.phase = "WaitingForCapacity"])

Admitted(d) ==
  /\ Activates(d)
  /\ IF GPUCount[d] > 0 THEN GPUFits(d) ELSE nodes[CacheNode[d]] # "Down"

(* handleRuntimePreflightError: constraints fail, missing compute follows  *)
(* the full-capacity policy.                                               *)
PreflightRefused(d) ==
  LET s == [ActivationStatus(d) EXCEPT !.node = NoNode]
  IN  /\ Admitted(d)
      /\ Preflight(d) \in {"TooSmall", "Constrained"}
      /\ todo' = EnsureService(d) \o
           IF Preflight(d) = "TooSmall" /\ spec[d].whenFull = "Queue"
             THEN DeleteWorkload(d) \o PatchStatus(d, [s EXCEPT !.phase = "WaitingForCapacity"])
             ELSE TearDownAndFail(d, s)

(* ensureRuntimeDeployment and projectRuntimeDeployment.  A terminating    *)
(* Deployment is found, left as it is and projected like any other.        *)
ActivateRuntime(d) ==
  LET s == [ActivationStatus(d) EXCEPT !.node = CacheNode[d]]
  IN  /\ Admitted(d)
      /\ Preflight(d) = "Fit"
      /\ todo' = EnsureService(d) \o
           CASE wl[d] = "None" ->
                  <<[op |-> "Apply", d |-> d]>> \o PatchStatus(d, [s EXCEPT !.phase = "Activating"])
             [] wl[d] = "Starting" -> PatchStatus(d, [s EXCEPT !.phase = "Activating"])
             [] wl[d] = "Ready" ->
                  PatchStatus(d, [s EXCEPT !.phase = "Active",
                    !.rep.phase = IF InHandoff(s) THEN "Succeeded" ELSE @])
             [] wl[d] = "Stalled" ->
                  IF InHandoff(s) THEN BeginRollback(d, s) ELSE FailDeployment(d, s)

ReconcilePlan(d) ==
  \/ ReconcileFailed(d)
  \/ ReconcileCacheCreated(d)
  \/ ReconcileCacheNotReady(d)
  \/ ParticipantDrain(d)
  \/ ParticipantDisplaced(d)
  \/ RequesterCancel(d)
  \/ RequesterWithdraw(d)
  \/ RequesterTargetLost(d)
  \/ RequesterWait(d)
  \/ RollbackTargetGone(d)
  \/ RollbackStopsRuntime(d)
  \/ RollbackResumes(d)
  \/ ReconcileInactive(d)
  \/ CapacityRefused(d)
  \/ StartReplacement(d)
  \/ NodeRefused(d)
  \/ PreflightRefused(d)
  \/ ActivateRuntime(d)

Reconcile(d) ==
  /\ todo = <<>>
  /\ d \in objects
  /\ ReconcilePlan(d)
  /\ UNCHANGED <<cluster, edits, faults>>

-----------------------------------------------------------------------------
(* Issuing the writes.                                                     *)

W == Head(todo)
Issue(ops) == todo # <<>> /\ W.op \in ops

WriteService ==
  /\ Issue({"Attach", "Detach"})
  /\ IF W.d \in objects
       THEN /\ svc' = IF W.op = "Attach" THEN svc \cup {W.d} ELSE svc \ {W.d}
            /\ todo' = Tail(todo)
       ELSE todo' = <<>> /\ UNCHANGED svc
  /\ UNCHANGED <<objects, spec, gen, st, wl, terminating, cache, nodes, edits, faults>>

(* Creating the Deployment of a deleted owner leaves it to the collector.  *)
WriteWorkload ==
  /\ Issue({"Apply", "Delete"})
  /\ todo' = Tail(todo)
  /\ IF W.op = "Apply"
       THEN /\ wl' = [wl EXCEPT ![W.d] = "Starting"]
            /\ terminating' = IF W.d \in objects THEN terminating ELSE terminating \cup {W.d}
       ELSE /\ terminating' = IF RuntimeExists(W.d) THEN terminating \cup {W.d} ELSE terminating
            /\ UNCHANGED wl
  /\ UNCHANGED <<objects, spec, gen, st, svc, cache, nodes, edits, faults>>

WriteCache ==
  /\ Issue({"CreateCache"})
  /\ cache' = [cache EXCEPT ![W.d] = IF @ = "Absent" THEN "Pending" ELSE @]
  /\ todo' = Tail(todo)
  /\ UNCHANGED <<objects, spec, gen, st, wl, terminating, svc, nodes, edits, faults>>

(* Faulty variant: the owner is kept when the target is released.          *)
ReleasedKeepsOwner(t, r) == [st[t] EXCEPT !.drain = "Nil"]

(* releaseReplacementTarget, markReplacementTarget and the rollback request *)
(* patch the target's status; a target deleted meanwhile is an error,      *)
(* except to a release.                                                    *)
Released(t, r) ==
  IF st[t].rep.by # r THEN st[t]
  ELSE [st[t] EXCEPT !.rep = NoReplacement,
                     !.drain = IF WantsActive(t) THEN "Nil" ELSE @]

TargetPatched(w) ==
  CASE w.op = "Release" -> Released(w.d, w.by)
    [] w.op = "Mark" ->
         [st[w.d] EXCEPT !.rep = [phase |-> "Draining", target |-> NoDep, by |-> w.by, gen |-> 0]]
    [] w.op = "RollBack" ->
         [st[w.d] EXCEPT !.rep.phase = "RollingBack", !.rep.by = w.by]

WriteTarget ==
  /\ Issue({"Release", "Mark", "RollBack"})
  /\ IF W.d \in objects
       THEN /\ st' = [st EXCEPT ![W.d] = TargetPatched(W)]
            /\ todo' = Tail(todo)
       ELSE /\ UNCHANGED st
            /\ todo' = IF W.op = "Release" THEN Tail(todo) ELSE <<>>
  /\ UNCHANGED <<objects, spec, gen, wl, terminating, svc, cache, nodes, edits, faults>>

WriteStatus ==
  /\ Issue({"PatchStatus"})
  /\ IF W.d \in objects
       THEN st' = [st EXCEPT ![W.d] = W.new] /\ todo' = Tail(todo)
       ELSE todo' = <<>> /\ UNCHANGED st
  /\ UNCHANGED <<objects, spec, gen, wl, terminating, svc, cache, nodes, edits, faults>>

IssueWrite == WriteService \/ WriteWorkload \/ WriteCache \/ WriteTarget \/ WriteStatus

-----------------------------------------------------------------------------
(* The environment: users, the kubelet, the cache controller, nodes, time. *)

Fault(kind) == kind \in FaultKinds /\ faults < MaxFaults /\ faults' = faults + 1

(* An API error, a conflict or an operator crash: the rest is not written. *)
ReconcileError ==
  /\ todo # <<>>
  /\ Fault("Error")
  /\ todo' = <<>>
  /\ UNCHANGED <<cluster, edits>>

Edit(d) ==
  /\ d \in objects
  /\ edits < MaxEdits
  /\ \E body \in SpecBodies \ {spec[d]} : spec' = [spec EXCEPT ![d] = body]
  /\ gen' = [gen EXCEPT ![d] = @ + 1]
  /\ edits' = edits + 1
  /\ UNCHANGED <<objects, st, wl, terminating, svc, cache, nodes, todo, faults>>

(* The object is deleted; the collector takes its Service and Deployment.  *)
Remove(d) ==
  /\ d \in objects
  /\ Fault("Remove")
  /\ objects' = objects \ {d}
  /\ svc' = svc \ {d}
  /\ terminating' = IF RuntimeExists(d) THEN terminating \cup {d} ELSE terminating
  /\ UNCHANGED <<spec, gen, st, wl, cache, nodes, todo, edits>>

WorkloadChanges(d, from, to) ==
  /\ wl[d] = from /\ d \notin terminating
  /\ wl' = [wl EXCEPT ![d] = to]
  /\ UNCHANGED <<objects, spec, gen, st, terminating, svc, cache, nodes, todo, edits>>

WorkloadReady(d) == WorkloadChanges(d, "Starting", "Ready") /\ UNCHANGED faults

(* ProgressDeadlineExceeded or ReplicaFailure; a late pod may still come up. *)
WorkloadStalls(d) == WorkloadChanges(d, "Starting", "Stalled") /\ Fault("Stall")
WorkloadRecovers(d) == WorkloadChanges(d, "Stalled", "Ready") /\ UNCHANGED faults

(* A pod crashes or fails its readiness probe.                             *)
WorkloadUnready(d) == WorkloadChanges(d, "Ready", "Starting") /\ Fault("Unready")

(* Foreground deletion ends: pods and Deployment are gone.                 *)
WorkloadGone(d) ==
  /\ d \in terminating
  /\ wl' = [wl EXCEPT ![d] = "None"]
  /\ terminating' = terminating \ {d}
  /\ UNCHANGED <<objects, spec, gen, st, svc, cache, nodes, todo, edits, faults>>

(* Time is read once per reconcile, so it passes between reconciles.       *)
DrainElapses(d) ==
  /\ todo = <<>>
  /\ st[d].drain = "Running"
  /\ st' = [st EXCEPT ![d].drain = "Elapsed"]
  /\ UNCHANGED <<objects, spec, gen, wl, terminating, svc, cache, nodes, todo, edits, faults>>

CacheReady(d) ==
  /\ cache[d] \in {"Pending", "Downloading"}
  /\ cache' = [cache EXCEPT ![d] = "Ready"]
  /\ UNCHANGED <<objects, spec, gen, st, wl, terminating, svc, nodes, todo, edits, faults>>

CacheFault(d) ==
  /\ Fault("Cache")
  /\ \E phase \in CachePhases \ {cache[d]} : cache' = [cache EXCEPT ![d] = phase]
  /\ UNCHANGED <<objects, spec, gen, st, wl, terminating, svc, nodes, todo, edits>>

NodeChanges(n) ==
  /\ Fault("Node")
  /\ \E state \in NodeStates \ {nodes[n]} : nodes' = [nodes EXCEPT ![n] = state]
  /\ UNCHANGED <<objects, spec, gen, st, wl, terminating, svc, cache, todo, edits>>

Next ==
  \/ \E d \in Deployments : Reconcile(d)
  \/ IssueWrite
  \/ ReconcileError
  \/ \E d \in Deployments :
       \/ Edit(d) \/ Remove(d)
       \/ WorkloadReady(d) \/ WorkloadStalls(d) \/ WorkloadRecovers(d)
       \/ WorkloadUnready(d) \/ WorkloadGone(d)
       \/ DrainElapses(d) \/ CacheReady(d) \/ CacheFault(d)
  \/ \E n \in Nodes : NodeChanges(n)

Spec == Init /\ [][Next]_vars

(* Every deployment is reconciled again and again (watches, RequeueAfter,  *)
(* resync) from a FIFO work queue, hence strong fairness although one      *)
(* reconcile runs at a time.  Pods start or stall, deletions complete,     *)
(* clocks advance, downloads end.                                          *)
Fairness ==
  /\ WF_vars(IssueWrite)
  /\ \A d \in Deployments :
       /\ SF_vars(Reconcile(d))
       /\ WF_vars(WorkloadReady(d))
       /\ WF_vars(WorkloadGone(d))
       /\ SF_vars(DrainElapses(d))
       /\ WF_vars(CacheReady(d))

FairSpec == Spec /\ Fairness

-----------------------------------------------------------------------------
(* Every state the controller and its environment reach is well formed: a  *)
(* status written by any of the patches is a Status, a cache phase is      *)
(* never projected into a deployment phase that does not exist.            *)
TypeOK ==
  /\ objects \subseteq Deployments
  /\ spec \in [Deployments -> SpecBody]
  /\ gen \in [Deployments -> Nat]
  /\ st \in [Deployments -> Status]
  /\ wl \in [Deployments -> Workload]
  /\ terminating \subseteq Deployments
  /\ svc \subseteq Deployments
  /\ cache \in [Deployments -> CachePhase]
  /\ nodes \in [Nodes -> NodeState]
  /\ todo \in Seq(Write)
  /\ edits \in Nat
  /\ faults \in Nat

-----------------------------------------------------------------------------
(* Safety.                                                                 *)

Holders(n) == {x \in Deployments : RuntimeExists(x) /\ CacheNode[x] = n}

(* The runtime Deployments on a node, terminating ones included, never     *)
(* request more GPUs than it has: what reserveGPU is for.                  *)
NoOversubscription ==
  \A n \in Nodes : MapThenSumSet(LAMBDA x : GPUCount[x], Holders(n)) <= Capacity[n]

(* While a replacement is open its slot is spoken for: only the requester  *)
(* and its target may run on it.  gpuAllocations charges the slot to the   *)
(* requester from the intent on and until the rollback has ended.          *)
HandoffReserved ==
  \A n \in Nodes :
    LET requesters == {r \in objects : ReservesHandoff(r) /\ st[r].node = n}
        parties == requesters \cup {st[r].rep.target : r \in requesters}
    IN  requesters # {} =>
          MapThenSumSet(LAMBDA x : GPUCount[x], Holders(n) \ parties)
            + Cardinality({st[r].rep.target : r \in requesters}) <= Capacity[n]

(* requestGeneration: a requester waits for its target or activates on its *)
(* slot only for the very spec the target was selected for.  An edit is    *)
(* answered by a cancellation or a rollback, never by going on.            *)
TransactionMatchesSpec ==
  \A d \in Deployments :
    /\ st[d].rep.target # NoDep /\ st[d].rep.phase \in {"Draining", "Activating"}
    /\ st[d].phase \in {"WaitingForGPU", "Activating"}
    => st[d].rep.gen = st[d].obs

(* The Service of a draining deployment selects no pods, whatever else     *)
(* happened to it: runtimeServiceShouldDetach is asked before every patch. *)
DrainingDetached ==
  \A d \in objects : st[d].phase = "Draining" => d \notin svc

(* A deployment that failed has no replacement open: a capacity error or a *)
(* stalled runtime in a handoff leads to beginReplacementRollback, never   *)
(* to a bare failDeployment that leaves the displaced deployment waiting.  *)
FailedEndsTransaction ==
  \A d \in objects : st[d].phase = "Failed" => ~ReservesHandoff(d)

(* A model that is Active, wanted, valid and cached on a fit node loses    *)
(* its runtime only after its status has left Active for Draining: what    *)
(* the gateway needs to stop routing to it first.                          *)
DrainBeforeTeardown ==
  [][\A d \in objects :
       /\ d \in terminating' \ terminating
       /\ d \in objects'
       /\ WantsActive(d) /\ spec[d].valid /\ cache[d] = "Ready"
       /\ Preflight(d) = "Fit"
       => st[d].phase # "Active"]_vars

(* A replacement is reported RolledBack only once the target is Active and *)
(* released, and the requester's own runtime is gone.                      *)
RolledBackRestored ==
  [][\A d \in objects :
       st'[d].rep.phase = "RolledBack" /\ st[d].rep.phase # "RolledBack"
         => LET t == st[d].rep.target
            IN  /\ ~RuntimeExists(d)
                /\ t \in objects => st[t].phase = "Active" /\ st[t].rep.by # d]_vars

(* The rollback reservation can be consumed by the displaced deployment:   *)
(* its restoration fails only for a reason of its own.                     *)
RestorationNotRefused ==
  [][\A t \in objects :
       /\ st[t].phase # "Failed" /\ st'[t].phase = "Failed"
       /\ spec[t].valid /\ cache[t] = "Ready" /\ Preflight(t) = "Fit"
       /\ \E r \in objects : st[r].rep.phase = "RollingBack" /\ st[r].rep.target = t
       => wl[t] = "Stalled"]_vars

-----------------------------------------------------------------------------
(* Liveness under Fairness.                                                *)

(* A replacement does not stay open: the requester succeeds, cancels or    *)
(* finishes its rollback, through whatever stalls and lost writes.         *)
TransactionEnds ==
  \A d \in Deployments : ReservesHandoff(d) ~> ~ReservesHandoff(d) \/ d \notin objects

(* A displaced deployment asked to resume by a rollback is served again,   *)
(* or fails visibly, unless the user gave it up meanwhile: the slot its    *)
(* requester still reserves is consumable by it.                           *)
DisplacedRestored ==
  \A d \in Deployments :
    st[d].rep.phase = "RollingBack" /\ st[d].rep.by # NoDep
      ~> \/ st[d].phase \in {"Active", "Failed"}
         \/ ~WantsActive(d) \/ d \notin objects

(* The controller comes to rest: reconciles stop finding things to write,  *)
(* so patchDeploymentStatus and ensureService, which compare before they   *)
(* write, do not keep two participants rewriting each other.               *)
Settles == <>[](todo = <<>>)

(* A deployment that in the end is the only one wanted gets the slot, or   *)
(* fails: deactivation frees it and a WaitingForGPU reconcile finds it.    *)
SlotReassigned ==
  \A d \in Deployments :
    <>[](/\ d \in objects /\ WantsActive(d)
         /\ \A x \in objects \ {d} : ~WantsActive(x))
      => <>[](st[d].phase \in {"Active", "Failed"})

=============================================================================
