# InferOps: a TLA+ verification project

InferOps serves language models on Kubernetes. A user declares a
`ModelDeployment`; the operator gives it a verified model cache on a node, a GPU
slot and a runtime Deployment, and the gateway routes OpenAI-style requests to
it. This directory models the parts where that can go wrong in ways a test hardly
reaches, checks the models with TLC, and proves most of their safety properties
with TLAPS for every value of the constants.

## The system

| Part | Source | Interacts through |
| --- | --- | --- |
| ModelDeployment validator and lifecycle controller | `operator/controllers/modeldeployment_*.go` | spec and status of ModelDeployments, runtime Deployments, Services, ModelCaches |
| GPU planner, runtime preflight | `operator/internal/scheduler/gpu.go`, `preflight.go` | called by the lifecycle controller |
| ModelCache controller, cache planner, cache contract | `operator/controllers/modelcache_controller.go`, `internal/scheduler/planner.go`, `internal/cachecontract` | ModelCache status, downloader Jobs, node-local paths |
| Drain checker | `operator/controllers/drain_checker.go` | asks each ready gateway for its drain status |
| Metrics scraper, replica planning | `runtime_metrics_scraper.go`, lifecycle controller | runtime metrics, replica counts, GPU slots |
| ModelRuntime controller and resolver | `modelruntime_*.go`, `internal/runtime` | ModelRuntime status |
| Resources, status, events, metrics, templates, paths | `operator/internal/*` | object construction and reporting |
| Gateway: discovery, routing registry, proxy | `gateway/internal/*` | reads ModelDeployments, Services, EndpointSlices; serves requests and the drain status |
| Downloader and engine images | `runtimes/*` | the cache path; the runtime pod |
| Dashboard, CLI, Python SDK, charts, scripts | `dashboard`, `cli`, `sdk`, `deploy`, `scripts` | clients and packaging |

`PROJECT.json` lists each part with its status, the hazards at the source lines
where they bite, and the source lines of every definition.

## Modules

| Module | Models |
| --- | --- |
| `ModelDeploymentLifecycle` | the lifecycle controller: cache gate, GPU reservation, activation, drain, failure and the replacement transaction |
| `GPUSlotLease`, `ModelDeploymentSlots` | what the controller promises about GPU slots, and the refinement mapping onto it |
| `ReplicaScaling` | the part of the same controller that plans replicas, scales to zero and holds rollouts back |
| `CachePlanner` | placement of a cache on a node, as operators |
| `ModelCacheController` | the ModelCache controller, its downloader Jobs and the disks they fill |
| `GatewayBackend` | `backendFor`, the routing decision of a gateway; shared by the next two |
| `GatewayDiscovery` | the discovery loop of one gateway, in time |
| `GatewayDrain` | a drain across processes: operator, drain checker, several gateways, requests |
| `GatewayRouter` | backend selection at one route prefix |
| `GatewayRateLimiter` | the token bucket of one backend |
| `ModelDeploymentPlans`, `ModelDeploymentLifecycleProofs`, `ReplicaScalingInvariant`, `ReplicaScalingProofs`, `ModelCacheProofs`, `GatewayDrainProofs`, `GatewayProofs` (router, rate limiter, discovery) | the theorems about these modules |
| `SumLemmas` | the lemmas about finite sums and maxima that the proofs share |
| `MC...` | the small instances TLC checks |

Definitions introduced as a "faulty variant" are plausible bugs. They are used
nowhere in a specification; replacing the real definition by one of them makes TLC
report the property it is paired with in `PROJECT.json`.

### ModelDeploymentLifecycle

| Variable | In the code |
| --- | --- |
| `objects`, `spec`, `gen` | the ModelDeployments in the API server, the part of their specs the controller decides on, `metadata.generation` |
| `st` | `status`: phase, assigned node, observed generation, `replacement`, `drainStartedAt` against the drain timeout, and the two conditions read back |
| `wl`, `terminating` | the runtime Deployment of each deployment as `projectRuntimeDeployment` classifies it, and whether foreground deletion has begun |
| `svc` | deployments whose Service still carries its pod selector |
| `cache`, `nodes` | ModelCache phases; what the GPU planner and the preflight see of a node |
| `todo` | the API writes the running reconcile has decided on and not yet issued |

A reconcile is the step `Reconcile(d)`, which reads and decides, followed by one
step per API write (`WriteService`, `WriteWorkload`, `WriteCache`, `WriteTarget`,
`WriteStatus`). The decision is `ReconcilePlan(d)`: 18 disjuncts, one per way
through `reconcile`, `reconcileReplacementParticipant`,
`reconcileReplacementRequester`, `reconcileReplacementRollback`,
`handleGPUCapacityError`, `startReplacement` and `projectRuntimeDeployment`, in
the order of the code. Each stage that rewrites the in-memory status before the
next one reads it is an operator (`Validated`, `AfterParticipant`,
`AfterRequester`, `ActivationStatus`). `ReconcileError` drops the rest of `todo`:
an API error, a conflict and an operator crash all look like this, because
everything the controller remembers is in status. `MaxConcurrentReconciles: 1`
is the guard `todo = <<>>`.

The environment edits and deletes deployments, starts, stalls, recovers and
loses pods, ends foreground deletions, finishes and breaks caches, changes nodes
and lets drain timeouts elapse. Its faults are drawn from `FaultKinds` and
counted against `MaxFaults`.

What is abstracted:

- A reconcile reads when it starts. The controller reads as it goes, but no
  other reconcile runs, so only user, pod, cache and node events could fall
  between its reads. Reads are of the current cluster; what lagging reads do is
  modelled for the ModelCache controller only.
- One replica per deployment and the Recreate rollout (the rest is in
  `ReplicaScaling`), one namespace. A deployment is one UID.
- Ages are left out: under `ReplaceOldest` any candidate may be the oldest.
- Whether a spec is valid, and whether it fits its node, are fields of the spec.
- The answer of the drain checker is any Boolean; an error of it is
  `ReconcileError`. How the answer comes about is `GatewayDrain`.
- Deletion of a ModelDeployment takes effect at once. The garbage collector then
  deletes its runtime in the foreground.
- ConfigMaps, PodDisruptionBudgets, events, metrics, condition texts and errors
  about objects owned by somebody else are left out.
- `NoOversubscription` counts runtime Deployments. Kubernetes would leave the
  pod of a surplus Deployment pending; the controller's promise is not to create it.

### The slot lease

`GPUSlotLease` says what the transaction is for, without statuses and writes:
clients start and stop on the slots of a node; a requester may announce a
takeover from a target; from then on only the two of them may start on the slots
that are spoken for, the requester until it turns back, the target after that.
`ModelDeploymentSlots` maps it: a client runs while its runtime Deployment exists,
a terminating one included; a handoff is a `status.replacement` that
`gpuAllocations` reserves for, and it has turned back in phase `RollingBack`.
`ImplementsLease` is the lease's specification as a property of the controller.

### ReplicaScaling

One reconcile from `planRuntimeReplicas` to `projectRuntimeDeployment`: the
decision (`Desired`, `CapByGPUCapacity`, `Rollout`) is one step, the write of the
runtime Deployment and the status patch are two more, and a failed write drops
what follows. Status, generation, template, runtime Deployment with its pods, the
requests on each replica and the age of `lastActivityTime` are the state. A scrape
answers for one replica (`Samples`), as the scraper asks the Service. All
deployments are GPU deployments on one node with the Queue policy; a node that is
lost and a runtime without progress are in the lifecycle module.

### CachePlanner and ModelCacheController

`CachePlanner` is `Plan`: reservations with saturating sums, path conflicts,
filtering and ranking. Selectors, taints and resources are one flag of a node.

`ModelCacheController` has one disjunct of `ReconcilePlan(c)` per branch of
`reconcile`, in its order, and one step per status patch, Job creation and Job
deletion. A status patch is a JSON merge patch: it carries only the fields that
differ from the copy the reconcile read (`MergePatch`), and the list of conditions
is one field. With `Lagging` the controller reads `view`, which follows the API
server by `Deliver` steps. Jobs run pods that publish an artifact with its marker
(`Marker`, `PodPublishes`, `JobFinishes`, from the downloader), fail and expire;
nodes are cordoned, deleted and registered under another UID; a Secret comes and
goes. A hash is the record of what it hashes. Inventory metrics are left out.

### The gateway

`GatewayBackend` is `backendFor` on the fields it reads (its header lists them),
and `MarkReadyUnavailable`.

`GatewayDiscovery` is `Run` and `Sync`: three lists at three moments, each of
which may fail or wait for the deadline of its context, publication, the backoff
that doubles up to the interval, and the staleness test, which runs only when a
Sync has failed. Time is counted in ticks. Phases, gates, Service, endpoints and
the identity of one deployment change in between.

`GatewayDrain` composes the deactivation steps of the operator, the
`EndpointSliceDrainChecker`, which polls the ready gateways in address order and
reads registry and request count at two moments, and in each gateway a Sync,
the readiness probe, and requests that are selected, counted, forwarded and done.
The timers of a Sync are left to `GatewayDiscovery`: here a snapshot may turn stale
at any time.

`GatewayRouter` is `Select`, `Replace` and `MarkReadyUnavailable` with the
round-robin scores they keep; the request counts of the least-loaded strategy are
inputs of `Select`. `GatewayRateLimiter` is `allow`, with the clock read before the
lock; tokens are counted in sixtieths so that rates per minute are exact, and the
rounding of float64 in the last place is not modelled.

## Runs

| Run | Instance | Checked | States |
| --- | --- | --- | --- |
| `handoff` | 3 deployments, 1 slot, one that replaces the oldest against two under Queue or Reject; 1 edit, which may make a second one replace, 2 of stall or removal | `HandoffReserved`, `NoOversubscription`, `FailedEndsTransaction`, `DrainBeforeTeardown` | 1,144,255 |
| `lost_writes` | the same with Queue, edits to the policy by priority and 2 of stall, removal or lost writes | `HandoffReserved`, `TransactionMatchesSpec`, `DrainingDetached`, `RolledBackRestored`, `ImplementsLease` | 781,234 |
| `environment` | 2 GPU and 1 CPU deployment, caches absent at first; 1 edit, possibly to an invalid or unplaceable spec, 1 cache, node or pod fault | `TypeOK`, `NoOversubscription` | 1,728,226 |
| `liveness` | 2 deployments, 1 slot; 1 edit, 2 of stall or lost writes; fair | `TransactionEnds`, `DisplacedRestored`, `Settles`, `SlotReassigned` | 24,906 |
| `chained_handoff` | 4 deployments, 2 slots, 1 stall | violates `NoOversubscription` | |
| `cache` | 2 caches, 2 nodes, 2 paths; 2 edits or deletions, 1 failed download, expired Job, node event or missing Secret; fresh reads | `CapacityRespected`, `OneWriter`, `ReadyOnDisk`, `NoSharedPlacement` | 1,209,575 |
| `cache_liveness` | 2 caches, 1 node, the second a rival for the path, for the capacity, or invalid; 1 retry token or deletion, 1 lost write, failed download or expired Job; lagging reads; fair | `RetryHonoured`, `DownloadEnds`, `Settles`, `ReadyOnDisk` | 142,313 |
| `gateway_discovery` | interval and sync timeout of 3 ticks, 2 changes, 2 incarnations; fair | `TypeOK`, `StopsRouting`, `Converges` | 865,789 |
| `gateway_drain` | 2 gateways; the model is unwanted once; 1 of request, failed sync, failed poll or stale snapshot; fair | `AnsweredStaysClosed`, `OnlyUncountedLate`, `DrainEnds` | 1,400,226 |
| `router` | 3 backends of weights 0, 1 and 2 that come and go; loads 0 and 1 | `ScoresBounded`, `NoStarvation`, `ExactShare` | 450,794 |
| `rate_limit` | 3 concurrent clients, 6 seconds, 2 policies, 1 change of policy | `WithinRate`, `RetryKept` | 754,562 |
| `replicas` | 6 clusters (`AllSetups`): contended scale-up, scale-to-zero beside a neighbour, fixed replicas with BlueGreen and Rolling rollouts, one and two idle replicas, two sleepers and room for one; fair | `NoOverbooking`, `ServingKept`, `RolloutHasRoom`, `LongRequestKept`, `HeldAtZero`, `ComesToRest` | 478,597 |

Each property is explained where it is defined. The type invariants that are not
in the table hold on the instances of their modules too.

The cache planner is a function, so its statements are assumptions of
`MCCachePlanner`, which TLC evaluates when it starts the cache runs. `PlanExact`:
over every list of two other caches on two nodes, with 7 as the largest integer, the
planner places a cache exactly when sums without overflow say that a node can take
it. `PlacementSticky`: planning again finds the recorded placement while its node
can still take it.

Why these bounds are enough for the cases meant:

- A transaction has a requester and a target, so two deployments exhibit it and
  the third is the one that could steal the slot. One stall makes a rollback, the
  second fault hits that rollback. One edit withdraws a request or a wish at any
  point of it. One slot is the contended case; two slots are needed for two
  transactions to overlap, which is `chained_handoff`. The passing lifecycle runs
  therefore say nothing about two or more slots.
- Two caches exhibit every conflict of paths and capacity. One node holds a
  large and a small cache, the other only one large one, so a cache is placed,
  refused and moved. Two edits change a spec and change it back, or delete.
- `StopsRouting` bounds an age by `4 * 3 + 2 * 3 = 18` ticks, and `AgeBound`
  reaches it. Two changes of the cluster may fall between any two lists.
- In `gateway_drain` requests and failures share one budget. With a request and a
  failure in one behaviour the instance has 3,677,086 states; it was checked
  separately, with the same verdict.
- `NoStarvation` allows fewer than 16 turns for a weight of 1, and `MaxSkips` is
  17; a round of `ExactShare` takes at most 6 selections, `MaxSelects` is 7.
- In `rate_limit` three clients let two requests overtake one.
- Each cluster of `replicas` has two deployments that need more slots than there
  are, or idle timeouts that elapse within the loads that are explored.

### The violated run

`chained_handoff`. b displaces a, stalls and rolls back; a, being restored, finds
b's runtime still terminating and starts to replace c. a is left out of the
allocations as b's target and c as a's, so e is admitted: three runtimes on two
slots. `docs/gpu-scheduling.md:24` says serialised reconciliation prevents
oversubscription.

### Where stronger statements fail

The conditions in the instances and properties above are not arbitrary. For each
there is an instance without it, in which TLC finds the statement of the
repository's documentation violated. These configurations are kept beside the
others; each takes less than a minute.

| Configuration (module) | Statement | What happens |
| --- | --- | --- |
| `preflight_strands` (`MCModelDeploymentLifecycle`) | `FailedEndsTransaction`; `docs/crds.md:191` promises an attempt to restore the displaced runtime | `handleRuntimePreflightError` fails a requester whose target is already drained, without a rollback |
| `unmarked_target` (same) | `DrainBeforeTeardown`; `docs/architecture.md:134` marks a deployment Draining first | the intent is recorded and the mark of the target lost: the target counts the requester's reservation against itself and deletes its runtime while Active |
| `rollback_refused` (same) | `RestorationNotRefused`; `docs/gpu-scheduling.md:52` says the displaced deployment may consume the reservation | it counts the requester's terminating runtime, and under Reject fails for good |
| `stale_list` (`MCModelCacheController`) | `NoSharedPlacement`; `modelcache_controller.go:872` "so two caches cannot select the same node/path from the same stale list" | the second reconcile reads a list from before the first placement |
| `stale_ready` (same) | `ReadyOnDisk`; `docs/architecture.md:30` "only after the Job completes with the expected input hash" | after an edit, a reconcile that read an old copy patches node and conditions under a phase that has become Ready |
| `path_conflict` (same) | `PathConflictHasOwner`; `planner.go:35` "another cache already owns the same path" | two pinned caches are refused for ever, each for the location the other has recorded but lost |
| `ready_identity` (same) | `ReadyImmutable`; `modelcache_controller.go:195` "Ready cache identity is immutable" | an invalid spec clears the condition that remembers it |
| `retry_once` (same) | `RetryOnce`; `docs/crds.md:419` "the same value causes exactly one attempt" | the handled token is on the Job only, and the Job expires |
| `stale_registry` (`GatewayDiscovery`) | `StaleIsUnavailable`; `docs/routing.md:66`, three intervals | staleness is looked at only when a Sync returns; the bound that holds is `StopsRouting` |
| `drain_contract` (`GatewayDrain`) | `DrainMeansIdle`; `drain_checker.go:21` "finished forwarding requests already admitted" | a request is selected before the gateway hears of the drain and counted after it answered |
| `stale_drain` (same) | `CompleteMeansObserved`; `drain_checker.go:67` | in a second drain a gateway answers for the first |
| `rollout_overbook` (`MCReplicaScaling`) | `SlotsFit`; `docs/autoscaling.md:24` "does not overbook GPUs" | a scale-down of a Rolling deployment is blocked, its patched status gives the slots away |
| `status_lost` (same) | `SlotsFit`; `docs/gpu-scheduling.md:22` on interrupted status writes | the old reservation in status hides the bigger runtime |
| `edit_overbook` (same) | `SlotsFit`; `docs/gpu-scheduling.md:24` | lowering maxReplicas releases slots before the runtime has shrunk |
| `surge_dropped` (same) | `SurgeReserved`; `docs/gpu-scheduling.md:83` | readiness does not look at updated replicas, so the reservation ends during the rollout |
| `wake_reverted` (same) | `ZeroAfterTimeout`; `docs/crds.md:122` | an edit wakes a deployment; its old activity time sends it back at the first scrape |

Four more conditions have no instance of their own. `ServingKept` is stated for
`DemandOnly`, because a Rolling deployment that is not ready gets a surge reservation
without a capacity check, which can evict a serving neighbour. `LongRequestKept` is
about a maximum of one replica, because the scrape of an idle replica stands for a
busy one. `OneWriter` needs that no write is lost and no running cache turns
invalid. `Settles` of the caches needs that they do not ask for two revisions of one
path while reads lag: two failed ones can then alternate their reasons.

## Fairness

- Lifecycle: strong fairness of each `Reconcile(d)`. The controller watches the
  objects it depends on, returns `RequeueAfter` while it waits, retries errors, and
  the work queue is first in, first out; strong, because a reconcile of another
  deployment disables it for a while. Writes of a running reconcile are issued
  (weak). Pods that can start do, foreground deletion ends and downloads end (weak):
  these are Kubernetes' part. The drain clock advances (strong, because it is read
  only between reconciles). Nothing is assumed of edits, faults, the recovery of a
  stalled pod, or the gateways ever reporting a drain. The `liveness` run has no
  cache faults: a requester that loses its cache while rolling back drops the
  transaction (`reconcile`, lines 298-312 of the lifecycle controller) and may win
  the slot again before the displaced deployment does.
- Cache: the same for `Reconcile(c)` and its writes; the informer delivers, and
  Jobs publish, finish and go away (weak). Nothing is assumed of failures, expiry or
  users.
- Discovery: time advances, the timer fires, and a Sync returns, because its context
  has a deadline (weak). How often it succeeds is not assumed; `Converges` is about
  behaviours in which the readiness probe ends up answering yes.
- Drain: the operator's queue retries, each gateway goes on syncing and is probed,
  admitted requests are counted and end (weak). The timeout is not assumed to fire, so
  `DrainEnds` does not rest on it.
- Replicas: each deployment is reconciled again and again (`scalingRequeueAfter`,
  watches), its writes are issued, Kubernetes runs the pods (weak), and time advances
  (strong, because it stands still during a reconcile).

## Proofs

Every theorem holds for all values of the constants that satisfy the named
assumption of its module; TLC evaluates the same assumption on every run. A
theorem about an invariant rests on an inductive one, which TLC checked on the
instances of the module before it was proved.

| Module | Theorems | From |
| --- | --- | --- |
| `ModelDeploymentLifecycleProofs` | `TypeCorrect`, `RequestGenerationRespected` (`TransactionMatchesSpec`), `DrainingServesNothing` (`DrainingDetached`), `RolledBackMeansRestored` (`RolledBackRestored`), `FailureFreesHandoff` (`FailedEndsTransaction`) | `ConstantsAssumption`; the last also `AlwaysFit` |
| `ReplicaScalingProofs` | `NothingOverbooked` (`NoOverbooking`), `ServingStays` (`ServingKept`), `LongRequestsStay` (`LongRequestKept`), `ZeroIsHeld` (`HeldAtZero`), `RolloutsHaveRoom` (`RolloutHasRoom`) | `ScalingAssumption` |
| `ModelCacheProofs` | `TypeCorrect`, `ReadyMeansOnDisk` (`ReadyOnDisk`), `PlacesNotShared` (`NoSharedPlacement`), `NodesNotOverfilled` (`CapacityRespected`), `WritersApart` (`OneWriter`) | `PlannerAssumption`, `ControllerAssumption`; all but the first also `~Lagging`, the last also `Undisturbed` |
| `GatewayDrainProofs` | `TypeCorrect`, `HeardAnswersLast`; and for the first drain `FirstAnswersLast` (`AnsweredStaysClosed`), `OnlyUncounted` (`OnlyUncountedLate`) | `DrainAssumption`; the last two also `MaxSwitches <= 2` |
| `GatewayProofs` | `ScoresStayBounded`, `NobodyStarves`, `SharesAreExact`; `RateRespected` (`WithinRate`), `RetryAfterKept` (`RetryKept`); `TypeCorrect`, `RoutingStops` (`StopsRouting`) | `RouterAssumption`; `LimiterAssumption`; `DiscoveryAssumption` |

### The lifecycle controller

None of the five properties is inductive: a status is decided in one step and
written in a later one, with steps of everybody else in between. The proof is
split at this seam. `ModelDeploymentPlans` says what is known of a plan at the moment
it is made: `Good` of each write, `Planned` of their order, one lemma for each of the 18
decisions. `ModelDeploymentLifecycleProofs` says what stays true of the writes
while they wait. Its inductive invariant `IInv` has these parts:

- `Consistent`, and every waiting status is `Sound` too: it respects
  `requestGeneration`, and a Failed one has no rollback open. `Sound` is
  about the status alone, so nobody can disturb it while it waits.
- `Once`, `Apart`: a plan patches one status once, and gives no role to the
  deployment whose status it patches.
- `RollbackAgreed`: the two ends of a replacement, those in waiting patches included,
  do not contradict each other.
- `ServicesAgreed`: an Attach is the first write of its plan and not for a deployment
  that drains, and a status that says Draining waits behind the Detach.
- `RestoredInOrder`: behind a status that says RolledBack nothing is left to do, and
  what it reports of the target is still true or waits before it.

`RolledBackRestored` is an action property, proved of every step from this invariant.
`FailedEndsTransaction` needs `AlwaysFit` (no spec and no node that
`ValidateRuntimeNode` refuses): `preflight_strands` shows it false otherwise.

### Replicas

The five properties need one invariant, `Inv` of `ReplicaScalingInvariant`, because
a reconcile decides in one step and writes in two later ones, between which pods,
clients, users and other readings move. Its conjuncts say what is still true of a
decision when it is written:

- `Pods`, `Plans`: no more replicas run than are asked for, no plan is above
  `maxReplicas`, a plan of zero is written to a status that says so;
- `Quiet`: while a scale to zero of a single replica is on its way, no request on it
  is as old as the idle timeout; time is read once per reconcile;
- `Woken`: a runtime at zero belongs to a deployment that may sleep and says it
  does, and a decision to wake it was taken for a newer generation than the one observed;
- `Floors`: no status is below the floor of the policy, and a rollout of a
  deployment of constant size that is about to start has its slots beside all others;
- `Booked`: everybody is counted for at least what they run, all that is counted fits, and
  the one deployment in a reconcile moves within what the others leave.

`ReplicaScalingInvariant` shows that it holds at first and that no step of pods,
clients, metrics, users or time disturbs it. `ReplicaScalingProofs` does the same for
the controller's three steps and derives the properties. The sums over all
deployments are where the proof has to work: `OneForAll` says that if the
slots of all others leave room for one deployment then they do for each, and
`AvailableGrows` and `HeldShrinks` that a step which takes slots from nobody leaves
everyone as much.

Two properties were made precise while they were proved. `HeldAtZero` is about
runtimes that are not being deleted: under the Queue policy a deployment that finds
no slots deletes its runtime, at zero or not, and a new one starts where the plan
says. `RolloutHasRoom` is about histories in which `maxReplicas` is not lowered.

### Caches

`ReadyOnDisk`, `NoSharedPlacement` and `CapacityRespected` share the invariant `IInv`
of `ModelCacheProofs`:

- `Sound` relates a status to nodes, disks and Job: what is reported as downloaded
  was finished for this node UID and lies at the path, unless the node is gone;
  `SoundJob` says the same of a completed Job;
- `Fits`: on every node the caches that hold a place have different paths and
  together fit its capacity;
- `Pending`: a waiting status patch is written over the very status that was read
  and has `Room` beside the other holders; a waiting Job is the first write.

Placement is where the planner enters. `PlanChosen` says that `Plan` answers with a
node that is eligible, has no conflicting path and has the bytes; `SaturatingFold` that
its saturating sum is the exact one cut off at the largest int64, in whatever order the
caches are listed; `HeldHasRoom` that everything which holds a place reserves it, so the
planner's refusals cover it. `Later` orders the states of nodes, disks and Jobs, and
`SoundKept` shows that a sound status stays sound as they go on. `OneWriter` adds
`WriterInv`: a Job that runs is told of by the status of its cache, or the write that tells
of it waits.

The hypotheses are those without which TLC finds the statement false. With lagging
reads (`~Lagging` dropped) two caches are given one path and a cache is Ready without its
artifact (`stale_list`, `stale_ready`). `Undisturbed` says that no write is lost and no
spec is edited to an invalid one: a reconcile that ends between the Job and the
status, and a cache that fails as invalid, both leave a Job that nobody tells of. The
planner's assumption includes that caches and nodes are finitely many, as lists
are.

### The gateway

- `StopsRouting`. `Inv` follows the moment a model stopped being fit: into the list
  that was read before it (at most the time spent in this Sync), into the
  snapshot published from it (at most one timeout more than its age), and through the
  timer of `Run`, which closes a ready entry at the first failing Sync that ends three
  intervals after the last good one.
- `AnsweredStaysClosed`. For any drain, `Inv` says that a gateway which has published
  from a list of the present drain is closed and has no list in hand that would open
  it. That its answer is about the present drain is true only in the first one:
  `FirstDrain` ties what gateways show to the number of switches, hence the
  assumption `MaxSwitches <= 2`. Without it the statement is false
  (`stale_drain`), and `HeardAnswersLast` is what remains.
- `OnlyUncountedLate` adds `Counted` (a gateway's counter is the number of requests it
  forwards) and `Late`.
- `ScoresBounded`. A bound on single scores is not inductive: a score may rise beside
  others that are as high. `Balanced` bounds the sum over every group of `k` backends
  by `k(2n-k-1)W`; a turn moves weight from the highest score to the others, and the
  slack between the bounds for `k` and `k+1` pays for it. `Waiting` turns the
  bound into a bound on the turns a backend is passed over, and `Accounted` counts the
  turns of every candidate since scores of 0. The assumption that some entry has a
  positive weight excludes only routes that never select.
- `WithinRate`. `Balanced` says of every past admission that the tokens spent since and
  those still there were earned since or fitted in the bucket then; it survives a
  clock reading older than the last and a change of policy. `PromiseEarned` does the
  same for a refusal.

### Sums

`SumLemmas` proves what `SumFunctionOnSet` of the community modules computes: that its
recursion defines a function, that the order of the elements does not matter, and how
a sum changes with a member, with a union, and with larger summands. Induction
theorems of the library cannot be applied here, so the proofs take a smallest set
for which the claim would fail, from the well-foundedness of strict inclusion.

### What is model-checked only

Liveness under fairness (`TransactionEnds`, `DisplacedRestored`, `Settles`,
`SlotReassigned`, `RetryHonoured`, `DownloadEnds`, `Converges`, `DrainEnds`,
`ComesToRest`) is out of the prover's reach, and so are the two statements about the
planner in `MCCachePlanner`, which TLC evaluates. Of the lifecycle module
`HandoffReserved`, `NoOversubscription`, `DrainBeforeTeardown` and `ImplementsLease` are
checked on the instances above. They are statements about one slot:
`NoOversubscription` is false for chained handoffs over two, and an inductive
invariant would have to say which deployment owns the slot in every phase of a
transaction and of its rollback.

The modules begin with `USE Zenon`: a leaf that names no prover is one for Zenon, and
leaves with arithmetic or sequences name `SMTT(60)`. The SMT encoding of one leaf gets
slower the more leaves came before it, so most of them are kept from it.
From nothing `ModelCacheProofs` takes about fifteen minutes, `ReplicaScalingProofs`
eight, `ReplicaScalingInvariant` five and the others one to four.

## Plan

1. Proofs: the slot properties of the lifecycle controller for one slot per node; that
   the lease's own specification keeps slots within capacity, and the step simulation.
2. Lagging reads in the lifecycle module, with the merge patches of
   `ModelCacheController`.
3. The lifecycle module with two slots, once overlapping transactions are sound.

## Not modelled

- Object construction (`internal/resources`, templates, paths), condition
  bookkeeping, events and metrics: pure functions of a spec, or reporting.
- The ModelRuntime controller and resolver: one status write per reconcile and no
  state shared with the others; its verdict is part of `valid`.
- Which specs are valid, prefix parsing, the text format of metrics, tokens and
  HTTP: field checks and text handling without state.
- Ranking of several nodes in the GPU planner: a cache is on one node.
- `Upsert` and `Delete` of the registry, which the gateway does not call, and
  forwarding itself.
- Engine and downloader images, dashboard, CLI, SDK, charts and scripts: input and
  output, or clients of the API whose effect on the controllers is a user's edit
  or removal.
