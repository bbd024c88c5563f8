--------------------------- MODULE ReplicaScaling ---------------------------
(***************************************************************************)
(* Replica planning of the ModelDeployment controller: the part of one      *)
(* reconcile that decides how many replicas an active deployment runs from  *)
(* the metrics of its runtime, scales an idle one to zero, reserves GPU     *)
(* slots on the node of the cache and holds a rollout back while the node   *)
(* has no room for it (planRuntimeReplicas to projectRuntimeDeployment).    *)
(*                                                                         *)
(* The deployments share one eligible GPU node, their caches stay Ready,    *)
(* they stay Active and queue when the node is full.  Activation, handoff   *)
(* and loss of the node are modelled by ModelDeploymentLifecycle, and the   *)
(* failure of a runtime to make progress is not modelled here.              *)
(*                                                                         *)
(* Reconciles are serialized.  One reads everything and then makes up to    *)
(* two writes, the runtime Deployment and the status, each a step of its    *)
(* own.  A reconcile takes less than the unit of time.                      *)
(***************************************************************************)
EXTENDS Integers, FiniteSetsExt

CONSTANTS
  Setups  \* the clusters to look at, and how much happens in each

Spare == {"Rolling", "BlueGreen", "Canary"}

ASSUME ScalingAssumption ==
  \A s \in Setups :
    /\ IsFiniteSet(DOMAIN s.policy)
    /\ \A d \in DOMAIN s.policy :
         s.policy[d] \in [min : Nat, max : Nat \ {0}, target : Nat, idle : Nat,
                         gpus : Nat \ {0}, strategy : {"Recreate"} \cup Spare]
    /\ s.edits \subseteq {"template", "max"}
    /\ s.faults \subseteq {"Write", "Pod", "Metrics"}
    /\ {s.capacity, s.maxLoad, s.maxEdits, s.maxFaults} \subseteq Nat

VARIABLES
  setup,    \* the cluster looked at
  gen,      \* metadata.generation of each deployment
  max,      \* spec.scaling.maxReplicas
  ver,      \* the pod template the spec asks for
  st,       \* status
  wl,       \* the runtime Deployment and its pods
  load,     \* requests on each replica
  reach,    \* whether the metrics endpoint can be reached
  job,      \* the reconcile in progress: its outstanding writes
  upFor,    \* how long the runtime has had a ready pod
  busyFor,  \* how long each replica has been busy without a break
  faults

vars == <<setup, gen, max, ver, st, wl, load, reach, job, upFor, busyFor, faults>>

-----------------------------------------------------------------------------
(* spec.scaling, GPUs per replica and rollout strategy of each deployment;  *)
(* the GPU slots of the node; requests on one replica, of which one runs    *)
(* and the others wait; what users edit and how often; and how many writes  *)
(* fail, pods fail or scrapes are lost.                                     *)
Policy == setup.policy
Deployments == DOMAIN Policy
Capacity == setup.capacity
MaxLoad == setup.maxLoad
Edits == setup.edits
MaxEdits == setup.maxEdits
MaxFaults == setup.maxFaults

(* State                                                                    *)

Phases == {"Cached", "WaitingForGPU", "Activating", "Active"}
ReadyReasons == {"None", "IdleScaledToZero", "WaitingForGPU", "RolloutBlocked",
                 "RuntimeCreating", "RuntimeReady"}
RolloutReasons == {"None", "Blocked", "CapacityReserved", "Complete"}

MaxReplicas == Max({Policy[d].max : d \in Deployments})
Replica == 1 .. MaxReplicas

(* lastActivityTime is nil.                                                 *)
Never == -1

(* Status.  activity is the age of lastActivityTime, up to the idle         *)
(* timeout.                                                                 *)
Status(d) ==
  [phase : Phases, assigned : BOOLEAN, desired : 0 .. Policy[d].max,
   replicas : 0 .. Policy[d].max, activity : Never .. Policy[d].idle,
   ready : ReadyReasons, rollout : RolloutReasons, rolloutGen : 0 .. MaxEdits,
   obs : 0 .. MaxEdits]

NewStatus ==
  [phase |-> "Cached", assigned |-> FALSE, desired |-> 0, replicas |-> 0,
   activity |-> Never, ready |-> "None", rollout |-> "None", rolloutGen |-> 0, obs |-> 0]

(* The runtime Deployment: observed says that its controller has seen the   *)
(* last generation, up counts its ready pods, rolling that pods of two      *)
(* templates run side by side.                                              *)
Workload ==
  [exists : BOOLEAN, replicas : 0 .. MaxReplicas, ver : 0 .. MaxEdits,
   observed : BOOLEAN, up : 0 .. MaxReplicas, rolling : BOOLEAN, deleting : BOOLEAN]

NoWorkload ==
  [exists |-> FALSE, replicas |-> 0, ver |-> 0, observed |-> FALSE, up |-> 0,
   rolling |-> FALSE, deleting |-> FALSE]

NoJob == [stage |-> "none"]

-----------------------------------------------------------------------------
(* Replica and slot arithmetic                                              *)

EffectiveMax(d) == Max({max[d], 1})

Base(d) == Min({Max({Policy[d].min, 1}), EffectiveMax(d)})

(* effectiveRuntimeReplicas for a given status.scaling.desiredReplicas.     *)
Effective(d, desired) == IF desired > 0 THEN Min({desired, EffectiveMax(d)}) ELSE Base(d)

Reservation(d, desired) == Policy[d].gpus * Effective(d, desired)

RequiresSpare(d) == Policy[d].strategy \in Spare

SurgeActive(d) ==
  /\ RequiresSpare(d)
  /\ st[d].rollout = "CapacityReserved"
  /\ st[d].rolloutGen >= gen[d]

(* What the rollout strategy adds to n replicas.                            *)
Surge(d, n) ==
  CASE Policy[d].strategy = "Recreate" -> 0
    [] Policy[d].strategy = "BlueGreen" -> n
    [] OTHER -> 1

(* Faulty variant: only the floor is reserved.                              *)
ReservedFloor(d) == Policy[d].gpus * Base(d)

ReservedSlots(d) ==
  LET n == Effective(d, st[d].desired)
  IN  Policy[d].gpus * (n + IF SurgeActive(d) THEN Surge(d, n) ELSE 0)

(* A reservation recorded in the status hides the runtime Deployment.       *)
ReservedByStatus(d) == st[d].assigned /\ st[d].phase \in {"Activating", "Active"}

WorkloadSlots(d) == Policy[d].gpus * wl[d].replicas

(* What gpuAllocations counts for one deployment.                           *)
Held(x) == IF ReservedByStatus(x) THEN ReservedSlots(x) ELSE WorkloadSlots(x)

Allocated(d) == SumFunctionOnSet([x \in Deployments |-> Held(x)], Deployments \ {d})

Available(d) == Capacity - Allocated(d)

(* Faulty variant: the pods of the old template are not counted.            *)
RequiredSlotsSteady(d, desired) == Reservation(d, desired)

RequiredSlots(d, desired) ==
  LET steady == Effective(d, desired)
  IN  IF wl[d].replicas = 0
        THEN Reservation(d, desired)
        ELSE Policy[d].gpus * (wl[d].replicas + Surge(d, steady))

-----------------------------------------------------------------------------
(* planRuntimeReplicas                                                      *)

Autoscaling(d) == Policy[d].target > 0 \/ Policy[d].idle > 0

HoldAtZero(d) ==
  /\ Policy[d].min = 0 /\ Policy[d].idle > 0
  /\ st[d].obs >= gen[d]
  /\ st[d].ready = "IdleScaledToZero"

NoSample == [ok |-> FALSE, pending |-> 0, running |-> 0]

(* The scraper asks the Service for /metrics, so one ready pod answers.     *)
Samples(d) ==
  IF ~Autoscaling(d) \/ HoldAtZero(d) \/ ~reach \/ wl[d].up = 0
    THEN {NoSample}
    ELSE {[ok |-> TRUE, pending |-> Max({load[d][i] - 1, 0}), running |-> Min({load[d][i], 1})] :
            i \in 1 .. wl[d].up}

Idle(s) == s.pending = 0 /\ s.running = 0

CeilDiv(a, b) == (a + b - 1) \div b

(* Faulty variant: running requests are not looked at.                      *)
IdleUnlessPending(d, s) ==
  /\ Policy[d].idle > 0 /\ Policy[d].min = 0 /\ s.pending = 0
  /\ st[d].activity >= Policy[d].idle

IdleTimedOut(d, s) ==
  /\ Policy[d].idle > 0 /\ Policy[d].min = 0 /\ Idle(s)
  /\ st[d].activity >= Policy[d].idle

(* Faulty variant: without demand the replicas stay as they are.            *)
FromMetricsSticky(d, s) ==
  IF IdleTimedOut(d, s) THEN 0
                        ELSE Min({Max({st[d].replicas, Base(d)}) + s.pending, EffectiveMax(d)})

FromMetrics(d, s) ==
  LET floor   == Base(d)
      current == Max({st[d].replicas, floor})
      asked   == IF Policy[d].target > 0 /\ s.pending > 0
                   THEN current + CeilDiv(s.pending, Policy[d].target)
                   ELSE floor
  IN  IF IdleTimedOut(d, s) THEN 0 ELSE Max({floor, Min({asked, EffectiveMax(d)})})

(* Faulty variant: a deployment at zero is planned like any other.          *)
DesiredUnheld(d, s) == IF s.ok THEN FromMetrics(d, s) ELSE Base(d)

Desired(d, s) ==
  CASE Autoscaling(d) /\ HoldAtZero(d) -> 0
    [] s.ok -> FromMetrics(d, s)
    [] OTHER -> Base(d)

(* Faulty variant: no cap.                                                  *)
CapNothing(d, n) == n

(* capReplicasByGPUCapacity, which leaves a deployment that cannot have its *)
(* floor to the reservation that follows.                                   *)
CapByGPUCapacity(d, n) ==
  LET fits == Available(d) \div Policy[d].gpus
  IN  IF n > 0 /\ Available(d) >= Policy[d].gpus /\ fits < n /\ fits >= Base(d)
        THEN fits
        ELSE n

Activity(d, s) ==
  IF s.ok /\ (~Idle(s) \/ st[d].activity = Never) THEN 0 ELSE st[d].activity

-----------------------------------------------------------------------------
(* The reconcile                                                            *)

RuntimeReady(w) == w.exists /\ w.observed /\ w.replicas > 0 /\ w.up >= w.replicas

SpecEqual(d, n) == wl[d].exists /\ wl[d].replicas = n /\ wl[d].ver = ver[d]

(* ensureRuntimeDeployment with n replicas of template v: the object it     *)
(* leaves, and what that does to the pods.                                  *)
EnsureRuntimeDeployment(d, n, v) ==
  LET w == wl[d]
      replaced == w.ver # v
  IN  CASE ~w.exists -> [NoWorkload EXCEPT !.exists = TRUE, !.replicas = n, !.ver = v]
        [] w.exists /\ w.replicas = n /\ ~replaced -> w
        [] OTHER ->
             [w EXCEPT !.replicas = n, !.ver = v, !.observed = FALSE,
                       !.up = IF replaced /\ ~RequiresSpare(d) THEN 0 ELSE Min({@, n}),
                       !.rolling = n > 0 /\ (@ \/ (replaced /\ RequiresSpare(d) /\ w.up > 0))]

DeleteRuntimeWorkload(d) ==
  IF wl[d].exists THEN [wl[d] EXCEPT !.deleting = TRUE, !.up = 0, !.rolling = FALSE] ELSE NoWorkload

Rollout(s, g, reason) == [s EXCEPT !.rollout = reason, !.rolloutGen = g]

(* The reconcile's remaining work: to leave n replicas of the runtime       *)
(* Deployment ("ensure"), to delete it or to leave it, and then to write    *)
(* the status.                                                              *)
Decide(d, op, n, s) ==
  job' = [stage |-> IF op = "leave" THEN "status" ELSE "workload",
          d |-> d, op |-> op, n |-> n, ver |-> ver[d], gen |-> gen[d],
          status |-> [s EXCEPT !.obs = gen[d]]]

(* An idle deployment goes, or stays, at zero replicas.                     *)
ReconcileToZero(d, planned) ==
  /\ planned.desired = 0
  /\ Decide(d, "ensure", 0,
            [planned EXCEPT !.phase = "Cached", !.replicas = 0, !.ready = "IdleScaledToZero"])

(* handleGPUCapacityError with the policy Queue.                            *)
ReconcileNoCapacity(d, planned) ==
  /\ planned.desired > 0
  /\ Reservation(d, planned.desired) > Available(d)
  /\ Decide(d, "delete", 0,
            [planned EXCEPT !.phase = "WaitingForGPU", !.assigned = FALSE,
                            !.replicas = Effective(d, planned.desired),
                            !.ready = "WaitingForGPU"])

Reserved(d, planned) ==
  planned.desired > 0 /\ Reservation(d, planned.desired) <= Available(d)

(* The write to the runtime Deployment needs spare slots.                   *)
NeedsSpare(d, planned) ==
  /\ RequiresSpare(d) /\ wl[d].exists
  /\ ~SpecEqual(d, Effective(d, planned.desired)) /\ wl[d].replicas # 0
  /\ RequiredSlots(d, planned.desired) > Reservation(d, planned.desired)

ReconcileRolloutBlocked(d, planned) ==
  /\ Reserved(d, planned) /\ NeedsSpare(d, planned)
  /\ RequiredSlots(d, planned.desired) > Available(d)
  /\ Decide(d, "leave", 0,
            Rollout([planned EXCEPT !.assigned = TRUE, !.ready = "RolloutBlocked"], gen[d], "Blocked"))

(* The Rollout condition before the runtime Deployment is written.          *)
RolloutProgress(d, planned) ==
  CASE ~RequiresSpare(d) \/ ~wl[d].exists -> planned
    [] SpecEqual(d, Effective(d, planned.desired)) \/ wl[d].replicas = 0 ->
         Rollout(planned, gen[d], IF wl[d].replicas = 0 \/ RuntimeReady(wl[d])
                               THEN "Complete" ELSE "CapacityReserved")
    [] NeedsSpare(d, planned) -> Rollout(planned, gen[d], "CapacityReserved")
    [] OTHER -> planned

ReconcileRun(d, planned) ==
  /\ Reserved(d, planned)
  /\ ~(NeedsSpare(d, planned) /\ RequiredSlots(d, planned.desired) > Available(d))
  /\ Decide(d, "ensure", Effective(d, planned.desired),
            [RolloutProgress(d, planned) EXCEPT !.assigned = TRUE])

Reconcile(d) ==
  /\ job = NoJob
  /\ \E s \in Samples(d) :
       LET planned == [st[d] EXCEPT !.desired = CapByGPUCapacity(d, Desired(d, s)),
                                    !.activity = Activity(d, s)]
       IN  \/ ReconcileToZero(d, planned)
           \/ ReconcileNoCapacity(d, planned)
           \/ ReconcileRolloutBlocked(d, planned)
           \/ ReconcileRun(d, planned)
  /\ UNCHANGED <<setup, gen, max, ver, st, wl, load, reach, upFor, busyFor, faults>>

(* Requests on replicas that are gone are gone.                             *)
SettlePods(d, w) ==
  /\ load' = [load EXCEPT ![d] = [i \in Replica |-> IF i <= w.up THEN @[i] ELSE 0]]
  /\ busyFor' = [busyFor EXCEPT ![d] = [i \in Replica |-> IF i <= w.up THEN @[i] ELSE 0]]
  /\ upFor' = [upFor EXCEPT ![d] = IF w.up = 0 THEN 0 ELSE @]

(* projectRuntimeDeployment: the status for the runtime Deployment w.       *)
Project(w) ==
  LET s      == [job.status EXCEPT !.replicas = w.replicas]
      active == [s EXCEPT !.phase = "Active", !.ready = "RuntimeReady"]
  IN  IF ~RuntimeReady(w)
        THEN [s EXCEPT !.phase = "Activating", !.ready = "RuntimeCreating"]
        ELSE IF RequiresSpare(job.d) THEN Rollout(active, job.gen, "Complete") ELSE active

WriteWorkload ==
  /\ job.stage = "workload"
  /\ LET d == job.d
         w == IF job.op = "delete" THEN DeleteRuntimeWorkload(d)
                                   ELSE EnsureRuntimeDeployment(d, job.n, job.ver)
     IN  /\ wl' = [wl EXCEPT ![d] = w]
         /\ SettlePods(d, w)
         /\ job' = [job EXCEPT !.stage = "status",
                               !.status = IF job.n > 0 THEN Project(w) ELSE @]
  /\ UNCHANGED <<setup, gen, max, ver, st, reach, faults>>

WriteStatus ==
  /\ job.stage = "status"
  /\ st' = [st EXCEPT ![job.d] = job.status]
  /\ job' = NoJob
  /\ UNCHANGED <<setup, gen, max, ver, wl, load, reach, upFor, busyFor, faults>>

Fault(kind) == kind \in setup.faults /\ faults < MaxFaults /\ faults' = faults + 1

(* A write fails; the reconcile ends and is retried.                        *)
ReconcileError ==
  /\ job # NoJob /\ Fault("Write")
  /\ job' = NoJob
  /\ UNCHANGED <<setup, gen, max, ver, st, wl, load, reach, upFor, busyFor>>

-----------------------------------------------------------------------------
(* Kubernetes, users and requests                                           *)

Workloads(d, w) ==
  /\ wl' = [wl EXCEPT ![d] = w]
  /\ SettlePods(d, w)
  /\ UNCHANGED <<setup, gen, max, ver, st, reach, job>>

DeploymentObserved(d) ==
  /\ wl[d].exists /\ ~wl[d].observed /\ ~wl[d].deleting
  /\ Workloads(d, [wl[d] EXCEPT !.observed = TRUE])
  /\ UNCHANGED faults

PodReady(d) ==
  /\ wl[d].observed /\ ~wl[d].deleting /\ wl[d].up < wl[d].replicas
  /\ Workloads(d, [wl[d] EXCEPT !.up = @ + 1])
  /\ UNCHANGED faults

PodFails(d) ==
  /\ wl[d].up > 0 /\ Fault("Pod")
  /\ Workloads(d, [wl[d] EXCEPT !.up = @ - 1])

(* The last pod of the old template is gone.                                *)
RolloutEnds(d) ==
  /\ wl[d].rolling /\ wl[d].observed
  /\ Workloads(d, [wl[d] EXCEPT !.rolling = FALSE])
  /\ UNCHANGED faults

WorkloadGone(d) ==
  /\ wl[d].deleting
  /\ Workloads(d, NoWorkload)
  /\ UNCHANGED faults

(* The endpoint comes and goes (pod network, NetworkPolicy).                *)
MetricsMove ==
  /\ reach' = ~reach
  /\ IF reach THEN Fault("Metrics") ELSE UNCHANGED faults
  /\ UNCHANGED <<setup, gen, max, ver, st, wl, load, job, upFor, busyFor>>

Edit(d, field) ==
  /\ field \in Edits /\ gen[d] < MaxEdits
  /\ gen' = [gen EXCEPT ![d] = @ + 1]
  /\ UNCHANGED <<setup, st, wl, load, reach, job, upFor, busyFor, faults>>

EditTemplate(d) ==
  Edit(d, "template") /\ ver' = [ver EXCEPT ![d] = gen[d] + 1] /\ UNCHANGED max

EditMaxReplicas(d) ==
  /\ Edit(d, "max")
  /\ \E n \in Max({Policy[d].min, 1}) .. Policy[d].max : n # max[d] /\ max' = [max EXCEPT ![d] = n]
  /\ UNCHANGED ver

(* The gateway forwards to a deployment that is Active.                     *)
RequestArrives(d) ==
  /\ st[d].phase = "Active"
  /\ \E i \in 1 .. wl[d].up :
       load[d][i] < MaxLoad /\ load' = [load EXCEPT ![d][i] = @ + 1]
  /\ UNCHANGED <<setup, gen, max, ver, st, wl, reach, job, upFor, busyFor, faults>>

RequestEnds(d) ==
  /\ \E i \in Replica :
       /\ load[d][i] > 0
       /\ load' = [load EXCEPT ![d][i] = @ - 1]
       /\ busyFor' = [busyFor EXCEPT ![d][i] = IF load[d][i] = 1 THEN 0 ELSE @]
  /\ UNCHANGED <<setup, gen, max, ver, st, wl, reach, job, upFor, faults>>

(* Ages are counted up to the idle timeout.                                 *)
Older(d, age) == Min({age + 1, Policy[d].idle})

Tick ==
  /\ job = NoJob
  /\ st' = [d \in Deployments |->
              [st[d] EXCEPT !.activity = IF @ = Never THEN @ ELSE Older(d, @)]]
  /\ upFor' = [d \in Deployments |-> IF wl[d].up > 0 THEN Older(d, upFor[d]) ELSE 0]
  /\ busyFor' = [d \in Deployments |->
                   [i \in Replica |-> IF load[d][i] > 0 THEN Older(d, busyFor[d][i]) ELSE 0]]
  /\ UNCHANGED <<setup, gen, max, ver, wl, load, reach, job, faults>>

Init ==
  /\ setup \in Setups
  /\ gen = [d \in Deployments |-> 0]
  /\ max = [d \in Deployments |-> Policy[d].max]
  /\ ver = [d \in Deployments |-> 0]
  /\ st = [d \in Deployments |-> NewStatus]
  /\ wl = [d \in Deployments |-> NoWorkload]
  /\ load = [d \in Deployments |-> [i \in Replica |-> 0]]
  /\ busyFor = [d \in Deployments |-> [i \in Replica |-> 0]]
  /\ upFor = [d \in Deployments |-> 0]
  /\ reach = TRUE
  /\ job = NoJob
  /\ faults = 0

Next ==
  \/ \E d \in Deployments :
       \/ Reconcile(d)
       \/ DeploymentObserved(d) \/ PodReady(d) \/ PodFails(d) \/ RolloutEnds(d) \/ WorkloadGone(d)
       \/ EditTemplate(d) \/ EditMaxReplicas(d)
       \/ RequestArrives(d) \/ RequestEnds(d)
  \/ WriteWorkload \/ WriteStatus \/ ReconcileError
  \/ MetricsMove \/ Tick

Spec == Init /\ [][Next]_vars

KubernetesStep(d) ==
  DeploymentObserved(d) \/ PodReady(d) \/ RolloutEnds(d) \/ WorkloadGone(d)

(* Every deployment is reconciled again and again (scalingRequeueAfter, and *)
(* every change of an object the controller owns), a reconcile finishes its *)
(* writes, and Kubernetes runs the pods it is asked for.  Requests, edits   *)
(* and faults owe nothing.                                                  *)
FairSpec ==
  /\ Spec
  /\ WF_vars(WriteWorkload \/ WriteStatus) /\ SF_vars(Tick)
  /\ \A d \in UNION {DOMAIN s.policy : s \in Setups} :
       /\ []<><<d \in Deployments => Reconcile(d)>>_vars
       /\ WF_vars(d \in Deployments /\ KubernetesStep(d))

-----------------------------------------------------------------------------
(* Properties                                                               *)

(* Specs, statuses, runtimes and the writes of the running reconcile are    *)
(* well formed, and replicas stay within what the spec allows.              *)
TypeOK ==
  /\ setup \in Setups
  /\ gen \in [Deployments -> 0 .. MaxEdits]
  /\ \A d \in Deployments : max[d] \in 1 .. Policy[d].max /\ st[d] \in Status(d)
  /\ ver \in [Deployments -> 0 .. MaxEdits]
  /\ wl \in [Deployments -> Workload]
  /\ load \in [Deployments -> [Replica -> 0 .. MaxLoad]]
  /\ reach \in BOOLEAN
  /\ job # NoJob => job.stage \in {"workload", "status"} /\ job.status \in Status(job.d)
  /\ \A d \in Deployments : upFor[d] \in 0 .. Policy[d].idle
  /\ busyFor \in [Deployments -> [Replica -> Nat]]
  /\ faults \in 0 .. MaxFaults

(* The slots the pods of d may hold.                                        *)
SlotsInUse(d) ==
  Policy[d].gpus * (wl[d].replicas + IF wl[d].rolling THEN Surge(d, wl[d].replicas) ELSE 0)

(* The runtime Deployments of all deployments ask for no more slots than    *)
(* the node has.                                                            *)
SlotsFit == SumFunctionOnSet([d \in Deployments |-> SlotsInUse(d)], Deployments) <= Capacity

(* Nothing but demand moves the replicas: no rollout needs spare slots,     *)
(* maxReplicas stays, and no write of a reconcile fails.                    *)
DemandOnly ==
  /\ \A d \in Deployments : ~RequiresSpare(d)
  /\ "max" \notin Edits /\ "Write" \notin setup.faults

(* The operator does not overbook GPUs to chase queue depth: while only     *)
(* demand, pods and metrics change, the replicas that the autoscaler adds   *)
(* for several deployments at once always fit on the node.                  *)
NoOverbooking == DemandOnly => SlotsFit

(* With a constant number of replicas, a rollout that runs pods of two      *)
(* templates side by side starts only when the slots of both are free,      *)
(* unless an edit of maxReplicas moves reservations between the decision    *)
(* and the write.                                                           *)
RolloutHasRoom ==
  [][\A d \in Deployments :
       /\ Policy[d].min = Policy[d].max /\ "max" \notin Edits
       /\ ~wl[d].rolling /\ wl'[d].rolling
       => SlotsInUse(d)' <= Available(d)]_vars

(* While a rollout runs pods of two templates side by side, its slots stay  *)
(* reserved for it against the reconcile of every other deployment.         *)
SurgeReserved ==
  job = NoJob => \A d \in Deployments : wl[d].rolling => ReservedSlots(d) >= SlotsInUse(d)

(* Replacement is never implicit: with the policy Queue everywhere, and     *)
(* while only demand, pods and metrics change, the runtime of a deployment  *)
(* that is Active and ready is never deleted to make room.                  *)
ServingKept ==
  [][\A d \in Deployments :
       DemandOnly /\ RuntimeReady(wl[d]) /\ st[d].phase = "Active" => ~wl'[d].deleting]_vars

ScaledToZero(d) == wl[d].replicas > 0 /\ wl'[d].exists /\ wl'[d].replicas = 0

(* A runtime is scaled to zero only after it has been up, and so has been   *)
(* able to take requests, for the idle timeout.                             *)
ZeroAfterTimeout ==
  [][\A d \in Deployments : ScaledToZero(d) => upFor[d] >= Policy[d].idle]_vars

(* A request that has run for the whole idle timeout is never cut off by    *)
(* idle scale-to-zero where one replica serves (of several, one is asked).  *)
LongRequestKept ==
  [][\A d \in Deployments :
       ScaledToZero(d) /\ Policy[d].max = 1 =>
         \A i \in Replica : load[d][i] > 0 => busyFor[d][i] < Policy[d].idle]_vars

(* A deployment held at zero replicas is started again only by a spec edit, *)
(* never by its missing metrics, unless the write of its status was lost.   *)
(* (One that was woken when the node was full is not held: its runtime is   *)
(* being deleted.)                                                          *)
HeldAtZero ==
  [][\A d \in Deployments :
       /\ "Write" \notin setup.faults
       /\ wl[d].exists /\ ~wl[d].deleting /\ wl[d].replicas = 0 /\ wl'[d].replicas > 0
       => gen[d] > st[d].obs]_vars

Rest(d) == IF Policy[d].min = 0 /\ Policy[d].idle > 0 THEN 0 ELSE Base(d)

NoDemand == reach /\ \A d \in Deployments : load[d] = [i \in Replica |-> 0]

(* Replicas follow demand down: once no request is left and metrics can be  *)
(* read, every deployment comes to rest at its floor, or at zero where the  *)
(* idle timeout allows it.                                                  *)
ComesToRest == <>[]NoDemand => <>[](\A d \in Deployments : wl[d].replicas = Rest(d))
=============================================================================
