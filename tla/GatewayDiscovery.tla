-------------------------- MODULE GatewayDiscovery --------------------------
(***************************************************************************)
(* The discovery loop of one gateway process (Run, Sync and the registry it *)
(* publishes to), in time.  A synchronisation reads three lists from the    *)
(* API server one after the other, while the cluster goes on changing, and  *)
(* publishes the result under the registry lock.  A failed synchronisation  *)
(* is retried after a delay that doubles, and past three intervals without  *)
(* a success takes every ready model out of the registry.                   *)
(*                                                                         *)
(* Time is counted in ticks; a tick is short against the sync interval.     *)
(* Steps take no time, and a timer that has run out fires before the next   *)
(* tick.  One model is followed: registries of several models differ only   *)
(* in how many entries one publication writes.                              *)
(***************************************************************************)
EXTENDS GatewayBackend, FiniteSetsExt

CONSTANTS
  Interval,      \* syncInterval, in ticks
  SyncTimeout,   \* min(syncInterval, maximumSyncTimeout), in ticks
  RetryBase,     \* min(syncInterval, 250ms), in ticks
  AgeBound,      \* ages are counted up to here
  MaxUID,        \* incarnations of the model
  MaxChanges     \* cluster changes

ASSUME DiscoveryAssumption ==
  /\ Interval \in Nat \ {0}
  /\ SyncTimeout \in 1 .. Interval
  /\ RetryBase \in 1 .. Interval
  /\ AgeBound \in Nat
  /\ AgeBound >= 6 * Interval
  /\ MaxUID \in Nat \ {0}
  /\ MaxChanges \in Nat

VARIABLES
  dep,        \* the ModelDeployment
  svc,        \* its runtime Service
  endpoints,  \* the Service has a ready endpoint with the HTTP port
  stage,      \* where Run is: "sleep", or the list Sync reads next
  spent,      \* ticks since Sync started
  wait,       \* ticks until the timer of Run fires
  retry,      \* retryDelay
  listed,     \* the deployments list of this Sync
  service,    \* the services list of this Sync
  reg,        \* the published state, "none" when there is no route
  synced,     \* lastSuccess is set
  age,        \* ticks since lastSuccess
  left,       \* ticks since the deployment was last fit to be routed to
  changes

cluster == <<dep, svc, endpoints>>
loop == <<stage, spent, wait, retry, listed, service>>
published == <<reg, synced>>
vars == <<dep, svc, endpoints, stage, spent, wait, retry, listed, service, reg, synced, age,
          left, changes>>

-----------------------------------------------------------------------------
(* What the gates of backendFor see of a deployment: served, edited and not *)
(* yet observed by the operator, rolled out to a blocked generation, short  *)
(* of replicas, or taken off the gateway.                                   *)
Gates == {"Served", "Edited", "Blocked", "Degraded", "Unrouted"}

Phases == {"Pending", "Activating", "Active", "Draining", "Cached", "Failed"}

Deployment ==
  [exists : BOOLEAN, uid : 1 .. MaxUID, phase : Phases, active : BOOLEAN, gate : Gates]

Service == [exists : BOOLEAN, owner : 1 .. MaxUID, selects : BOOLEAN, terminating : BOOLEAN]

Stages == {"sleep", "deployments", "services", "slices"}

(* The deployment as backendFor reads it.                                   *)
Fields(d) ==
  [uid |-> d.uid, phase |-> d.phase, active |-> d.active,
   routed |-> d.gate # "Unrouted", observed |-> d.gate # "Edited",
   blocked |-> d.gate = "Blocked", stable |-> TRUE,
   current |-> d.gate \notin {"Blocked", "Edited"}, full |-> d.gate # "Degraded"]

ServiceFields(s) ==
  [owner |-> s.owner, labelled |-> TRUE, selects |-> s.selects,
   terminating |-> s.terminating, shaped |-> TRUE]

(* The entry Sync publishes for the lists it read: no deployment, no route. *)
Entry(d, s, ready) ==
  IF d.exists THEN BackendFor(Fields(d), s.exists, ServiceFields(s), ready) ELSE "none"

(* The deployment itself passes every gate of backendFor.                   *)
Serving(d) ==
  d.exists /\ d.active /\ d.phase = "Active" /\ DeploymentRoutable(Fields(d))

NoDeployment ==
  [exists |-> FALSE, uid |-> 1, phase |-> "Pending", active |-> FALSE, gate |-> "Served"]
NoService == [exists |-> FALSE, owner |-> 1, selects |-> FALSE, terminating |-> FALSE]

(* The gateway starts beside a model that is serving, or one just created.  *)
Init ==
  /\ \/ /\ dep = [exists |-> TRUE, uid |-> 1, phase |-> "Active", active |-> TRUE,
                   gate |-> "Served"]
        /\ svc = [exists |-> TRUE, owner |-> 1, selects |-> TRUE, terminating |-> FALSE]
        /\ endpoints = TRUE
     \/ /\ dep = [exists |-> TRUE, uid |-> 1, phase |-> "Pending", active |-> TRUE,
                   gate |-> "Served"]
        /\ svc = NoService
        /\ endpoints = FALSE
  /\ stage = "deployments" /\ spent = 0
  /\ wait = 0 /\ retry = RetryBase
  /\ listed = NoDeployment /\ service = NoService
  /\ reg = "none" /\ synced = FALSE
  /\ age = 0 /\ left = 0
  /\ changes = 0

-----------------------------------------------------------------------------
(* The discovery loop.                                                      *)

(* Sync returns: its lists are gone, and Run sets the timer.                *)
Sleep(delay) ==
  /\ stage' = "sleep" /\ spent' = 0 /\ wait' = delay
  /\ listed' = NoDeployment /\ service' = NoService

(* The timer of Run fires and the next Sync starts.                         *)
StartSync ==
  /\ stage = "sleep" /\ wait = 0
  /\ stage' = "deployments"
  /\ UNCHANGED <<cluster, spent, wait, retry, listed, service, published, age, left, changes>>

ListDeployments ==
  /\ stage = "deployments"
  /\ listed' = dep
  /\ stage' = "services"
  /\ UNCHANGED <<cluster, spent, wait, retry, service, published, age, left, changes>>

ListServices ==
  /\ stage = "services"
  /\ service' = svc
  /\ stage' = "slices"
  /\ UNCHANGED <<cluster, spent, wait, retry, listed, published, age, left, changes>>

(* Faulty variant: the new entries are merged into the registry, so that    *)
(* the route of a deleted deployment stays.                                 *)
ListSlicesAndMerge ==
  /\ stage = "slices"
  /\ reg' = IF listed.exists THEN Entry(listed, service, endpoints) ELSE reg
  /\ synced' = TRUE /\ age' = 0
  /\ Sleep(Interval) /\ retry' = RetryBase
  /\ UNCHANGED <<cluster, left, changes>>

(* The EndpointSlice list, Replace and recordSuccessfulSync.  A publication *)
(* error (an entry Replace had to drop) also counts as a success.           *)
ListSlicesAndPublish ==
  /\ stage = "slices"
  /\ reg' = Entry(listed, service, endpoints)
  /\ synced' = TRUE /\ age' = 0
  /\ Sleep(Interval) /\ retry' = RetryBase
  /\ UNCHANGED <<cluster, left, changes>>

SnapshotStale == synced /\ age >= 3 * Interval

(* Faulty variant: a failed read keeps the last snapshot for good.          *)
SyncFailsOpen ==
  /\ stage # "sleep"
  /\ Sleep(retry)
  /\ retry' = Min({2 * retry, Interval})
  /\ UNCHANGED <<cluster, published, age, left, changes>>

(* Faulty variant: the delay doubles without bound.                         *)
SyncFailsUncapped ==
  /\ stage # "sleep"
  /\ Sleep(retry)
  /\ retry' = 2 * retry
  /\ reg' = IF SnapshotStale THEN MarkReadyUnavailable(reg) ELSE reg
  /\ UNCHANGED <<cluster, synced, age, left, changes>>

(* A list fails, at the latest when the context's deadline passes.          *)
SyncFails ==
  /\ stage # "sleep"
  /\ Sleep(retry)
  /\ retry' = Min({2 * retry, Interval})
  /\ reg' = IF SnapshotStale THEN MarkReadyUnavailable(reg) ELSE reg
  /\ UNCHANGED <<cluster, synced, age, left, changes>>

(* Ready: what the readiness probe of the gateway answers.                  *)
Ready == synced /\ age < 3 * Interval

Capped(n) == Min({n + 1, AgeBound})

(* Time passes while Run sleeps or a list is being read.                    *)
Tick ==
  /\ \/ /\ stage = "sleep" /\ wait > 0
        /\ wait' = wait - 1 /\ spent' = spent
     \/ /\ stage # "sleep" /\ spent < SyncTimeout
        /\ spent' = spent + 1 /\ wait' = wait
  /\ age' = Capped(age)
  /\ left' = IF Serving(dep) THEN 0 ELSE Capped(left)
  /\ UNCHANGED <<cluster, stage, retry, listed, service, published, changes>>

-----------------------------------------------------------------------------
(* The cluster: what the operator, the user and the API server do to the    *)
(* objects discovery reads.                                                 *)
Change ==
  /\ changes < MaxChanges
  /\ changes' = changes + 1
  /\ left' = IF Serving(dep') THEN 0 ELSE left
  /\ UNCHANGED <<loop, published, age>>

(* The operator's next phase; Active requires the model's own Service.      *)
PhaseMoves ==
  /\ dep.exists
  /\ \E q \in Phases :
       /\ <<dep.phase, q>> \in {<<"Pending", "Activating">>, <<"Activating", "Active">>,
            <<"Active", "Draining">>, <<"Draining", "Cached">>, <<"Cached", "Activating">>,
            <<"Activating", "Failed">>, <<"Active", "Failed">>}
       /\ q = "Active" => svc.exists /\ svc.owner = dep.uid /\ svc.selects /\ endpoints
       /\ dep' = [dep EXCEPT !.phase = q, !.gate = "Served"]
  /\ UNCHANGED <<svc, endpoints>>
  /\ Change

(* spec.activation.desiredState, the spec's generation, a blocked rollout,  *)
(* a lost replica, routing switched off.                                    *)
DesiredStateChanges ==
  /\ dep.exists
  /\ dep' = [dep EXCEPT !.active = ~dep.active]
  /\ UNCHANGED <<svc, endpoints>>
  /\ Change

GateMoves ==
  /\ dep.exists /\ dep.phase = "Active"
  /\ \E g \in Gates : dep' = [dep EXCEPT !.gate = g]
  /\ UNCHANGED <<svc, endpoints>>
  /\ Change

(* The Service is attached or detached, collected after its owner, created  *)
(* for the current owner.                                                   *)
ServiceMoves ==
  /\ \/ /\ svc.exists /\ svc' = [svc EXCEPT !.selects = ~svc.selects]
        /\ endpoints' = FALSE
     \/ /\ svc.exists /\ ~svc.terminating
        /\ svc' = [svc EXCEPT !.terminating = TRUE]
        /\ endpoints' = endpoints
     \/ /\ svc.exists /\ svc.terminating
        /\ svc' = [svc EXCEPT !.exists = FALSE] /\ endpoints' = FALSE
     \/ /\ ~svc.exists /\ dep.exists
        /\ svc' = [exists |-> TRUE, owner |-> dep.uid, selects |-> TRUE, terminating |-> FALSE]
        /\ endpoints' = FALSE
  /\ UNCHANGED dep
  /\ Change

EndpointsMove ==
  /\ svc.exists /\ svc.selects
  /\ endpoints' = ~endpoints
  /\ UNCHANGED <<dep, svc>>
  /\ Change

DeploymentDeleted ==
  /\ dep.exists
  /\ dep' = [dep EXCEPT !.exists = FALSE]
  /\ UNCHANGED <<svc, endpoints>>
  /\ Change

DeploymentRecreated ==
  /\ ~dep.exists /\ dep.uid < MaxUID
  /\ dep' = [exists |-> TRUE, uid |-> dep.uid + 1, phase |-> "Pending", active |-> TRUE,
             gate |-> "Served"]
  /\ UNCHANGED <<svc, endpoints>>
  /\ Change

Next ==
  \/ StartSync \/ ListDeployments \/ ListServices \/ ListSlicesAndPublish \/ SyncFails \/ Tick
  \/ PhaseMoves \/ DesiredStateChanges \/ GateMoves \/ ServiceMoves \/ EndpointsMove
  \/ DeploymentDeleted \/ DeploymentRecreated

Spec == Init /\ [][Next]_vars

(* Time advances, the timer fires, and a Sync returns: its context has a    *)
(* deadline.  Nothing is assumed of how often it succeeds.                  *)
SyncSteps == ListDeployments \/ ListServices \/ ListSlicesAndPublish \/ SyncFails

FairSpec == Spec /\ WF_vars(Tick) /\ WF_vars(StartSync) /\ WF_vars(SyncSteps)

-----------------------------------------------------------------------------
(* The loop, the lists it holds and the published state are well formed,    *)
(* and the delays of Run stay between its base and the interval.            *)
TypeOK ==
  /\ dep \in Deployment /\ listed \in Deployment
  /\ svc \in Service /\ service \in Service
  /\ endpoints \in BOOLEAN
  /\ stage \in Stages
  /\ spent \in 0 .. SyncTimeout
  /\ wait \in 0 .. Interval /\ retry \in RetryBase .. Interval
  /\ reg \in BackendStates \cup {"none"}
  /\ synced \in BOOLEAN
  /\ age \in 0 .. AgeBound /\ left \in 0 .. AgeBound
  /\ changes \in 0 .. MaxChanges

(* How long requests can still be sent to a model that is gone.  Whatever   *)
(* fails, and whatever the cluster does while the three lists are read, the *)
(* registry never offers as ready a model that stopped being fit for        *)
(* routing (drained, deactivated, edited, failed or deleted) more than four *)
(* intervals and two sync timeouts ago: one timeout for a read that         *)
(* outlives the change, three intervals until the snapshot counts as stale, *)
(* one of backoff, and one timeout for the failing read that notices.       *)
StopsRouting == reg = "ready" => left < 4 * Interval + 2 * SyncTimeout

(* docs/routing.md: once discovery cannot refresh for three intervals every *)
(* ready backend is marked unavailable.                                     *)
StaleIsUnavailable == SnapshotStale => reg # "ready"

(* A cluster that stops changing is published as it is: while the readiness *)
(* probe keeps answering yes, the registry comes to show what backendFor    *)
(* says of the objects as they are and stays there, although reads fail in  *)
(* between and each list is read at a different moment.                     *)
Converges == <>[]Ready => <>[](reg = Entry(dep, svc, endpoints))

=============================================================================
