---------------------------- MODULE GatewayDrain ----------------------------
(***************************************************************************)
(* Draining one model across processes: the operator moves the deployment   *)
(* to Draining and polls the /drainz endpoint of every ready gateway pod    *)
(* (EndpointSliceDrainChecker); each gateway learns of the drain only from  *)
(* its own discovery loop, admits a request in one step and counts it in a  *)
(* later one, and reads its registry and its counter for /drainz at two     *)
(* moments.  The drain timeout is the operator's way out.                   *)
(*                                                                         *)
(* Each gateway is numbered by the place of its address in the checker's    *)
(* sorted list.  A Sync lists the deployments, then the Services and their  *)
(* endpoints, then publishes; its timers are in GatewayDiscovery.           *)
(***************************************************************************)
EXTENDS GatewayBackend, FiniteSets, FiniteSetsExt

CONSTANTS
  Gateways,    \* gateway pods
  Requests,    \* client requests
  MaxSwitches, \* changes of what the user and the replacements want
  MaxEvents,   \* requests, failed reads, failed polls and stale snapshots
  Timeouts     \* the drain timeout may pass

ASSUME DrainAssumption ==
  /\ Gateways \in SUBSET (Nat \ {0}) /\ IsFiniteSet(Gateways) /\ Gateways # {}
  /\ IsFiniteSet(Requests)
  /\ MaxSwitches \in Nat /\ MaxEvents \in Nat /\ Timeouts \in BOOLEAN

VARIABLES
  wanted,    \* "active", "inactive" (desiredState) or "displaced" (replacement)
  phase,     \* status.phase of the deployment
  attached,  \* its Service selects the runtime's pods
  workload,  \* the runtime: "starting", "running", "terminating" or "gone"
  toAsk,     \* the check: gateways still to be polled
  seen,      \* the check: the registry state the polled gateway has read
  check,     \* "idle", "asking" or "complete"
  snap,      \* per gateway: the deployment its Sync has listed, or NoSnap
  reg,       \* per gateway: the published state, "none" before the first Sync
  stale,     \* per gateway: three intervals passed since the last Sync
  probe,     \* per gateway: its endpoint is ready in the EndpointSlice
  req,       \* per request: its state and the gateway that serves it
  active,    \* per gateway: the requestTracker's count
  heard,     \* per gateway: it has published from a list read in this drain
  answered,  \* per gateway: it has answered drainComplete in this check
  late,      \* requests admitted but not yet counted when it answered
  switches, events

operator == <<wanted, phase, attached, workload>>
checker == <<toAsk, seen, check, answered, late>>
discovery == <<snap, reg, stale, probe, heard>>
proxy == <<req, active>>
budget == <<switches, events>>
vars == <<wanted, phase, attached, workload, toAsk, seen, check, snap, reg, stale, probe, req,
          active, heard, answered, late, switches, events>>

-----------------------------------------------------------------------------
NoSnap ==
  [read |-> "nothing", phase |-> "Unknown", active |-> FALSE, endpoints |-> FALSE, this |-> FALSE]

(* What a Sync keeps of its lists; "this" marks a deployment read in the    *)
(* present drain, which the code does not know.                             *)
Snapshots ==
  [read : {"nothing", "deployments", "all"}, phase : DeploymentPhases, active : BOOLEAN,
   endpoints : BOOLEAN, this : BOOLEAN]

Polled == CHOOSE g \in toAsk : \A h \in toAsk : g <= h

Fields(s) ==
  [uid |-> 1, phase |-> s.phase, active |-> s.active, routed |-> TRUE, observed |-> TRUE,
   blocked |-> FALSE, stable |-> TRUE, current |-> TRUE, full |-> TRUE]

(* The Service keeps its selector as long as it has endpoints.              *)
RuntimeService(s) ==
  [owner |-> 1, labelled |-> TRUE, selects |-> s.endpoints, terminating |-> FALSE, shaped |-> TRUE]

(* The Service has a ready endpoint.                                        *)
Endpoints == attached /\ workload = "running"

(* Faulty variant: the count is not looked at.                              *)
DrainCompleteUncounted(state, count) == state = "draining"

(* Faulty variant: any state in which no request is admitted will do.       *)
DrainCompleteWhenClosed(state, count) == state # "ready" /\ count = 0

(* drainComplete in the answer of ServeDrainStatus.                         *)
DrainComplete(state, count) == state = "draining" /\ count = 0

(* One of the things that disturb a drain.                                  *)
Event == events < MaxEvents /\ events' = events + 1 /\ UNCHANGED switches

(* The gateways start beside a model that serves, or one that is loading.   *)
Init ==
  /\ wanted = "active" /\ attached = TRUE
  /\ \/ phase = "Active" /\ workload = "running"
     \/ phase = "Activating" /\ workload = "starting"
  /\ toAsk = {} /\ seen = "none" /\ check = "idle"
  /\ snap = [g \in Gateways |-> NoSnap]
  /\ reg = [g \in Gateways |-> "none"]
  /\ stale = [g \in Gateways |-> FALSE]
  /\ probe = [g \in Gateways |-> FALSE]
  /\ req = [r \in Requests |-> [st |-> "idle", at |-> 0]]
  /\ active = [g \in Gateways |-> 0]
  /\ heard = [g \in Gateways |-> FALSE]
  /\ answered = {} /\ late = {}
  /\ switches = 0 /\ events = 0

-----------------------------------------------------------------------------
(* The user deactivates or activates; a replacement displaces the model or  *)
(* gives its slot back.                                                     *)
Switch ==
  /\ switches < MaxSwitches
  /\ \E w \in {"active", "inactive", "displaced"} \ {wanted} : wanted' = w
  /\ switches' = switches + 1
  /\ UNCHANGED <<phase, attached, workload, checker, discovery, proxy, events>>

(* reconcileDeactivation with a runtime: the Service has been detached      *)
(* (runtimeServiceShouldDetach), and the phase becomes Draining.            *)
StartDrain ==
  /\ wanted # "active" /\ workload # "gone"
  /\ phase \notin {"Draining", "Deactivating"}
  /\ attached' = FALSE
  /\ phase' = "Draining"
  /\ heard' = [g \in Gateways |-> FALSE]
  /\ snap' = [g \in Gateways |-> [snap[g] EXCEPT !.this = FALSE]]
  /\ UNCHANGED <<wanted, workload, checker, reg, stale, probe, proxy, budget>>

(* A reconcile in Draining deletes the workload, and then lists the ready   *)
(* gateway endpoints; without one it is an error.                           *)
DeleteRuntimeWorkload ==
  /\ wanted # "active" /\ phase = "Draining" /\ check = "idle"
  /\ attached \/ workload \in {"starting", "running"}
  /\ attached' = FALSE
  /\ workload' = IF workload = "gone" THEN "gone" ELSE "terminating"
  /\ UNCHANGED <<wanted, phase, checker, discovery, proxy, budget>>

WorkloadDeleted == ~attached /\ workload \in {"terminating", "gone"}

GatewayEndpointAddresses == {g \in Gateways : probe[g]}

StartCheck ==
  /\ wanted # "active" /\ phase = "Draining" /\ check = "idle"
  /\ WorkloadDeleted
  /\ GatewayEndpointAddresses # {}
  /\ toAsk' = GatewayEndpointAddresses
  /\ check' = "asking" /\ seen' = "none"
  /\ answered' = {} /\ late' = {}
  /\ UNCHANGED <<operator, discovery, proxy, budget>>

(* ServeDrainStatus at the polled gateway: Backends(), a copy of the        *)
(* registry.  Without an entry the answer is not one backend: an error.     *)
ReadBackends ==
  /\ check = "asking" /\ seen = "none"
  /\ IF reg[Polled] = "none"
       THEN check' = "idle" /\ toAsk' = {} /\ UNCHANGED seen
       ELSE seen' = reg[Polled] /\ UNCHANGED <<check, toAsk>>
  /\ UNCHANGED <<operator, answered, late, discovery, proxy, budget>>

(* Then activeCount, and the answer: the first gateway that is not complete *)
(* ends the check.                                                          *)
ReadActiveCount ==
  /\ check = "asking" /\ seen # "none"
  /\ seen' = "none"
  /\ IF DrainComplete(seen, active[Polled])
       THEN /\ toAsk' = toAsk \ {Polled}
            /\ check' = IF toAsk = {Polled} THEN "complete" ELSE "asking"
            /\ answered' = answered \cup {Polled}
            /\ late' = late \cup {r \in Requests : req[r] = [st |-> "selected", at |-> Polled]}
       ELSE toAsk' = {} /\ check' = "idle" /\ UNCHANGED <<answered, late>>
  /\ UNCHANGED <<operator, discovery, proxy, budget>>

(* The poll fails or times out.                                             *)
CheckFails ==
  /\ Event
  /\ check = "asking"
  /\ check' = "idle" /\ toAsk' = {} /\ seen' = "none"
  /\ UNCHANGED <<operator, answered, late, discovery, proxy>>

(* The status patch to Deactivating after a complete check.                 *)
DrainCompleted ==
  /\ check = "complete"
  /\ phase' = "Deactivating" /\ check' = "idle"
  /\ UNCHANGED <<wanted, attached, workload, toAsk, seen, answered, late, discovery, proxy, budget>>

(* ... and after the drain timeout, without one.                            *)
DrainTimedOut ==
  /\ Timeouts
  /\ wanted # "active" /\ phase = "Draining" /\ check = "idle"
  /\ WorkloadDeleted
  /\ phase' = "Deactivating"
  /\ answered' = {} /\ late' = {}
  /\ UNCHANGED <<wanted, attached, workload, toAsk, seen, check, discovery, proxy, budget>>

WorkloadMoves ==
  /\ \/ workload = "terminating" /\ workload' = "gone"
     \/ workload = "starting" /\ workload' = "running"
  /\ UNCHANGED <<wanted, phase, attached, checker, discovery, proxy, budget>>

(* No runtime is left.  Only Draining is left by the check or the timeout.  *)
Deactivated ==
  /\ wanted # "active" /\ workload = "gone"
  /\ phase \notin {"Draining", "Cached"}
  /\ phase' = "Cached" /\ attached' = FALSE
  /\ UNCHANGED <<wanted, workload, checker, discovery, proxy, budget>>

(* The model is wanted: a reconcile attaches the Service unless it read a   *)
(* draining phase, creates the workload if there is none, and projects the  *)
(* one it finds; a terminating one is projected like any other.             *)
Activate ==
  /\ wanted = "active" /\ check = "idle"
  /\ attached' = (phase \notin {"Draining", "Deactivating"})
  /\ workload' = IF workload = "gone" THEN "starting" ELSE workload
  /\ phase' \in CASE workload = "running" -> {"Active"}
                   [] workload = "terminating" -> {"Active", "Activating"}
                   [] OTHER -> {"Activating"}
  /\ <<attached', workload', phase'>> # <<attached, workload, phase>>
  /\ answered' = {} /\ late' = {}
  /\ UNCHANGED <<wanted, toAsk, seen, check, discovery, proxy, budget>>

-----------------------------------------------------------------------------
(* Discovery at gateway g.  One goroutine: the next list is read after the  *)
(* last publication.                                                        *)

ListDeployments(g) ==
  /\ snap[g].read = "nothing"
  /\ snap' = [snap EXCEPT ![g] = [read |-> "deployments", phase |-> phase,
       active |-> wanted # "inactive", endpoints |-> FALSE, this |-> phase = "Draining"]]
  /\ UNCHANGED <<operator, checker, reg, stale, probe, heard, proxy, budget>>

ListServices(g) ==
  /\ snap[g].read = "deployments"
  /\ snap' = [snap EXCEPT ![g].read = "all", ![g].endpoints = Endpoints]
  /\ UNCHANGED <<operator, checker, reg, stale, probe, heard, proxy, budget>>

Publish(g) ==
  /\ snap[g].read = "all"
  /\ reg' = [reg EXCEPT ![g] =
       BackendFor(Fields(snap[g]), TRUE, RuntimeService(snap[g]), snap[g].endpoints)]
  /\ stale' = [stale EXCEPT ![g] = FALSE]
  /\ heard' = [heard EXCEPT ![g] = heard[g] \/ snap[g].this]
  /\ snap' = [snap EXCEPT ![g] = NoSnap]
  /\ UNCHANGED <<operator, checker, probe, proxy, budget>>

(* A Sync fails; a stale registry is closed.                                *)
SyncFails(g) ==
  /\ Event
  /\ snap' = [snap EXCEPT ![g] = NoSnap]
  /\ reg' = IF stale[g] THEN [reg EXCEPT ![g] = MarkReadyUnavailable(reg[g])] ELSE reg
  /\ UNCHANGED <<operator, checker, stale, probe, heard, proxy>>

BecomesStale(g) ==
  /\ Event
  /\ ~stale[g] /\ reg[g] # "none"
  /\ stale' = [stale EXCEPT ![g] = TRUE]
  /\ UNCHANGED <<operator, checker, snap, reg, probe, heard, proxy>>

(* The readiness probe and the EndpointSlice follow Ready().                *)
ProbeMoves(g) ==
  /\ probe[g] # (reg[g] # "none" /\ ~stale[g])
  /\ probe' = [probe EXCEPT ![g] = ~probe[g]]
  /\ UNCHANGED <<operator, checker, snap, reg, stale, heard, proxy, budget>>

-----------------------------------------------------------------------------
(* ServeHTTP at gateway g: Select under the registry lock; later begin, and *)
(* done when the response has been copied.  A client that is refused is not *)
(* followed.                                                                *)
Select(r, g) ==
  /\ Event
  /\ req[r].st = "idle" /\ reg[g] = "ready"
  /\ req' = [req EXCEPT ![r] = [st |-> "selected", at |-> g]]
  /\ UNCHANGED <<operator, checker, discovery, active>>

Begin(r) ==
  /\ req[r].st = "selected"
  /\ req' = [req EXCEPT ![r].st = "forwarding"]
  /\ active' = [active EXCEPT ![req[r].at] = active[req[r].at] + 1]
  /\ UNCHANGED <<operator, checker, discovery, budget>>

(* The entry is deleted at the last request, so that the count is never     *)
(* negative.                                                                *)
CountAfterDone(n) == IF n <= 1 THEN 0 ELSE n - 1

Done(r) ==
  /\ req[r].st = "forwarding"
  /\ req' = [req EXCEPT ![r].st = "done"]
  /\ active' = [active EXCEPT ![req[r].at] = CountAfterDone(active[req[r].at])]
  /\ UNCHANGED <<operator, checker, discovery, budget>>

OperatorStep ==
  \/ StartDrain \/ DeleteRuntimeWorkload \/ StartCheck \/ ReadBackends \/ ReadActiveCount
  \/ DrainCompleted \/ Deactivated \/ Activate

Next ==
  \/ Switch \/ OperatorStep \/ CheckFails \/ DrainTimedOut \/ WorkloadMoves
  \/ \E g \in Gateways :
       \/ ListDeployments(g) \/ ListServices(g) \/ Publish(g) \/ SyncFails(g)
       \/ BecomesStale(g) \/ ProbeMoves(g)
       \/ \E r \in Requests : Select(r, g)
  \/ \E r \in Requests : Begin(r) \/ Done(r)

Spec == Init /\ [][Next]_vars

(* The operator's queue retries, each gateway's loop goes on, the kubelet   *)
(* probes, and an admitted request is counted and comes to an end.          *)
FairSpec ==
  /\ Spec
  /\ WF_vars(OperatorStep) /\ WF_vars(WorkloadMoves)
  /\ \A g \in Gateways :
       /\ WF_vars(ListDeployments(g) \/ ListServices(g) \/ Publish(g))
       /\ WF_vars(ProbeMoves(g))
  /\ \A r \in Requests : WF_vars(Begin(r) \/ Done(r))

-----------------------------------------------------------------------------
(* Deployment, check, registries, requests and counts are well formed; a    *)
(* check asks exactly as long as gateways are left to ask.                  *)
TypeOK ==
  /\ wanted \in {"active", "inactive", "displaced"}
  /\ phase \in DeploymentPhases
  /\ attached \in BOOLEAN
  /\ workload \in {"starting", "running", "terminating", "gone"}
  /\ toAsk \subseteq Gateways /\ (check = "asking" <=> toAsk # {})
  /\ seen \in BackendStates \cup {"none"}
  /\ check \in {"idle", "asking", "complete"}
  /\ snap \in [Gateways -> Snapshots]
  /\ reg \in [Gateways -> BackendStates \cup {"none"}]
  /\ stale \in [Gateways -> BOOLEAN] /\ probe \in [Gateways -> BOOLEAN]
  /\ req \in [Requests -> [st : {"idle", "selected", "forwarding", "done"},
                           at : Gateways \cup {0}]]
  /\ active \in [Gateways -> 0 .. Cardinality(Requests)]
  /\ heard \in [Gateways -> BOOLEAN]
  /\ answered \subseteq Gateways /\ late \subseteq Requests
  /\ switches \in 0 .. MaxSwitches /\ events \in 0 .. MaxEvents

Drained == phase \in {"Deactivating", "Cached"} /\ answered # {}

(* The gateways' answers last: once a gateway has told the operator that    *)
(* its drain is complete, its registry does not offer the model again until *)
(* the operator activates it, however its syncs, their failures and the     *)
(* operator's polls of the other gateways interleave.  (For the first drain *)
(* a gateway process sees; a later one may be answered from the first.)     *)
AnsweredStaysClosed ==
  \A g \in answered : phase \in {"Draining", "Deactivating", "Cached"} => reg[g] # "ready"

(* What a completed check means for the requests: when the operator has     *)
(* finished a drain on the gateways' word, the only requests that the       *)
(* gateways it asked still forward were admitted before the answer and had  *)
(* not been counted yet (the step between Select and begin).                *)
OnlyUncountedLate ==
  Drained =>
    \A r \in Requests : req[r].st = "forwarding" /\ req[r].at \in answered => r \in late

(* drain_checker.go:21: the checker reports whether the gateway has         *)
(* finished forwarding the requests already admitted for the backend.       *)
DrainMeansIdle ==
  Drained => \A r \in Requests : req[r].st \notin {"selected", "forwarding"}

(* drain_checker.go:67: DrainComplete is true only when the gateway         *)
(* observes the backend as draining - this drain, not an earlier one.       *)
CompleteMeansObserved == check = "complete" => \A g \in answered : heard[g]

(* A drain ends without its timeout: every gateway hears of it, stops       *)
(* admitting, finishes its requests and says so, unless the model is wanted *)
(* again.                                                                   *)
DrainEnds == phase = "Draining" ~> phase # "Draining"

=============================================================================
