------------------------- MODULE GatewayDrainProofs -------------------------
(***************************************************************************)
(* Proofs about GatewayDrain for any number of gateways, requests and       *)
(* disturbances.                                                            *)
(*                                                                         *)
(* Inv holds of every drain: a gateway that has published from a list read  *)
(* in the present drain is closed and has nothing in hand that would open   *)
(* it.  FirstDrain adds what makes a gateway's "draining" mean the present  *)
(* drain: up to two switches of what is wanted there is no earlier one it   *)
(* could still be showing.                                                  *)
(***************************************************************************)
EXTENDS GatewayDrain, FiniteSetTheorems, WellFoundedInduction, TLAPS

(* A leaf that names no prover is one for Zenon.                          *)
USE Zenon

Closed == {"Draining", "Deactivating", "Cached"}

Forwarding(g) == {r \in Requests : req[r] = [st |-> "forwarding", at |-> g]}

(* What a gateway's answer is worth in any drain: a gateway that has        *)
(* published from a list of the present drain and answered drainComplete    *)
(* does not offer the model again until the operator activates it.          *)
HeardStaysClosed == \A g \in answered : heard[g] => reg[g] # "ready"

(* Gateway g offers the model no more, nor will its next publication.       *)
ClosedAt(g) ==
  /\ reg[g] # "ready"
  /\ snap[g].read # "nothing" => snap[g].phase \in Closed

(* TypeOK by the process that owns the variables.                           *)
OperatorType ==
  /\ wanted \in {"active", "inactive", "displaced"}
  /\ phase \in DeploymentPhases
  /\ attached \in BOOLEAN
  /\ workload \in {"starting", "running", "terminating", "gone"}

CheckerType ==
  /\ toAsk \subseteq Gateways /\ (check = "asking" <=> toAsk # {})
  /\ seen \in BackendStates \cup {"none"}
  /\ check \in {"idle", "asking", "complete"}
  /\ answered \subseteq Gateways /\ late \subseteq Requests

DiscoveryType ==
  /\ snap \in [Gateways -> Snapshots]
  /\ reg \in [Gateways -> BackendStates \cup {"none"}]
  /\ stale \in [Gateways -> BOOLEAN] /\ probe \in [Gateways -> BOOLEAN]
  /\ heard \in [Gateways -> BOOLEAN]

ProxyType ==
  /\ req \in [Requests -> [st : {"idle", "selected", "forwarding", "done"},
                           at : Gateways \cup {0}]]
  /\ active \in [Gateways -> 0 .. Cardinality(Requests)]

BudgetType == switches \in 0 .. MaxSwitches /\ events \in 0 .. MaxEvents

(* A request that was admitted is at a gateway, and each gateway's counter  *)
(* is the number of requests it forwards.                                   *)
Counted ==
  /\ \A r \in Requests : req[r].st # "idle" => req[r].at \in Gateways
  /\ \A g \in Gateways : active[g] = Cardinality(Forwarding(g))

(* Where the operator is: it checks only while it drains, and keeps the     *)
(* answers no longer than the model is closed.                              *)
Control ==
  /\ check # "idle" => phase = "Draining"
  /\ answered # {} => phase \in Closed
  /\ phase = "Cached" => workload = "gone"

Heard ==
  /\ \A g \in Gateways : snap[g].this => snap[g].phase = "Draining"
  /\ \A g \in Gateways : heard[g] /\ (phase = "Draining" \/ g \in answered) => ClosedAt(g)

Inv == TypeOK /\ Counted /\ Control /\ Heard

(* What is wanted has been switched before the model was closed, and again  *)
(* if it is wanted once more.                                               *)
Switched ==
  /\ wanted # "active" => switches >= 1
  /\ phase \in Closed => switches >= 1 /\ (wanted = "active" => switches >= 2)

(* A gateway that shows a drain, or is about to, while the model is open    *)
(* shows one that is over.                                                  *)
Earlier ==
  phase \notin Closed =>
    \A g \in Gateways : reg[g] = "draining" \/ snap[g].phase = "Draining"
                          => wanted = "active" /\ switches >= 2

Marked ==
  phase = "Draining" =>
    \A g \in Gateways :
      /\ reg[g] = "draining" => heard[g]
      /\ snap[g].phase = "Draining" => snap[g].this

(* An answer "drain complete" is about the present drain.                   *)
Asked ==
  /\ check = "asking" /\ seen = "draining" => heard[Polled]
  /\ \A g \in answered : heard[g]

(* No gateway admits a request between its answer and the end of the drain. *)
Late ==
  \A r \in Requests :
    req[r].st \in {"selected", "forwarding"} /\ req[r].at \in answered => r \in late

FirstDrain == Switched /\ Earlier /\ Marked /\ Asked /\ Late

USE DrainAssumption

-----------------------------------------------------------------------------
(* The operators of the model.                                              *)

(* A set of gateways has a first one in the order of their addresses.       *)
LEMMA LeastExists ==
  ASSUME NEW S \in SUBSET Nat, S # {}
  PROVE  \E x \in S : \A y \in S : x <= y
<1> DEFINE R == OpToRel(<, Nat)
<1>1. IsWellFoundedOn(R, Nat)
  BY NatLessThanWellFounded
<1>2. \A y, x \in Nat : y < x => <<y, x>> \in R
  BY DEF OpToRel
<1> HIDE DEF R
<1>3. PICK x \in S : \A y \in S : ~(<<y, x>> \in R)
  BY <1>1, WFMin
<1>4. \A y \in S : ~(y < x)
  BY <1>2, <1>3
<1>. QED BY <1>4, SMTT(60)

LEMMA PolledIsAsked ==
  ASSUME TypeOK, check = "asking"
  PROVE  Polled \in toAsk /\ Polled \in Gateways
<1>1. toAsk \in SUBSET Nat /\ toAsk # {}
  BY DEF TypeOK
<1>2. \E g \in toAsk : \A h \in toAsk : g <= h
  BY <1>1, LeastExists
<1>3. Polled \in toAsk
  BY <1>2 DEF Polled
<1>. QED BY <1>3 DEF TypeOK

(* What backendFor publishes from a list: no closed phase is published as   *)
(* ready, and "draining" stands for the Draining phase.                     *)
LEMMA PublishedState ==
  ASSUME NEW s \in Snapshots
  PROVE  LET b == BackendFor(Fields(s), TRUE, RuntimeService(s), s.endpoints)
         IN  /\ b \in BackendStates
             /\ s.phase \in Closed => b # "ready"
             /\ b = "draining" => s.phase = "Draining"
             /\ s.phase = "Draining" => b = "draining"
<1>1. s.phase \in DeploymentPhases /\ s.active \in BOOLEAN
  BY DEF Snapshots
<1>2. Fields(s).phase = s.phase /\ Fields(s).active = s.active
  BY DEF Fields
<1>. QED BY <1>1, <1>2 DEF BackendFor, BackendStates, DeploymentPhases, Closed

LEMMA NoSnapType == NoSnap \in Snapshots
BY DEF NoSnap, Snapshots, DeploymentPhases

LEMMA ForwardingFinite ==
  ASSUME NEW g
  PROVE  /\ IsFiniteSet(Forwarding(g))
         /\ Cardinality(Forwarding(g)) \in 0 .. Cardinality(Requests)
<1>1. Forwarding(g) \subseteq Requests
  BY DEF Forwarding
<1>2. /\ IsFiniteSet(Forwarding(g))
      /\ Cardinality(Forwarding(g)) <= Cardinality(Requests)
  BY <1>1, FS_Subset
<1>. QED BY <1>2, FS_CardinalityType, SMTT(60)

-----------------------------------------------------------------------------
LEMMA InitInv == Init => Inv
<1> SUFFICES ASSUME Init PROVE Inv
  OBVIOUS
<1>1. Cardinality(Requests) \in Nat
  BY FS_CardinalityType
<1>2. TypeOK
  <2>1. snap \in [Gateways -> Snapshots] /\ stale \in [Gateways -> BOOLEAN]
        /\ probe \in [Gateways -> BOOLEAN] /\ heard \in [Gateways -> BOOLEAN]
        /\ attached \in BOOLEAN
    BY NoSnapType DEF Init
  <2>2. reg \in [Gateways -> BackendStates \cup {"none"}]
    BY DEF Init
  <2>3. req \in [Requests -> [st : {"idle", "selected", "forwarding", "done"},
                              at : Gateways \cup {0}]]
    BY DEF Init
  <2>4. active \in [Gateways -> 0 .. Cardinality(Requests)]
    BY <1>1, SMTT(60) DEF Init
  <2>5. phase \in DeploymentPhases /\ workload \in {"starting", "running", "terminating", "gone"}
    BY DEF Init, DeploymentPhases
  <2>. QED BY <2>1, <2>2, <2>3, <2>4, <2>5, SMTT(60) DEF Init, TypeOK
<1>3. \A g \in Gateways : Forwarding(g) = {}
  BY DEF Init, Forwarding
<1>4. Counted
  BY <1>3, FS_EmptySet DEF Init, Counted
<1>5. Control
  BY DEF Init, Control
<1>6. Heard
  BY DEF Init, Heard, NoSnap
<1>. QED BY <1>2, <1>4, <1>5, <1>6 DEF Inv
-----------------------------------------------------------------------------
LEMMA TypeParts ==
  TypeOK <=> OperatorType /\ CheckerType /\ DiscoveryType /\ ProxyType /\ BudgetType
BY DEF TypeOK, OperatorType, CheckerType, DiscoveryType, ProxyType, BudgetType

LEMMA TypePartsNext ==
  TypeOK' <=> OperatorType' /\ CheckerType' /\ DiscoveryType' /\ ProxyType' /\ BudgetType'
BY TypeParts, PTL

(* A process keeps its types while another one moves, and a step that       *)
(* leaves the requests alone leaves the counts right.                       *)
LEMMA OperatorTypeKept == OperatorType /\ UNCHANGED operator => OperatorType'
BY DEF OperatorType, operator

LEMMA CheckerTypeKept == CheckerType /\ UNCHANGED checker => CheckerType'
BY DEF CheckerType, checker

LEMMA DiscoveryTypeKept == DiscoveryType /\ UNCHANGED discovery => DiscoveryType'
BY DEF DiscoveryType, discovery

LEMMA ProxyKept ==
  ProxyType /\ Counted /\ UNCHANGED proxy => ProxyType' /\ Counted'
BY SMTT(60) DEF ProxyType, Counted, Forwarding, proxy

LEMMA BudgetKept == BudgetType /\ UNCHANGED budget => BudgetType'
BY DEF BudgetType, budget

LEMMA EventType == BudgetType /\ Event => BudgetType'
BY SMTT(60) DEF BudgetType, Event
(* Steps, action by action.                                                *)

LEMMA SwitchInv ==
  ASSUME Inv, Switch
  PROVE  Inv'
<1>1. OperatorType'
  BY TypeParts DEF Inv, OperatorType, Switch, DeploymentPhases
<1>2. CheckerType'
  BY TypeParts, CheckerTypeKept DEF Inv, Switch
<1>3. DiscoveryType'
  BY TypeParts, DiscoveryTypeKept DEF Inv, Switch
<1>4. ProxyType' /\ Counted'
  BY TypeParts, ProxyKept DEF Inv, Switch
<1>5. BudgetType'
  BY TypeParts, SMTT(60) DEF Inv, BudgetType, Switch
<1>6. Control'
  BY DEF Inv, Control, Switch, checker
<1>7. Heard'
  BY DEF Inv, Heard, ClosedAt, Switch, operator, checker, discovery
<1>. QED BY <1>1, <1>2, <1>3, <1>4, <1>5, <1>6, <1>7, TypePartsNext DEF Inv

LEMMA StartDrainInv ==
  ASSUME Inv, StartDrain
  PROVE  Inv'
<1>1. OperatorType'
  BY TypeParts DEF Inv, OperatorType, StartDrain, DeploymentPhases
<1>2. CheckerType'
  BY TypeParts, CheckerTypeKept DEF Inv, StartDrain
<1>3. DiscoveryType'
  <2>1. \A g \in Gateways : [snap[g] EXCEPT !.this = FALSE] \in Snapshots
    BY TypeParts DEF Inv, DiscoveryType, Snapshots
  <2>. QED BY <2>1, TypeParts DEF Inv, DiscoveryType, StartDrain
<1>4. ProxyType' /\ Counted'
  BY TypeParts, ProxyKept DEF Inv, StartDrain
<1>5. BudgetType'
  BY TypeParts, BudgetKept DEF Inv, StartDrain
<1>6. Control'
  BY DEF Inv, Control, Closed, StartDrain, checker
<1>7. Heard'
  <2>1. \A g \in Gateways : ~heard'[g] /\ ~snap'[g].this
    BY TypeParts DEF Inv, DiscoveryType, Snapshots, StartDrain
  <2>. QED BY <2>1 DEF Heard
<1>. QED BY <1>1, <1>2, <1>3, <1>4, <1>5, <1>6, <1>7, TypePartsNext DEF Inv

LEMMA DeleteRuntimeWorkloadInv ==
  ASSUME Inv, DeleteRuntimeWorkload
  PROVE  Inv'
<1>1. OperatorType'
  BY TypeParts DEF Inv, OperatorType, DeleteRuntimeWorkload, DeploymentPhases
<1>2. CheckerType'
  BY TypeParts, CheckerTypeKept DEF Inv, DeleteRuntimeWorkload
<1>3. DiscoveryType'
  BY TypeParts, DiscoveryTypeKept DEF Inv, DeleteRuntimeWorkload
<1>4. ProxyType' /\ Counted'
  BY TypeParts, ProxyKept DEF Inv, DeleteRuntimeWorkload
<1>5. BudgetType'
  BY TypeParts, BudgetKept DEF Inv, DeleteRuntimeWorkload
<1>6. Control'
  BY DEF Inv, Control, DeleteRuntimeWorkload, checker
<1>7. Heard'
  BY DEF Inv, Heard, ClosedAt, DeleteRuntimeWorkload, operator, checker, discovery
<1>. QED BY <1>1, <1>2, <1>3, <1>4, <1>5, <1>6, <1>7, TypePartsNext DEF Inv

LEMMA StartCheckInv ==
  ASSUME Inv, StartCheck
  PROVE  Inv'
<1>1. OperatorType'
  BY TypeParts, OperatorTypeKept DEF Inv, StartCheck
<1>2. CheckerType'
  BY TypeParts DEF Inv, CheckerType, StartCheck, GatewayEndpointAddresses
<1>3. DiscoveryType'
  BY TypeParts, DiscoveryTypeKept DEF Inv, StartCheck
<1>4. ProxyType' /\ Counted'
  BY TypeParts, ProxyKept DEF Inv, StartCheck
<1>5. BudgetType'
  BY TypeParts, BudgetKept DEF Inv, StartCheck
<1>6. Control'
  BY DEF Inv, Control, StartCheck, operator
<1>7. Heard'
  BY DEF Inv, Heard, ClosedAt, StartCheck, operator, checker, discovery
<1>. QED BY <1>1, <1>2, <1>3, <1>4, <1>5, <1>6, <1>7, TypePartsNext DEF Inv

LEMMA ReadBackendsInv ==
  ASSUME Inv, ReadBackends
  PROVE  Inv'
<1>1. OperatorType'
  BY TypeParts, OperatorTypeKept DEF Inv, ReadBackends
<1>2. CheckerType'
  <2>1. Polled \in Gateways
    BY PolledIsAsked DEF Inv, ReadBackends
  <2>2. reg[Polled] \in BackendStates \cup {"none"}
    BY <2>1, TypeParts DEF Inv, DiscoveryType
  <2>. QED BY <2>2, TypeParts DEF Inv, CheckerType, ReadBackends
<1>3. DiscoveryType'
  BY TypeParts, DiscoveryTypeKept DEF Inv, ReadBackends
<1>4. ProxyType' /\ Counted'
  BY TypeParts, ProxyKept DEF Inv, ReadBackends
<1>5. BudgetType'
  BY TypeParts, BudgetKept DEF Inv, ReadBackends
<1>6. Control'
  BY DEF Inv, Control, ReadBackends, operator
<1>7. Heard'
  BY DEF Inv, Heard, ClosedAt, ReadBackends, operator, checker, discovery
<1>. QED BY <1>1, <1>2, <1>3, <1>4, <1>5, <1>6, <1>7, TypePartsNext DEF Inv

LEMMA ReadActiveCountInv ==
  ASSUME Inv, ReadActiveCount
  PROVE  Inv'
<1>1. OperatorType'
  BY TypeParts, OperatorTypeKept DEF Inv, ReadActiveCount
<1>2. CheckerType'
  <2>1. Polled \in toAsk /\ Polled \in Gateways
    BY PolledIsAsked DEF Inv, ReadActiveCount
  <2>. QED BY <2>1, TypeParts DEF Inv, CheckerType, ReadActiveCount
<1>3. DiscoveryType'
  BY TypeParts, DiscoveryTypeKept DEF Inv, ReadActiveCount
<1>4. ProxyType' /\ Counted'
  BY TypeParts, ProxyKept DEF Inv, ReadActiveCount
<1>5. BudgetType'
  BY TypeParts, BudgetKept DEF Inv, ReadActiveCount
<1>6. Control'
  BY DEF Inv, Control, Closed, ReadActiveCount, operator
<1>7. Heard'
  <2>1. phase = "Draining" /\ phase' = phase
    BY DEF Inv, Control, ReadActiveCount, operator
  <2>. QED BY <2>1 DEF Inv, Heard, ClosedAt, ReadActiveCount, discovery
<1>. QED BY <1>1, <1>2, <1>3, <1>4, <1>5, <1>6, <1>7, TypePartsNext DEF Inv

LEMMA CheckFailsInv ==
  ASSUME Inv, CheckFails
  PROVE  Inv'
<1>1. OperatorType'
  BY TypeParts, OperatorTypeKept DEF Inv, CheckFails
<1>2. CheckerType'
  BY TypeParts DEF Inv, CheckerType, CheckFails
<1>3. DiscoveryType'
  BY TypeParts, DiscoveryTypeKept DEF Inv, CheckFails
<1>4. ProxyType' /\ Counted'
  BY TypeParts, ProxyKept DEF Inv, CheckFails
<1>5. BudgetType'
  BY TypeParts, EventType DEF Inv, CheckFails
<1>6. Control'
  BY DEF Inv, Control, CheckFails, operator
<1>7. Heard'
  BY DEF Inv, Heard, ClosedAt, CheckFails, operator, checker, discovery
<1>. QED BY <1>1, <1>2, <1>3, <1>4, <1>5, <1>6, <1>7, TypePartsNext DEF Inv

LEMMA DrainCompletedInv ==
  ASSUME Inv, DrainCompleted
  PROVE  Inv'
<1>1. OperatorType'
  BY TypeParts DEF Inv, OperatorType, DrainCompleted, DeploymentPhases
<1>2. CheckerType'
  BY TypeParts DEF Inv, CheckerType, DrainCompleted
<1>3. DiscoveryType'
  BY TypeParts, DiscoveryTypeKept DEF Inv, DrainCompleted
<1>4. ProxyType' /\ Counted'
  BY TypeParts, ProxyKept DEF Inv, DrainCompleted
<1>5. BudgetType'
  BY TypeParts, BudgetKept DEF Inv, DrainCompleted
<1>6. Control'
  BY DEF Inv, Control, Closed, DrainCompleted
<1>7. Heard'
  <2>1. phase = "Draining"
    BY DEF Inv, Control, DrainCompleted
  <2>. QED BY <2>1 DEF Inv, Heard, ClosedAt, DrainCompleted, discovery
<1>. QED BY <1>1, <1>2, <1>3, <1>4, <1>5, <1>6, <1>7, TypePartsNext DEF Inv

LEMMA DrainTimedOutInv ==
  ASSUME Inv, DrainTimedOut
  PROVE  Inv'
<1>1. OperatorType'
  BY TypeParts DEF Inv, OperatorType, DrainTimedOut, DeploymentPhases
<1>2. CheckerType'
  BY TypeParts DEF Inv, CheckerType, DrainTimedOut
<1>3. DiscoveryType'
  BY TypeParts, DiscoveryTypeKept DEF Inv, DrainTimedOut
<1>4. ProxyType' /\ Counted'
  BY TypeParts, ProxyKept DEF Inv, DrainTimedOut
<1>5. BudgetType'
  BY TypeParts, BudgetKept DEF Inv, DrainTimedOut
<1>6. Control'
  BY DEF Inv, Control, Closed, DrainTimedOut
<1>7. Heard'
  BY DEF Inv, Heard, ClosedAt, DrainTimedOut, operator, checker, discovery
<1>. QED BY <1>1, <1>2, <1>3, <1>4, <1>5, <1>6, <1>7, TypePartsNext DEF Inv

LEMMA WorkloadMovesInv ==
  ASSUME Inv, WorkloadMoves
  PROVE  Inv'
<1>1. OperatorType'
  BY TypeParts DEF Inv, OperatorType, WorkloadMoves, DeploymentPhases
<1>2. CheckerType'
  BY TypeParts, CheckerTypeKept DEF Inv, WorkloadMoves
<1>3. DiscoveryType'
  BY TypeParts, DiscoveryTypeKept DEF Inv, WorkloadMoves
<1>4. ProxyType' /\ Counted'
  BY TypeParts, ProxyKept DEF Inv, WorkloadMoves
<1>5. BudgetType'
  BY TypeParts, BudgetKept DEF Inv, WorkloadMoves
<1>6. Control'
  BY DEF Inv, Control, WorkloadMoves, checker
<1>7. Heard'
  BY DEF Inv, Heard, ClosedAt, WorkloadMoves, operator, checker, discovery
<1>. QED BY <1>1, <1>2, <1>3, <1>4, <1>5, <1>6, <1>7, TypePartsNext DEF Inv

LEMMA DeactivatedInv ==
  ASSUME Inv, Deactivated
  PROVE  Inv'
<1>1. OperatorType'
  BY TypeParts DEF Inv, OperatorType, Deactivated, DeploymentPhases
<1>2. CheckerType'
  BY TypeParts, CheckerTypeKept DEF Inv, Deactivated
<1>3. DiscoveryType'
  BY TypeParts, DiscoveryTypeKept DEF Inv, Deactivated
<1>4. ProxyType' /\ Counted'
  BY TypeParts, ProxyKept DEF Inv, Deactivated
<1>5. BudgetType'
  BY TypeParts, BudgetKept DEF Inv, Deactivated
<1>6. Control'
  BY DEF Inv, Control, Closed, Deactivated, checker
<1>7. Heard'
  BY DEF Inv, Heard, ClosedAt, Deactivated, operator, checker, discovery
<1>. QED BY <1>1, <1>2, <1>3, <1>4, <1>5, <1>6, <1>7, TypePartsNext DEF Inv

LEMMA ActivateInv ==
  ASSUME Inv, Activate
  PROVE  Inv'
<1>1. OperatorType'
  BY TypeParts DEF Inv, OperatorType, Activate, DeploymentPhases
<1>2. CheckerType'
  BY TypeParts DEF Inv, CheckerType, Activate
<1>3. DiscoveryType'
  BY TypeParts, DiscoveryTypeKept DEF Inv, Activate
<1>4. ProxyType' /\ Counted'
  BY TypeParts, ProxyKept DEF Inv, Activate
<1>5. BudgetType'
  BY TypeParts, BudgetKept DEF Inv, Activate
<1>6. Control'
  BY TypeParts DEF Inv, OperatorType, Control, Closed, Activate
<1>7. Heard'
  <2>1. phase' # "Draining"
    BY TypeParts DEF Inv, OperatorType, Activate
  <2>. QED BY <2>1 DEF Inv, Heard, ClosedAt, Activate, discovery
<1>. QED BY <1>1, <1>2, <1>3, <1>4, <1>5, <1>6, <1>7, TypePartsNext DEF Inv

(* Discovery at one gateway.                                                *)

LEMMA ListDeploymentsInv ==
  ASSUME NEW g \in Gateways, Inv, ListDeployments(g)
  PROVE  Inv'
<1>1. OperatorType'
  BY TypeParts, OperatorTypeKept DEF Inv, ListDeployments
<1>2. CheckerType'
  BY TypeParts, CheckerTypeKept DEF Inv, ListDeployments
<1>3. DiscoveryType'
  <2>1. phase \in DeploymentPhases
    BY TypeParts DEF Inv, OperatorType
  <2>2. [read |-> "deployments", phase |-> phase, active |-> wanted # "inactive",
         endpoints |-> FALSE, this |-> phase = "Draining"] \in Snapshots
    BY <2>1 DEF Snapshots
  <2>. QED BY <2>2, TypeParts DEF Inv, DiscoveryType, ListDeployments
<1>4. ProxyType' /\ Counted'
  BY TypeParts, ProxyKept DEF Inv, ListDeployments
<1>5. BudgetType'
  BY TypeParts, BudgetKept DEF Inv, ListDeployments
<1>6. Control'
  BY DEF Inv, Control, ListDeployments, operator, checker
<1>7. Heard'
  <2>1. \A h \in Gateways \ {g} : snap'[h] = snap[h]
    BY TypeParts DEF Inv, DiscoveryType, ListDeployments
  <2>2. snap'[g].phase = phase /\ snap'[g].this = (phase = "Draining")
    BY TypeParts DEF Inv, DiscoveryType, ListDeployments
  <2>3. UNCHANGED <<phase, answered, reg, heard>>
    BY DEF ListDeployments, operator, checker
  <2>4. answered # {} \/ phase = "Draining" => phase \in Closed
    BY DEF Inv, Control, Closed
  <2>. QED BY <2>1, <2>2, <2>3, <2>4 DEF Inv, Heard, ClosedAt
<1>. QED BY <1>1, <1>2, <1>3, <1>4, <1>5, <1>6, <1>7, TypePartsNext DEF Inv

LEMMA ListServicesInv ==
  ASSUME NEW g \in Gateways, Inv, ListServices(g)
  PROVE  Inv'
<1>1. OperatorType'
  BY TypeParts, OperatorTypeKept DEF Inv, ListServices
<1>2. CheckerType'
  BY TypeParts, CheckerTypeKept DEF Inv, ListServices
<1>3. DiscoveryType'
  <2>1. snap[g] \in Snapshots /\ Endpoints \in BOOLEAN
    BY TypeParts DEF Inv, DiscoveryType, OperatorType, Endpoints
  <2>2. [snap[g] EXCEPT !.read = "all", !.endpoints = Endpoints] \in Snapshots
    BY <2>1 DEF Snapshots
  <2>. QED BY <2>2, TypeParts DEF Inv, DiscoveryType, ListServices
<1>4. ProxyType' /\ Counted'
  BY TypeParts, ProxyKept DEF Inv, ListServices
<1>5. BudgetType'
  BY TypeParts, BudgetKept DEF Inv, ListServices
<1>6. Control'
  BY DEF Inv, Control, ListServices, operator, checker
<1>7. Heard'
  <2>1. \A h \in Gateways \ {g} : snap'[h] = snap[h]
    BY TypeParts DEF Inv, DiscoveryType, ListServices
  <2>2. snap'[g].phase = snap[g].phase /\ snap'[g].this = snap[g].this
    BY TypeParts DEF Inv, DiscoveryType, Snapshots, ListServices
  <2>3. UNCHANGED <<phase, answered, reg, heard>> /\ snap[g].read # "nothing"
    BY DEF ListServices, operator, checker
  <2>. QED BY <2>1, <2>2, <2>3 DEF Inv, Heard, ClosedAt
<1>. QED BY <1>1, <1>2, <1>3, <1>4, <1>5, <1>6, <1>7, TypePartsNext DEF Inv

LEMMA PublishInv ==
  ASSUME NEW g \in Gateways, Inv, Publish(g)
  PROVE  Inv'
<1>1. OperatorType'
  BY TypeParts, OperatorTypeKept DEF Inv, Publish
<1>2. CheckerType'
  BY TypeParts, CheckerTypeKept DEF Inv, Publish
<1>3. DiscoveryType'
  <2>1. snap[g] \in Snapshots /\ heard[g] \in BOOLEAN /\ snap[g].this \in BOOLEAN
    BY TypeParts DEF Inv, DiscoveryType, Snapshots
  <2>2. BackendFor(Fields(snap[g]), TRUE, RuntimeService(snap[g]), snap[g].endpoints)
          \in BackendStates
    BY <2>1, PublishedState
  <2>3. reg' \in [Gateways -> BackendStates \cup {"none"}]
    BY <2>2, TypeParts DEF Inv, DiscoveryType, Publish
  <2>4. heard' \in [Gateways -> BOOLEAN] /\ stale' \in [Gateways -> BOOLEAN]
    BY <2>1, TypeParts DEF Inv, DiscoveryType, Publish
  <2>5. snap' \in [Gateways -> Snapshots]
    BY NoSnapType, TypeParts DEF Inv, DiscoveryType, Publish
  <2>. QED BY <2>3, <2>4, <2>5, TypeParts DEF Inv, DiscoveryType, Publish
<1>4. ProxyType' /\ Counted'
  BY TypeParts, ProxyKept DEF Inv, Publish
<1>5. BudgetType'
  BY TypeParts, BudgetKept DEF Inv, Publish
<1>6. Control'
  BY DEF Inv, Control, Publish, operator, checker
<1>7. Heard'
  <2>1. \A h \in Gateways \ {g} :
          snap'[h] = snap[h] /\ reg'[h] = reg[h] /\ heard'[h] = heard[h]
    BY TypeParts DEF Inv, DiscoveryType, Publish
  <2>2. snap'[g] = NoSnap /\ (heard'[g] => heard[g] \/ snap[g].this)
    BY TypeParts DEF Inv, DiscoveryType, Publish
  <2>3. UNCHANGED <<phase, answered>> /\ snap[g].read # "nothing"
    BY DEF Publish, operator, checker
  <2>4. snap[g] \in Snapshots
    BY TypeParts DEF Inv, DiscoveryType
  <2>5. snap[g].phase \in Closed => reg'[g] # "ready"
    BY <2>4, PublishedState, TypeParts DEF Inv, DiscoveryType, Publish
  <2>6. NoSnap.read = "nothing" /\ ~NoSnap.this
    BY DEF NoSnap
  <2>7. snap[g].this => snap[g].phase \in Closed
    BY DEF Inv, Heard, Closed
  <2>. QED BY <2>1, <2>2, <2>3, <2>5, <2>6, <2>7 DEF Inv, Heard, ClosedAt
<1>. QED BY <1>1, <1>2, <1>3, <1>4, <1>5, <1>6, <1>7, TypePartsNext DEF Inv

LEMMA SyncFailsInv ==
  ASSUME NEW g \in Gateways, Inv, SyncFails(g)
  PROVE  Inv'
<1>1. OperatorType'
  BY TypeParts, OperatorTypeKept DEF Inv, SyncFails
<1>2. CheckerType'
  BY TypeParts, CheckerTypeKept DEF Inv, SyncFails
<1>3. DiscoveryType'
  <2>1. MarkReadyUnavailable(reg[g]) \in BackendStates \cup {"none"}
    BY TypeParts DEF Inv, DiscoveryType, MarkReadyUnavailable, BackendStates
  <2>2. reg' \in [Gateways -> BackendStates \cup {"none"}]
    BY <2>1, TypeParts DEF Inv, DiscoveryType, SyncFails
  <2>3. snap' \in [Gateways -> Snapshots]
    BY NoSnapType, TypeParts DEF Inv, DiscoveryType, SyncFails
  <2>. QED BY <2>2, <2>3, TypeParts DEF Inv, DiscoveryType, SyncFails
<1>4. ProxyType' /\ Counted'
  BY TypeParts, ProxyKept DEF Inv, SyncFails
<1>5. BudgetType'
  BY TypeParts, EventType DEF Inv, SyncFails
<1>6. Control'
  BY DEF Inv, Control, SyncFails, operator, checker
<1>7. Heard'
  <2>1. \A h \in Gateways \ {g} : snap'[h] = snap[h] /\ reg'[h] = reg[h]
    BY TypeParts DEF Inv, DiscoveryType, SyncFails
  <2>2. snap'[g] = NoSnap /\ (reg'[g] = "ready" => reg[g] = "ready")
    BY TypeParts DEF Inv, DiscoveryType, SyncFails, MarkReadyUnavailable
  <2>3. UNCHANGED <<phase, answered, heard>>
    BY DEF SyncFails, operator, checker
  <2>4. NoSnap.read = "nothing" /\ ~NoSnap.this
    BY DEF NoSnap
  <2>. QED BY <2>1, <2>2, <2>3, <2>4 DEF Inv, Heard, ClosedAt
<1>. QED BY <1>1, <1>2, <1>3, <1>4, <1>5, <1>6, <1>7, TypePartsNext DEF Inv

LEMMA BecomesStaleInv ==
  ASSUME NEW g \in Gateways, Inv, BecomesStale(g)
  PROVE  Inv'
<1>1. OperatorType'
  BY TypeParts, OperatorTypeKept DEF Inv, BecomesStale
<1>2. CheckerType'
  BY TypeParts, CheckerTypeKept DEF Inv, BecomesStale
<1>3. DiscoveryType'
  BY TypeParts DEF Inv, DiscoveryType, BecomesStale
<1>4. ProxyType' /\ Counted'
  BY TypeParts, ProxyKept DEF Inv, BecomesStale
<1>5. BudgetType'
  BY TypeParts, EventType DEF Inv, BecomesStale
<1>6. Control'
  BY DEF Inv, Control, BecomesStale, operator, checker
<1>7. Heard'
  BY DEF Inv, Heard, ClosedAt, BecomesStale, operator, checker, discovery
<1>. QED BY <1>1, <1>2, <1>3, <1>4, <1>5, <1>6, <1>7, TypePartsNext DEF Inv

LEMMA ProbeMovesInv ==
  ASSUME NEW g \in Gateways, Inv, ProbeMoves(g)
  PROVE  Inv'
<1>1. OperatorType'
  BY TypeParts, OperatorTypeKept DEF Inv, ProbeMoves
<1>2. CheckerType'
  BY TypeParts, CheckerTypeKept DEF Inv, ProbeMoves
<1>3. DiscoveryType'
  BY TypeParts DEF Inv, DiscoveryType, ProbeMoves
<1>4. ProxyType' /\ Counted'
  BY TypeParts, ProxyKept DEF Inv, ProbeMoves
<1>5. BudgetType'
  BY TypeParts, BudgetKept DEF Inv, ProbeMoves
<1>6. Control'
  BY DEF Inv, Control, ProbeMoves, operator, checker
<1>7. Heard'
  BY DEF Inv, Heard, ClosedAt, ProbeMoves, operator, checker, discovery
<1>. QED BY <1>1, <1>2, <1>3, <1>4, <1>5, <1>6, <1>7, TypePartsNext DEF Inv
(* Requests at one gateway.                                                 *)

(* Only requests and counts move, so answers and registries stay as they    *)
(* are.                                                                     *)
LEMMA ProxyStep ==
  ASSUME Inv, UNCHANGED <<operator, checker, discovery>>,
         ProxyType', Counted', BudgetType'
  PROVE  Inv'
<1>1. OperatorType' /\ CheckerType' /\ DiscoveryType'
  BY TypeParts, OperatorTypeKept, CheckerTypeKept, DiscoveryTypeKept DEF Inv
<1>2. Control'
  BY DEF Inv, Control, operator, checker
<1>3. Heard'
  BY DEF Inv, Heard, ClosedAt, operator, checker, discovery
<1>. QED BY <1>1, <1>2, <1>3, TypePartsNext DEF Inv

LEMMA SelectInv ==
  ASSUME NEW r \in Requests, NEW g \in Gateways, Inv, Select(r, g)
  PROVE  Inv'
<1>1. req' = [req EXCEPT ![r] = [st |-> "selected", at |-> g]] /\ req[r].st = "idle"
      /\ UNCHANGED active
  BY DEF Select
<1>2. ProxyType'
  BY <1>1, TypeParts DEF Inv, ProxyType
<1>3. \A h \in Gateways : Forwarding(h)' = Forwarding(h)
  BY <1>1, TypeParts, SMTT(60) DEF Inv, ProxyType, Forwarding
<1>4. Counted'
  BY <1>1, <1>3, TypeParts DEF Inv, ProxyType, Counted
<1>5. BudgetType'
  BY TypeParts, EventType DEF Inv, Select
<1>. QED BY <1>2, <1>4, <1>5, ProxyStep DEF Select

LEMMA BeginInv ==
  ASSUME NEW r \in Requests, Inv, Begin(r)
  PROVE  Inv'
<1> DEFINE g == req[r].at
<1>1. g \in Gateways
  BY DEF Inv, Counted, Begin
<1>2. /\ req' = [req EXCEPT ![r].st = "forwarding"] /\ req[r].st = "selected"
      /\ active' = [active EXCEPT ![g] = active[g] + 1]
  BY DEF Begin
<1>3. /\ Forwarding(g)' = Forwarding(g) \cup {r} /\ r \notin Forwarding(g)
      /\ \A h \in Gateways \ {g} : Forwarding(h)' = Forwarding(h)
  BY <1>2, TypeParts, SMTT(60) DEF Inv, ProxyType, Forwarding
<1>4. Cardinality(Forwarding(g)') = Cardinality(Forwarding(g)) + 1
  BY <1>3, ForwardingFinite, FS_AddElement
<1>5. Cardinality(Forwarding(g)') \in 0 .. Cardinality(Requests)
  <2>1. Forwarding(g)' \subseteq Requests
    BY DEF Forwarding
  <2>. QED BY <2>1, FS_Subset, FS_CardinalityType, SMTT(60)
<1>6. active' \in [Gateways -> 0 .. Cardinality(Requests)]
  BY <1>1, <1>2, <1>4, <1>5, TypeParts DEF Inv, ProxyType, Counted
<1>7. req' \in [Requests -> [st : {"idle", "selected", "forwarding", "done"},
                             at : Gateways \cup {0}]]
  BY <1>2, TypeParts DEF Inv, ProxyType
<1>8. \A h \in Gateways : active'[h] = Cardinality(Forwarding(h)')
  BY <1>1, <1>2, <1>3, <1>4, TypeParts DEF Inv, ProxyType, Counted
<1>9. \A q \in Requests : req'[q].st # "idle" => req'[q].at \in Gateways
  BY <1>1, <1>2, TypeParts DEF Inv, ProxyType, Counted
<1>10. BudgetType'
  BY TypeParts, BudgetKept DEF Inv, Begin
<1>11. ProxyType' /\ Counted'
  BY <1>6, <1>7, <1>8, <1>9 DEF ProxyType, Counted
<1>. QED BY <1>10, <1>11, ProxyStep DEF Begin

LEMMA DoneInv ==
  ASSUME NEW r \in Requests, Inv, Done(r)
  PROVE  Inv'
<1> DEFINE g == req[r].at
<1>1. g \in Gateways
  BY DEF Inv, Counted, Done
<1>2. /\ req' = [req EXCEPT ![r].st = "done"] /\ req[r].st = "forwarding"
      /\ active' = [active EXCEPT ![g] = CountAfterDone(active[g])]
  BY DEF Done
<1>3. /\ Forwarding(g)' = Forwarding(g) \ {r} /\ r \in Forwarding(g)
      /\ \A h \in Gateways \ {g} : Forwarding(h)' = Forwarding(h)
  BY <1>2, TypeParts, SMTT(60) DEF Inv, ProxyType, Forwarding
<1>4. /\ Cardinality(Forwarding(g)') = Cardinality(Forwarding(g)) - 1
      /\ IsFiniteSet(Forwarding(g)')
  BY <1>3, ForwardingFinite, FS_RemoveElement, SMTT(60)
<1>5. Cardinality(Forwarding(g)') \in 0 .. Cardinality(Requests)
  <2>1. Forwarding(g)' \subseteq Requests
    BY DEF Forwarding
  <2>. QED BY <2>1, FS_Subset, FS_CardinalityType, SMTT(60)
<1>6. CountAfterDone(active[g]) = Cardinality(Forwarding(g)')
  <2>1. active[g] = Cardinality(Forwarding(g))
    BY <1>1 DEF Inv, Counted
  <2>2. Cardinality(Forwarding(g)) \in Nat /\ Cardinality(Forwarding(g)') \in Nat
    BY <1>4, ForwardingFinite, FS_CardinalityType
  <2>. QED BY <1>4, <2>1, <2>2, SMTT(60) DEF CountAfterDone
<1>7. ProxyType'
  <2>1. req' \in [Requests -> [st : {"idle", "selected", "forwarding", "done"},
                               at : Gateways \cup {0}]]
    BY <1>2, TypeParts DEF Inv, ProxyType
  <2>2. active' \in [Gateways -> 0 .. Cardinality(Requests)]
    BY <1>2, <1>5, <1>6, TypeParts DEF Inv, ProxyType
  <2>. QED BY <2>1, <2>2 DEF ProxyType
<1>8. \A h \in Gateways : active'[h] = Cardinality(Forwarding(h)')
  BY <1>1, <1>2, <1>3, <1>6, TypeParts DEF Inv, ProxyType, Counted
<1>9. \A q \in Requests : req'[q].st # "idle" => req'[q].at \in Gateways
  BY <1>1, <1>2, TypeParts DEF Inv, ProxyType, Counted
<1>10. BudgetType'
  BY TypeParts, BudgetKept DEF Inv, Done
<1>11. Counted'
  BY <1>8, <1>9 DEF Counted
<1>. QED BY <1>7, <1>10, <1>11, ProxyStep DEF Done

-----------------------------------------------------------------------------
LEMMA NextInv == Inv /\ [Next]_vars => Inv'
<1> SUFFICES ASSUME Inv, [Next]_vars PROVE Inv'
  OBVIOUS
<1>1. CASE Switch BY <1>1, SwitchInv
<1>2. CASE OperatorStep
  BY <1>2, StartDrainInv, DeleteRuntimeWorkloadInv, StartCheckInv, ReadBackendsInv,
     ReadActiveCountInv, DrainCompletedInv, DeactivatedInv, ActivateInv DEF OperatorStep
<1>3. CASE CheckFails BY <1>3, CheckFailsInv
<1>4. CASE DrainTimedOut BY <1>4, DrainTimedOutInv
<1>5. CASE WorkloadMoves BY <1>5, WorkloadMovesInv
<1>6. ASSUME NEW g \in Gateways,
             \/ ListDeployments(g) \/ ListServices(g) \/ Publish(g) \/ SyncFails(g)
             \/ BecomesStale(g) \/ ProbeMoves(g)
      PROVE  Inv'
  BY <1>6, ListDeploymentsInv, ListServicesInv, PublishInv, SyncFailsInv, BecomesStaleInv,
     ProbeMovesInv
<1>7. ASSUME NEW g \in Gateways, NEW r \in Requests, Select(r, g) PROVE Inv'
  BY <1>7, SelectInv
<1>8. ASSUME NEW r \in Requests, Begin(r) \/ Done(r) PROVE Inv'
  BY <1>8, BeginInv, DoneInv
<1>9. CASE UNCHANGED vars
  <2>1. UNCHANGED <<operator, checker, discovery, proxy, budget>>
    BY <1>9 DEF vars, operator, checker, discovery, proxy, budget
  <2>2. ProxyType' /\ Counted' /\ BudgetType'
    BY <2>1, TypeParts, ProxyKept, BudgetKept DEF Inv
  <2>. QED BY <2>1, <2>2, ProxyStep
<1>. QED BY <1>1, <1>2, <1>3, <1>4, <1>5, <1>6, <1>7, <1>8, <1>9 DEF Next

LEMMA InvAlways == Spec => []Inv
BY InitInv, NextInv, PTL DEF Spec

(* The deployment, the check, every gateway's snapshot, registry and count  *)
(* and every request stay well formed, whatever is wanted how often.        *)
THEOREM TypeCorrect == Spec => []TypeOK
<1>1. Inv => TypeOK
  BY DEF Inv
<1>. QED BY <1>1, InvAlways, PTL

(* Every answer of a gateway that has heard of the present drain lasts until *)
(* the model is activated: no failed or late Sync, no stale snapshot and no  *)
(* poll of another gateway opens it again.  This holds of every drain.       *)
THEOREM HeardAnswersLast == Spec => []HeardStaysClosed
<1>1. Inv => HeardStaysClosed
  <2> SUFFICES ASSUME Inv, NEW g \in answered, heard[g] PROVE reg[g] # "ready"
    BY DEF HeardStaysClosed
  <2>1. g \in Gateways
    BY DEF Inv, TypeOK
  <2>. QED BY <2>1 DEF Inv, Heard, ClosedAt
<1>. QED BY <1>1, InvAlways, PTL

-----------------------------------------------------------------------------
(* The first drain a gateway process sees.                                   *)

LEMMA InitFirst == Init => FirstDrain
<1> SUFFICES ASSUME Init PROVE FirstDrain
  OBVIOUS
<1>1. Switched /\ Marked
  BY DEF Init, Switched, Marked, Closed
<1>2. Earlier
  BY DEF Init, Earlier, NoSnap
<1>3. Asked /\ Late
  BY DEF Init, Asked, Late
<1>. QED BY <1>1, <1>2, <1>3 DEF FirstDrain

LEMMA SwitchedKept == Switched /\ UNCHANGED <<wanted, phase, switches>> => Switched'
BY DEF Switched

LEMMA EarlierKept ==
  Earlier /\ UNCHANGED <<wanted, phase, switches, reg, snap>> => Earlier'
BY DEF Earlier

LEMMA MarkedKept == Marked /\ UNCHANGED <<phase, reg, snap, heard>> => Marked'
BY DEF Marked

LEMMA AskedKept ==
  Asked /\ UNCHANGED <<toAsk, seen, check, heard, answered>> => Asked'
BY DEF Asked, Polled

LEMMA LateKept == Late /\ UNCHANGED <<req, answered, late>> => Late'
BY DEF Late

(* A gateway that has answered does not admit.                               *)
LEMMA AnsweredClosed ==
  ASSUME Inv, FirstDrain, NEW g \in answered
  PROVE  g \in Gateways /\ reg[g] # "ready"
<1>1. g \in Gateways
  BY DEF Inv, TypeOK
<1>2. heard[g]
  BY DEF FirstDrain, Asked
<1>. QED BY <1>1, <1>2 DEF Inv, Heard, ClosedAt

LEMMA SwitchFirst ==
  ASSUME MaxSwitches <= 2, Inv, FirstDrain, Switch
  PROVE  FirstDrain'
<1>1. Switched'
  BY TypeParts, SMTT(60) DEF Inv, BudgetType, FirstDrain, Switched, Switch
<1>2. Earlier'
  <2>1. switches \in Nat /\ switches < 2 /\ MaxSwitches \in Nat
    BY TypeParts, SMTT(60) DEF Inv, BudgetType, Switch
  <2>2. ~(switches >= 2)
    BY <2>1, SMTT(60)
  <2>3. UNCHANGED <<phase, reg, snap>>
    BY DEF Switch, discovery
  <2>. QED BY <2>2, <2>3 DEF FirstDrain, Earlier
<1>3. Marked'
  BY MarkedKept DEF FirstDrain, Switch, operator, checker, discovery, proxy, budget, Event
<1>4. Asked'
  BY AskedKept DEF FirstDrain, Switch, operator, checker, discovery, proxy, budget, Event
<1>5. Late'
  BY LateKept DEF FirstDrain, Switch, operator, checker, discovery, proxy, budget, Event
<1>. QED BY <1>1, <1>2, <1>3, <1>4, <1>5 DEF FirstDrain

LEMMA StartDrainFirst ==
  ASSUME Inv, FirstDrain, StartDrain
  PROVE  FirstDrain'
<1>1. Switched'
  BY DEF FirstDrain, Switched, StartDrain, budget
<1>2. Earlier'
  BY DEF Earlier, Closed, StartDrain
<1>3. Marked'
  <2>1. phase \notin Closed
    BY DEF Inv, Control, Closed, StartDrain
  <2>2. \A g \in Gateways : reg[g] # "draining" /\ snap[g].phase # "Draining"
    BY <2>1 DEF FirstDrain, Earlier, StartDrain
  <2>3. \A g \in Gateways : snap'[g].phase = snap[g].phase /\ reg'[g] = reg[g]
    BY TypeParts, SMTT(60) DEF Inv, DiscoveryType, Snapshots, StartDrain
  <2>. QED BY <2>2, <2>3 DEF Marked
<1>4. Asked'
  <2>1. phase \notin Closed
    BY DEF Inv, Control, Closed, StartDrain
  <2>2. answered = {} /\ check = "idle"
    BY <2>1 DEF Inv, Control, Closed
  <2>. QED BY <2>2 DEF Asked, StartDrain, checker
<1>5. Late'
  BY LateKept DEF FirstDrain, StartDrain, operator, checker, discovery, proxy, budget, Event
<1>. QED BY <1>1, <1>2, <1>3, <1>4, <1>5 DEF FirstDrain

LEMMA DeleteRuntimeWorkloadFirst ==
  ASSUME Inv, FirstDrain, DeleteRuntimeWorkload
  PROVE  FirstDrain'
<1>1. Switched'
  BY SwitchedKept DEF FirstDrain, DeleteRuntimeWorkload, operator, checker, discovery, proxy, budget, Event
<1>2. Earlier'
  BY EarlierKept DEF FirstDrain, DeleteRuntimeWorkload, operator, checker, discovery, proxy, budget, Event
<1>3. Marked'
  BY MarkedKept DEF FirstDrain, DeleteRuntimeWorkload, operator, checker, discovery, proxy, budget, Event
<1>4. Asked'
  BY AskedKept DEF FirstDrain, DeleteRuntimeWorkload, operator, checker, discovery, proxy, budget, Event
<1>5. Late'
  BY LateKept DEF FirstDrain, DeleteRuntimeWorkload, operator, checker, discovery, proxy, budget, Event
<1>. QED BY <1>1, <1>2, <1>3, <1>4, <1>5 DEF FirstDrain

LEMMA StartCheckFirst ==
  ASSUME Inv, FirstDrain, StartCheck
  PROVE  FirstDrain'
<1>1. Switched'
  BY SwitchedKept DEF FirstDrain, StartCheck, operator, checker, discovery, proxy, budget, Event
<1>2. Earlier'
  BY EarlierKept DEF FirstDrain, StartCheck, operator, checker, discovery, proxy, budget, Event
<1>3. Marked'
  BY MarkedKept DEF FirstDrain, StartCheck, operator, checker, discovery, proxy, budget, Event
<1>4. Asked'
  BY DEF Asked, StartCheck
<1>5. Late'
  BY DEF Late, StartCheck
<1>. QED BY <1>1, <1>2, <1>3, <1>4, <1>5 DEF FirstDrain

LEMMA ReadBackendsFirst ==
  ASSUME Inv, FirstDrain, ReadBackends
  PROVE  FirstDrain'
<1>1. Switched'
  BY SwitchedKept DEF FirstDrain, ReadBackends, operator, checker, discovery, proxy, budget, Event
<1>2. Earlier'
  BY EarlierKept DEF FirstDrain, ReadBackends, operator, checker, discovery, proxy, budget, Event
<1>3. Marked'
  BY MarkedKept DEF FirstDrain, ReadBackends, operator, checker, discovery, proxy, budget, Event
<1>4. Asked'
  <2>1. Polled \in Gateways /\ phase = "Draining"
    BY PolledIsAsked DEF Inv, Control, ReadBackends
  <2>2. reg[Polled] = "draining" => heard[Polled]
    BY <2>1 DEF FirstDrain, Marked
  <2>3. CASE reg[Polled] = "none"
    BY <2>3 DEF FirstDrain, Asked, ReadBackends, discovery
  <2>4. CASE reg[Polled] # "none"
    BY <2>2, <2>4 DEF FirstDrain, Asked, ReadBackends, discovery, Polled
  <2>. QED BY <2>3, <2>4
<1>5. Late'
  BY LateKept DEF FirstDrain, ReadBackends, operator, checker, discovery, proxy, budget, Event
<1>. QED BY <1>1, <1>2, <1>3, <1>4, <1>5 DEF FirstDrain

LEMMA ReadActiveCountFirst ==
  ASSUME Inv, FirstDrain, ReadActiveCount
  PROVE  FirstDrain'
<1>1. Switched'
  BY SwitchedKept DEF FirstDrain, ReadActiveCount, operator, checker, discovery, proxy, budget, Event
<1>2. Earlier'
  BY EarlierKept DEF FirstDrain, ReadActiveCount, operator, checker, discovery, proxy, budget, Event
<1>3. Marked'
  BY MarkedKept DEF FirstDrain, ReadActiveCount, operator, checker, discovery, proxy, budget, Event
<1>4. Asked'
  <2>1. DrainComplete(seen, active[Polled]) => heard[Polled]
    BY DEF FirstDrain, Asked, ReadActiveCount, DrainComplete
  <2>2. \A g \in answered' : heard[g]
    BY <2>1 DEF FirstDrain, Asked, ReadActiveCount
  <2>. QED BY <2>2 DEF Asked, ReadActiveCount, discovery
<1>5. Late'
  <2>1. Polled \in Gateways
    BY PolledIsAsked DEF Inv, ReadActiveCount
  <2>2. CASE ~DrainComplete(seen, active[Polled])
    BY <2>2, LateKept DEF FirstDrain, ReadActiveCount, proxy
  <2>3. CASE DrainComplete(seen, active[Polled])
    <3>1. Cardinality(Forwarding(Polled)) = 0
      BY <2>1, <2>3 DEF Inv, Counted, DrainComplete
    <3>2. Forwarding(Polled) = {}
      BY <3>1, ForwardingFinite, FS_EmptySet
    <3>3. ASSUME NEW r \in Requests, req[r].st \in {"selected", "forwarding"}, req[r].at = Polled
          PROVE  req[r] = [st |-> "selected", at |-> Polled]
      BY <3>2, <3>3, TypeParts DEF Inv, ProxyType, Forwarding
    <3>4. /\ answered' = answered \cup {Polled} /\ req' = req
          /\ late' = late \cup {r \in Requests : req[r] = [st |-> "selected", at |-> Polled]}
      BY <2>3 DEF ReadActiveCount, proxy
    <3>. QED BY <3>3, <3>4 DEF FirstDrain, Late
  <2>. QED BY <2>2, <2>3
<1>. QED BY <1>1, <1>2, <1>3, <1>4, <1>5 DEF FirstDrain

LEMMA CheckFailsFirst ==
  ASSUME Inv, FirstDrain, CheckFails
  PROVE  FirstDrain'
<1>1. Switched'
  BY SwitchedKept DEF FirstDrain, CheckFails, operator, checker, discovery, proxy, budget, Event
<1>2. Earlier'
  BY EarlierKept DEF FirstDrain, CheckFails, operator, checker, discovery, proxy, budget, Event
<1>3. Marked'
  BY MarkedKept DEF FirstDrain, CheckFails, operator, checker, discovery, proxy, budget, Event
<1>4. Asked'
  BY DEF FirstDrain, Asked, CheckFails, discovery
<1>5. Late'
  BY LateKept DEF FirstDrain, CheckFails, operator, checker, discovery, proxy, budget, Event
<1>. QED BY <1>1, <1>2, <1>3, <1>4, <1>5 DEF FirstDrain

LEMMA DrainCompletedFirst ==
  ASSUME Inv, FirstDrain, DrainCompleted
  PROVE  FirstDrain'
<1>1. Switched'
  BY DEF Inv, Control, FirstDrain, Switched, Closed, DrainCompleted, budget
<1>2. Earlier'
  BY DEF Earlier, Closed, DrainCompleted
<1>3. Marked'
  BY DEF Marked, DrainCompleted
<1>4. Asked'
  BY DEF FirstDrain, Asked, DrainCompleted, discovery
<1>5. Late'
  BY LateKept DEF FirstDrain, DrainCompleted, operator, checker, discovery, proxy, budget, Event
<1>. QED BY <1>1, <1>2, <1>3, <1>4, <1>5 DEF FirstDrain

LEMMA DrainTimedOutFirst ==
  ASSUME Inv, FirstDrain, DrainTimedOut
  PROVE  FirstDrain'
<1>1. Switched'
  BY DEF FirstDrain, Switched, DrainTimedOut, budget
<1>2. Earlier'
  BY DEF Earlier, Closed, DrainTimedOut
<1>3. Marked'
  BY DEF Marked, DrainTimedOut
<1>4. Asked'
  BY DEF FirstDrain, Asked, DrainTimedOut, discovery, Polled
<1>5. Late'
  BY DEF Late, DrainTimedOut
<1>. QED BY <1>1, <1>2, <1>3, <1>4, <1>5 DEF FirstDrain

LEMMA WorkloadMovesFirst ==
  ASSUME Inv, FirstDrain, WorkloadMoves
  PROVE  FirstDrain'
<1>1. Switched'
  BY SwitchedKept DEF FirstDrain, WorkloadMoves, operator, checker, discovery, proxy, budget, Event
<1>2. Earlier'
  BY EarlierKept DEF FirstDrain, WorkloadMoves, operator, checker, discovery, proxy, budget, Event
<1>3. Marked'
  BY MarkedKept DEF FirstDrain, WorkloadMoves, operator, checker, discovery, proxy, budget, Event
<1>4. Asked'
  BY AskedKept DEF FirstDrain, WorkloadMoves, operator, checker, discovery, proxy, budget, Event
<1>5. Late'
  BY LateKept DEF FirstDrain, WorkloadMoves, operator, checker, discovery, proxy, budget, Event
<1>. QED BY <1>1, <1>2, <1>3, <1>4, <1>5 DEF FirstDrain

LEMMA DeactivatedFirst ==
  ASSUME Inv, FirstDrain, Deactivated
  PROVE  FirstDrain'
<1>1. Switched'
  BY DEF FirstDrain, Switched, Deactivated, budget
<1>2. Earlier'
  BY DEF Earlier, Closed, Deactivated
<1>3. Marked'
  BY DEF Marked, Deactivated
<1>4. Asked'
  BY AskedKept DEF FirstDrain, Deactivated, operator, checker, discovery, proxy, budget, Event
<1>5. Late'
  BY LateKept DEF FirstDrain, Deactivated, operator, checker, discovery, proxy, budget, Event
<1>. QED BY <1>1, <1>2, <1>3, <1>4, <1>5 DEF FirstDrain

LEMMA ActivateFirst ==
  ASSUME Inv, FirstDrain, Activate
  PROVE  FirstDrain'
<1>1. Switched'
  <2>1. phase' \notin Closed /\ wanted' = "active"
    BY TypeParts DEF Inv, OperatorType, Closed, Activate
  <2>. QED BY <2>1 DEF Switched
<1>2. Earlier'
  BY DEF FirstDrain, Switched, Earlier, Activate, discovery, budget
<1>3. Marked'
  <2>1. phase' # "Draining"
    BY TypeParts DEF Inv, OperatorType, Activate
  <2>. QED BY <2>1 DEF Marked
<1>4. Asked'
  BY DEF FirstDrain, Asked, Activate, discovery
<1>5. Late'
  BY DEF Late, Activate
<1>. QED BY <1>1, <1>2, <1>3, <1>4, <1>5 DEF FirstDrain


LEMMA ListDeploymentsFirst ==
  ASSUME NEW g \in Gateways, Inv, FirstDrain, ListDeployments(g)
  PROVE  FirstDrain'
<1>1. Switched'
  BY SwitchedKept DEF FirstDrain, ListDeployments, operator, checker, discovery, proxy, budget, Event
<1>2. Earlier'
  <2>1. /\ snap'[g].phase = phase
        /\ \A h \in Gateways \ {g} : snap'[h] = snap[h]
    BY TypeParts DEF Inv, DiscoveryType, ListDeployments
  <2>2. UNCHANGED <<wanted, phase, switches, reg>>
    BY DEF ListDeployments, operator, budget
  <2>. QED BY <2>1, <2>2 DEF FirstDrain, Earlier, Closed
<1>3. Marked'
  <2>1. /\ snap'[g].this = (phase = "Draining")
        /\ \A h \in Gateways \ {g} : snap'[h] = snap[h]
    BY TypeParts DEF Inv, DiscoveryType, ListDeployments
  <2>2. UNCHANGED <<phase, reg, heard>>
    BY DEF ListDeployments, operator
  <2>. QED BY <2>1, <2>2 DEF FirstDrain, Marked
<1>4. Asked'
  BY AskedKept DEF FirstDrain, ListDeployments, operator, checker, discovery, proxy, budget, Event
<1>5. Late'
  BY LateKept DEF FirstDrain, ListDeployments, operator, checker, discovery, proxy, budget, Event
<1>. QED BY <1>1, <1>2, <1>3, <1>4, <1>5 DEF FirstDrain

LEMMA ListServicesFirst ==
  ASSUME NEW g \in Gateways, Inv, FirstDrain, ListServices(g)
  PROVE  FirstDrain'
<1>1. Switched'
  BY SwitchedKept DEF FirstDrain, ListServices, operator, checker, discovery, proxy, budget, Event
<1>2. Earlier'
  <2>1. \A h \in Gateways : snap'[h].phase = snap[h].phase
    BY TypeParts DEF Inv, DiscoveryType, Snapshots, ListServices
  <2>2. UNCHANGED <<wanted, phase, switches, reg>>
    BY DEF ListServices, operator, budget
  <2>. QED BY <2>1, <2>2 DEF FirstDrain, Earlier
<1>3. Marked'
  <2>1. \A h \in Gateways : snap'[h].phase = snap[h].phase /\ snap'[h].this = snap[h].this
    BY TypeParts DEF Inv, DiscoveryType, Snapshots, ListServices
  <2>2. UNCHANGED <<phase, reg, heard>>
    BY DEF ListServices, operator
  <2>. QED BY <2>1, <2>2 DEF FirstDrain, Marked
<1>4. Asked'
  BY AskedKept DEF FirstDrain, ListServices, operator, checker, discovery, proxy, budget, Event
<1>5. Late'
  BY LateKept DEF FirstDrain, ListServices, operator, checker, discovery, proxy, budget, Event
<1>. QED BY <1>1, <1>2, <1>3, <1>4, <1>5 DEF FirstDrain

LEMMA PublishFirst ==
  ASSUME NEW g \in Gateways, Inv, FirstDrain, Publish(g)
  PROVE  FirstDrain'
<1>1. Switched'
  BY SwitchedKept DEF FirstDrain, Publish, operator, checker, discovery, proxy, budget, Event
<1>2. Earlier'
  <2>1. \A h \in Gateways \ {g} : snap'[h] = snap[h] /\ reg'[h] = reg[h]
    BY TypeParts DEF Inv, DiscoveryType, Publish
  <2>2. snap'[g] = NoSnap /\ NoSnap.phase # "Draining"
    BY TypeParts DEF Inv, DiscoveryType, Publish, NoSnap
  <2>3. reg'[g] = "draining" => snap[g].phase = "Draining"
    BY PublishedState, TypeParts DEF Inv, DiscoveryType, Publish
  <2>4. UNCHANGED <<wanted, phase, switches>>
    BY DEF Publish, operator, budget
  <2>. QED BY <2>1, <2>2, <2>3, <2>4 DEF FirstDrain, Earlier
<1>3. Marked'
  <2>1. \A h \in Gateways \ {g} :
          snap'[h] = snap[h] /\ reg'[h] = reg[h] /\ heard'[h] = heard[h]
    BY TypeParts DEF Inv, DiscoveryType, Publish
  <2>2. snap'[g] = NoSnap /\ NoSnap.phase # "Draining"
    BY TypeParts DEF Inv, DiscoveryType, Publish, NoSnap
  <2>3. reg'[g] = "draining" => snap[g].phase = "Draining"
    BY PublishedState, TypeParts DEF Inv, DiscoveryType, Publish
  <2>4. heard'[g] = (heard[g] \/ snap[g].this) /\ UNCHANGED phase
    BY TypeParts DEF Inv, DiscoveryType, Publish, operator
  <2>. QED BY <2>1, <2>2, <2>3, <2>4 DEF FirstDrain, Marked
<1>4. Asked'
  <2>1. \A h \in Gateways : heard[h] => heard'[h]
    BY TypeParts DEF Inv, DiscoveryType, Publish
  <2>2. UNCHANGED <<toAsk, seen, check, answered>>
    BY DEF Publish, checker
  <2>3. answered \subseteq Gateways /\ (check = "asking" => Polled \in Gateways)
    BY PolledIsAsked DEF Inv, TypeOK
  <2>4. Polled' = Polled
    BY <2>2 DEF Polled
  <2>. QED BY <2>1, <2>2, <2>3, <2>4 DEF FirstDrain, Asked
<1>5. Late'
  BY LateKept DEF FirstDrain, Publish, operator, checker, discovery, proxy, budget, Event
<1>. QED BY <1>1, <1>2, <1>3, <1>4, <1>5 DEF FirstDrain

LEMMA SyncFailsFirst ==
  ASSUME NEW g \in Gateways, Inv, FirstDrain, SyncFails(g)
  PROVE  FirstDrain'
<1>1. Switched'
  BY SwitchedKept DEF FirstDrain, SyncFails, operator, checker, discovery, proxy, budget, Event
<1>2. Earlier'
  <2>1. \A h \in Gateways :
          /\ snap'[h] = snap[h] \/ snap'[h] = NoSnap
          /\ reg'[h] = "draining" => reg[h] = "draining"
    BY TypeParts DEF Inv, DiscoveryType, SyncFails, MarkReadyUnavailable
  <2>2. UNCHANGED <<wanted, phase, switches>> /\ NoSnap.phase # "Draining"
    BY DEF SyncFails, Event, operator, NoSnap
  <2>. QED BY <2>1, <2>2 DEF FirstDrain, Earlier
<1>3. Marked'
  <2>1. \A h \in Gateways :
          /\ snap'[h] = snap[h] \/ snap'[h] = NoSnap
          /\ reg'[h] = "draining" => reg[h] = "draining"
    BY TypeParts DEF Inv, DiscoveryType, SyncFails, MarkReadyUnavailable
  <2>2. UNCHANGED <<phase, heard>> /\ NoSnap.phase # "Draining"
    BY DEF SyncFails, operator, NoSnap
  <2>. QED BY <2>1, <2>2 DEF FirstDrain, Marked
<1>4. Asked'
  BY AskedKept DEF FirstDrain, SyncFails, operator, checker, discovery, proxy, budget, Event
<1>5. Late'
  BY LateKept DEF FirstDrain, SyncFails, operator, checker, discovery, proxy, budget, Event
<1>. QED BY <1>1, <1>2, <1>3, <1>4, <1>5 DEF FirstDrain

LEMMA BecomesStaleFirst ==
  ASSUME NEW g \in Gateways, Inv, FirstDrain, BecomesStale(g)
  PROVE  FirstDrain'
<1>1. Switched'
  BY SwitchedKept DEF FirstDrain, BecomesStale, operator, checker, discovery, proxy, budget, Event
<1>2. Earlier'
  BY EarlierKept DEF FirstDrain, BecomesStale, operator, checker, discovery, proxy, budget, Event
<1>3. Marked'
  BY MarkedKept DEF FirstDrain, BecomesStale, operator, checker, discovery, proxy, budget, Event
<1>4. Asked'
  BY AskedKept DEF FirstDrain, BecomesStale, operator, checker, discovery, proxy, budget, Event
<1>5. Late'
  BY LateKept DEF FirstDrain, BecomesStale, operator, checker, discovery, proxy, budget, Event
<1>. QED BY <1>1, <1>2, <1>3, <1>4, <1>5 DEF FirstDrain

LEMMA ProbeMovesFirst ==
  ASSUME NEW g \in Gateways, Inv, FirstDrain, ProbeMoves(g)
  PROVE  FirstDrain'
<1>1. Switched'
  BY SwitchedKept DEF FirstDrain, ProbeMoves, operator, checker, discovery, proxy, budget, Event
<1>2. Earlier'
  BY EarlierKept DEF FirstDrain, ProbeMoves, operator, checker, discovery, proxy, budget, Event
<1>3. Marked'
  BY MarkedKept DEF FirstDrain, ProbeMoves, operator, checker, discovery, proxy, budget, Event
<1>4. Asked'
  BY AskedKept DEF FirstDrain, ProbeMoves, operator, checker, discovery, proxy, budget, Event
<1>5. Late'
  BY LateKept DEF FirstDrain, ProbeMoves, operator, checker, discovery, proxy, budget, Event
<1>. QED BY <1>1, <1>2, <1>3, <1>4, <1>5 DEF FirstDrain

LEMMA SelectFirst ==
  ASSUME NEW r \in Requests, NEW g \in Gateways, Inv, FirstDrain, Select(r, g)
  PROVE  FirstDrain'
<1>1. Switched'
  BY SwitchedKept DEF FirstDrain, Select, operator, checker, discovery, proxy, budget, Event
<1>2. Earlier'
  BY EarlierKept DEF FirstDrain, Select, operator, checker, discovery, proxy, budget, Event
<1>3. Marked'
  BY MarkedKept DEF FirstDrain, Select, operator, checker, discovery, proxy, budget, Event
<1>4. Asked'
  BY AskedKept DEF FirstDrain, Select, operator, checker, discovery, proxy, budget, Event
<1>5. Late'
  <2>1. g \notin answered
    BY AnsweredClosed DEF Select
  <2>2. \A q \in Requests :
          req'[q] = IF q = r THEN [st |-> "selected", at |-> g] ELSE req[q]
    BY TypeParts DEF Inv, ProxyType, Select
  <2>3. UNCHANGED <<answered, late>>
    BY DEF Select, checker
  <2>. QED BY <2>1, <2>2, <2>3, SMTT(60) DEF FirstDrain, Late
<1>. QED BY <1>1, <1>2, <1>3, <1>4, <1>5 DEF FirstDrain

LEMMA BeginFirst ==
  ASSUME NEW r \in Requests, Inv, FirstDrain, Begin(r)
  PROVE  FirstDrain'
<1>1. Switched'
  BY SwitchedKept DEF FirstDrain, Begin, operator, checker, discovery, proxy, budget, Event
<1>2. Earlier'
  BY EarlierKept DEF FirstDrain, Begin, operator, checker, discovery, proxy, budget, Event
<1>3. Marked'
  BY MarkedKept DEF FirstDrain, Begin, operator, checker, discovery, proxy, budget, Event
<1>4. Asked'
  BY AskedKept DEF FirstDrain, Begin, operator, checker, discovery, proxy, budget, Event
<1>5. Late'
  <2>1. \A q \in Requests :
          /\ req'[q].at = req[q].at
          /\ req'[q].st \in {"selected", "forwarding"} => req[q].st \in {"selected", "forwarding"}
    BY TypeParts DEF Inv, ProxyType, Begin
  <2>2. UNCHANGED <<answered, late>>
    BY DEF Begin, checker
  <2>. QED BY <2>1, <2>2 DEF FirstDrain, Late
<1>. QED BY <1>1, <1>2, <1>3, <1>4, <1>5 DEF FirstDrain

LEMMA DoneFirst ==
  ASSUME NEW r \in Requests, Inv, FirstDrain, Done(r)
  PROVE  FirstDrain'
<1>1. Switched'
  BY SwitchedKept DEF FirstDrain, Done, operator, checker, discovery, proxy, budget, Event
<1>2. Earlier'
  BY EarlierKept DEF FirstDrain, Done, operator, checker, discovery, proxy, budget, Event
<1>3. Marked'
  BY MarkedKept DEF FirstDrain, Done, operator, checker, discovery, proxy, budget, Event
<1>4. Asked'
  BY AskedKept DEF FirstDrain, Done, operator, checker, discovery, proxy, budget, Event
<1>5. Late'
  <2>1. \A q \in Requests :
          /\ req'[q].at = req[q].at
          /\ req'[q].st \in {"selected", "forwarding"} => req[q].st \in {"selected", "forwarding"}
    BY TypeParts DEF Inv, ProxyType, Done
  <2>2. UNCHANGED <<answered, late>>
    BY DEF Done, checker
  <2>. QED BY <2>1, <2>2 DEF FirstDrain, Late
<1>. QED BY <1>1, <1>2, <1>3, <1>4, <1>5 DEF FirstDrain

LEMMA NextFirst ==
  ASSUME MaxSwitches <= 2, Inv, FirstDrain, [Next]_vars
  PROVE  FirstDrain'
<1>1. CASE Switch BY <1>1, SwitchFirst
<1>2. CASE OperatorStep
  BY <1>2, StartDrainFirst, DeleteRuntimeWorkloadFirst, StartCheckFirst, ReadBackendsFirst,
     ReadActiveCountFirst, DrainCompletedFirst, DeactivatedFirst, ActivateFirst
  DEF OperatorStep
<1>3. CASE CheckFails BY <1>3, CheckFailsFirst
<1>4. CASE DrainTimedOut BY <1>4, DrainTimedOutFirst
<1>5. CASE WorkloadMoves BY <1>5, WorkloadMovesFirst
<1>6. ASSUME NEW g \in Gateways,
             \/ ListDeployments(g) \/ ListServices(g) \/ Publish(g) \/ SyncFails(g)
             \/ BecomesStale(g) \/ ProbeMoves(g)
      PROVE  FirstDrain'
  BY <1>6, ListDeploymentsFirst, ListServicesFirst, PublishFirst, SyncFailsFirst,
     BecomesStaleFirst, ProbeMovesFirst
<1>7. ASSUME NEW g \in Gateways, NEW r \in Requests, Select(r, g) PROVE FirstDrain'
  BY <1>7, SelectFirst
<1>8. ASSUME NEW r \in Requests, Begin(r) \/ Done(r) PROVE FirstDrain'
  BY <1>8, BeginFirst, DoneFirst
<1>9. CASE UNCHANGED vars
  BY <1>9, SwitchedKept, EarlierKept, MarkedKept, AskedKept, LateKept
  DEF FirstDrain, vars
<1>. QED BY <1>1, <1>2, <1>3, <1>4, <1>5, <1>6, <1>7, <1>8, <1>9 DEF Next

LEMMA FirstDrainAlways ==
  ASSUME MaxSwitches <= 2
  PROVE  Spec => [](Inv /\ FirstDrain)
<1>1. Inv /\ FirstDrain /\ [Next]_vars => (Inv /\ FirstDrain)'
  BY NextInv, NextFirst
<1>. QED BY <1>1, InitInv, InitFirst, PTL DEF Spec

(* The answers of the first drain last: as long as what is wanted has not   *)
(* been switched a third time, a gateway that answered drainComplete does   *)
(* not offer the model until the operator activates it.                     *)
THEOREM FirstAnswersLast == ASSUME MaxSwitches <= 2 PROVE Spec => []AnsweredStaysClosed
<1>1. Inv /\ FirstDrain => AnsweredStaysClosed
  BY AnsweredClosed DEF AnsweredStaysClosed
<1>. QED BY <1>1, FirstDrainAlways, PTL

(* When the operator has finished the first drain on the gateways' word,    *)
(* the only requests they still forward were admitted before the answer and *)
(* not yet counted.                                                         *)
THEOREM OnlyUncounted == ASSUME MaxSwitches <= 2 PROVE Spec => []OnlyUncountedLate
<1>1. Inv /\ FirstDrain => OnlyUncountedLate
  BY DEF FirstDrain, Late, OnlyUncountedLate
<1>. QED BY <1>1, FirstDrainAlways, PTL
=============================================================================
