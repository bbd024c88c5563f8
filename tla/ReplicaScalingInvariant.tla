----------------------- MODULE ReplicaScalingInvariant -----------------------
(***************************************************************************)
(* The inductive invariant of ReplicaScaling, for any cluster: any number   *)
(* of deployments, any policies, capacity, load, edits and faults.  Here it *)
(* is shown to hold at first and to survive every step that is not the      *)
(* controller's: of pods, clients, metrics, users and time.                 *)
(***************************************************************************)
EXTENDS ReplicaScaling, SumLemmas

(* A leaf that names no prover is one for Zenon.                          *)
USE Zenon

(* Types of the variables.                                                  *)
StatusType ==
  [phase : Phases, assigned : BOOLEAN, desired : Int, replicas : Int, activity : Int,
   ready : ReadyReasons, rollout : RolloutReasons, rolloutGen : Nat, obs : Nat]

WorkloadType ==
  [exists : BOOLEAN, replicas : Nat, ver : Nat, observed : BOOLEAN, up : Nat,
   rolling : BOOLEAN, deleting : BOOLEAN]

JobType ==
  [stage : {"workload", "status"}, d : Deployments, op : {"ensure", "delete", "leave"},
   n : Nat, ver : Nat, gen : Nat, status : StatusType]

Types ==
  /\ setup \in Setups
  /\ gen \in [Deployments -> Nat]
  /\ max \in [Deployments -> Nat]
  /\ ver \in [Deployments -> Nat]
  /\ st \in [Deployments -> StatusType]
  /\ wl \in [Deployments -> WorkloadType]
  /\ load \in [Deployments -> [Replica -> Nat]]
  /\ busyFor \in [Deployments -> [Replica -> Nat]]
  /\ job = NoJob \/ job \in JobType

Reserving == {"Activating", "Active"}

Writing(op) == job # NoJob /\ job.stage = "workload" /\ job.op = op

Running(d) == wl[d].exists /\ ~wl[d].deleting

(* Pods and requests: only pods that were asked for run, none of a runtime  *)
(* that is being deleted, and only they are busy.                           *)
Pods ==
  /\ \A d \in Deployments :
       /\ max[d] >= 1 /\ max[d] <= Policy[d].max
       /\ wl[d].up <= wl[d].replicas /\ wl[d].replicas <= Policy[d].max
       /\ wl[d].deleting => wl[d].up = 0
       /\ ~wl[d].exists => wl[d].replicas = 0
       /\ \A i \in Replica : /\ i > wl[d].up => load[d][i] = 0
                             /\ load[d][i] = 0 => busyFor[d][i] = 0
  /\ job # NoJob => job.n <= Policy[job.d].max

(* The writes of a reconcile belong together, and a deployment that is held *)
(* at zero runs nothing.                                                    *)
Plans ==
  /\ \A d \in Deployments : HoldAtZero(d) => wl[d].replicas = 0
  /\ Writing("leave") => FALSE
  /\ Writing("ensure") /\ job.n > 0 => job.status.assigned /\ ~HoldAtZero(job.d)
  /\ Writing("ensure") /\ job.n = 0 => job.status.phase \notin Reserving
  /\ Writing("delete") =>
       job.n = 0 /\ job.status.phase \notin Reserving /\ job.status.ready # "IdleScaledToZero"
  /\ job # NoJob /\ job.stage = "status" /\ job.status.ready = "IdleScaledToZero" =>
       wl[job.d].replicas = 0

(* A single replica that is about to be taken away has just been idle.      *)
Quiet ==
  Writing("ensure") /\ job.n = 0 /\ Policy[job.d].max = 1 /\ wl[job.d].replicas > 0 =>
    Policy[job.d].idle > 0 /\ \A i \in Replica : busyFor[job.d][i] = 0

MaySleep(d) == Policy[d].min = 0 /\ Policy[d].idle > 0

(* While no write fails, the status of a runtime at zero says why.          *)
Woken ==
  "Write" \notin setup.faults =>
    /\ \A d \in Deployments :
         /\ Running(d) /\ wl[d].replicas = 0
         /\ ~(job # NoJob /\ job.stage = "status" /\ job.d = d)
         => MaySleep(d) /\ st[d].ready = "IdleScaledToZero"
    /\ /\ job # NoJob /\ job.stage = "status"
       /\ Running(job.d) /\ wl[job.d].replicas = 0
       => MaySleep(job.d) /\ job.status.ready = "IdleScaledToZero"
    /\ Writing("ensure") /\ job.n = 0 =>
         MaySleep(job.d) /\ job.status.ready = "IdleScaledToZero"
    /\ Writing("ensure") /\ job.n > 0 /\ Running(job.d) /\ wl[job.d].replicas = 0 =>
         gen[job.d] > st[job.d].obs

(* While maxReplicas stays, no plan is below the floor, and a deployment of *)
(* a fixed size has that size or none; its rollout has been given room.     *)
Floors ==
  "max" \notin Edits =>
    /\ \A d \in Deployments : max[d] = Policy[d].max
    /\ \A d \in Deployments : st[d].desired = 0 \/ st[d].desired >= Base(d)
    /\ job # NoJob => job.status.desired = 0 \/ job.status.desired >= Base(job.d)
    /\ \A d \in Deployments : Policy[d].min = Policy[d].max =>
         wl[d].replicas \in {0, Policy[d].max}
    /\ job # NoJob /\ Policy[job.d].min = Policy[job.d].max => job.n \in {0, Policy[job.d].max}
    /\ /\ Writing("ensure") /\ job.n > 0 /\ Policy[job.d].min = Policy[job.d].max
       /\ RequiresSpare(job.d) /\ wl[job.d].replicas > 0 /\ wl[job.d].ver # job.ver
       => Policy[job.d].gpus * (job.n + Surge(job.d, job.n)) <= Available(job.d)

(* What d will be counted for with status s.                                *)
HeldAs(d, s) ==
  IF s.assigned /\ s.phase \in Reserving THEN Policy[d].gpus * Effective(d, s.desired)
                                         ELSE WorkloadSlots(d)

(* While only demand moves replicas, a deployment is counted for what it    *)
(* runs, and all that is counted fits; a reconcile in progress changes one  *)
(* deployment within the slots the others leave.                            *)
Booked ==
  DemandOnly =>
    /\ \A d \in Deployments :
         ~wl[d].rolling /\ (st[d].phase \in Reserving => st[d].assigned)
    /\ job = NoJob =>
         \A d \in Deployments : WorkloadSlots(d) <= Held(d) /\ Held(d) <= Available(d)
    /\ job # NoJob =>
         /\ job.status.phase \in Reserving => job.status.assigned
         /\ \A d \in Deployments \ {job.d} : WorkloadSlots(d) <= Held(d)
         /\ WorkloadSlots(job.d) <= Available(job.d)
    /\ Writing("ensure") /\ job.n > 0 =>
         /\ job.n = Effective(job.d, job.status.desired)
         /\ Policy[job.d].gpus * job.n <= Available(job.d)
    /\ Writing("delete") => st[job.d].phase \notin Reserving
    /\ job # NoJob /\ job.stage = "status" =>
         /\ HeldAs(job.d, job.status) <= Available(job.d)
         /\ WorkloadSlots(job.d) <= HeldAs(job.d, job.status)

Inv == Types /\ Pods /\ Plans /\ Quiet /\ Woken /\ Floors /\ Booked

-----------------------------------------------------------------------------
(* Arithmetic                                                               *)

LEMMA MaxOfTwo ==
  ASSUME NEW a \in Int, NEW b \in Int
  PROVE  Max({a, b}) = IF a >= b THEN a ELSE b
<1> DEFINE Top(x) == \A y \in {a, b} : x >= y
<1>1. \E x \in {a, b} : Top(x)
  BY SMTT(60)
<1>2. Max({a, b}) \in {a, b} /\ Top(Max({a, b}))
  BY <1>1 DEF Max
<1>. QED BY <1>2, SMTT(60)

LEMMA MinOfTwo ==
  ASSUME NEW a \in Int, NEW b \in Int
  PROVE  Min({a, b}) = IF a <= b THEN a ELSE b
<1> DEFINE Bottom(x) == \A y \in {a, b} : x <= y
<1>1. \E x \in {a, b} : Bottom(x)
  BY SMTT(60)
<1>2. Min({a, b}) \in {a, b} /\ Bottom(Min({a, b}))
  BY <1>1 DEF Min
<1>. QED BY <1>2, SMTT(60)

LEMMA TimesGrows ==
  ASSUME NEW k \in Nat, NEW a \in Int, NEW b \in Int, a <= b
  PROVE  k * a <= k * b /\ k * a \in Int /\ k * b \in Int
<1>1. k * b - k * a = k * (b - a) /\ b - a \in Nat
  BY SMTT(60)
<1>2. k * (b - a) \in Nat
  BY <1>1, SMTT(60)
<1>. QED BY <1>1, <1>2, SMTT(60)

(* What is known of a setup.                                                *)
LEMMA PolicyType ==
  ASSUME setup \in Setups
  PROVE  /\ IsFiniteSet(Deployments) /\ Capacity \in Nat
         /\ \A d \in Deployments :
              /\ Policy[d].min \in Nat /\ Policy[d].max \in Nat /\ Policy[d].max >= 1
              /\ Policy[d].target \in Nat /\ Policy[d].idle \in Nat
              /\ Policy[d].gpus \in Nat /\ Policy[d].gpus >= 1
              /\ Policy[d].strategy \in {"Recreate"} \cup Spare
<1>1. /\ IsFiniteSet(Deployments)
      /\ \A d \in Deployments :
           Policy[d] \in [min : Nat, max : Nat \ {0}, target : Nat, idle : Nat,
                          gpus : Nat \ {0}, strategy : {"Recreate"} \cup Spare]
  BY ScalingAssumption DEF Deployments, Policy
<1>2. {setup.capacity, setup.maxLoad, setup.maxEdits, setup.maxFaults} \subseteq Nat
  BY ScalingAssumption
<1>3. Capacity \in Nat
  BY <1>2 DEF Capacity
<1>4. ASSUME NEW d \in Deployments
      PROVE  /\ Policy[d].min \in Nat /\ Policy[d].max \in Nat /\ Policy[d].max >= 1
             /\ Policy[d].target \in Nat /\ Policy[d].idle \in Nat
             /\ Policy[d].gpus \in Nat /\ Policy[d].gpus >= 1
             /\ Policy[d].strategy \in {"Recreate"} \cup Spare
  <2> DEFINE r == Policy[d]
  <2>1. r \in [min : Nat, max : Nat \ {0}, target : Nat, idle : Nat,
               gpus : Nat \ {0}, strategy : {"Recreate"} \cup Spare]
    BY <1>1
  <2> HIDE DEF r
  <2>2. /\ r.min \in Nat /\ r.max \in Nat /\ r.max >= 1
        /\ r.target \in Nat /\ r.idle \in Nat
        /\ r.gpus \in Nat /\ r.gpus >= 1
        /\ r.strategy \in {"Recreate"} \cup Spare
    BY <2>1, SMTT(60)
  <2>. QED BY <2>2 DEF r
<1>. QED BY <1>1, <1>3, <1>4

(* The range of replicas of a deployment.                                   *)
LEMMA RangeType ==
  ASSUME setup \in Setups, max \in [Deployments -> Nat], NEW d \in Deployments
  PROVE  /\ EffectiveMax(d) \in Nat /\ EffectiveMax(d) >= 1
         /\ EffectiveMax(d) = IF max[d] >= 1 THEN max[d] ELSE 1
         /\ Base(d) \in Nat /\ Base(d) >= 1 /\ Base(d) <= EffectiveMax(d)
         /\ Base(d) >= Policy[d].min \/ Base(d) = EffectiveMax(d)
         /\ \A n \in Int :
              /\ Effective(d, n) \in Nat /\ Effective(d, n) >= 1
              /\ Effective(d, n) <= EffectiveMax(d)
              /\ n = 0 \/ n >= Base(d) => Effective(d, n) >= Base(d)
              /\ n > 0 => Effective(d, n) <= n
<1>1. max[d] \in Nat /\ Policy[d].min \in Nat
  BY PolicyType
<1>2. EffectiveMax(d) = IF max[d] >= 1 THEN max[d] ELSE 1
  BY <1>1, MaxOfTwo, SMTT(60) DEF EffectiveMax
<1>3. EffectiveMax(d) \in Nat /\ EffectiveMax(d) >= 1
  BY <1>1, <1>2, SMTT(60)
<1> DEFINE lo == Max({Policy[d].min, 1})
<1>4. lo = IF Policy[d].min >= 1 THEN Policy[d].min ELSE 1
  BY <1>1, MaxOfTwo, SMTT(60)
<1> HIDE DEF lo
<1>5. lo \in Nat /\ lo >= 1 /\ lo >= Policy[d].min
  BY <1>1, <1>4, SMTT(60)
<1>6. Base(d) = IF lo <= EffectiveMax(d) THEN lo ELSE EffectiveMax(d)
  <2>1. Min({lo, EffectiveMax(d)}) = IF lo <= EffectiveMax(d) THEN lo ELSE EffectiveMax(d)
    BY <1>3, <1>5, MinOfTwo, SMTT(60)
  <2>2. Base(d) = Min({lo, EffectiveMax(d)})
    BY DEF Base, lo
  <2>. QED BY <2>1, <2>2
<1>7. Base(d) \in Nat /\ Base(d) >= 1 /\ Base(d) <= EffectiveMax(d)
      /\ (Base(d) >= Policy[d].min \/ Base(d) = EffectiveMax(d))
  BY <1>1, <1>3, <1>5, <1>6, SMTT(60)
<1>8. ASSUME NEW n \in Int
      PROVE  /\ Effective(d, n) \in Nat /\ Effective(d, n) >= 1
             /\ Effective(d, n) <= EffectiveMax(d)
             /\ n = 0 \/ n >= Base(d) => Effective(d, n) >= Base(d)
             /\ n > 0 => Effective(d, n) <= n
  <2>1. Min({n, EffectiveMax(d)}) = IF n <= EffectiveMax(d) THEN n ELSE EffectiveMax(d)
    BY <1>3, MinOfTwo, SMTT(60)
  <2>2. Effective(d, n) = IF n > 0 THEN IF n <= EffectiveMax(d) THEN n ELSE EffectiveMax(d)
                                   ELSE Base(d)
    BY <2>1 DEF Effective
  <2>. QED BY <1>3, <1>7, <2>2, SMTT(60)
<1>. QED BY <1>2, <1>3, <1>7, <1>8

(* The slots a deployment is counted for, and what is left for another.     *)
LEMMA HeldType ==
  ASSUME Types
  PROVE  /\ \A d \in Deployments :
              /\ Held(d) \in Nat /\ WorkloadSlots(d) \in Nat
              /\ Policy[d].gpus * Effective(d, st[d].desired) \in Nat
              /\ Available(d) \in Int
         /\ Capacity \in Nat
<1>1. setup \in Setups /\ max \in [Deployments -> Nat]
  BY DEF Types
<1>2. ASSUME NEW d \in Deployments
      PROVE  /\ Held(d) \in Nat /\ WorkloadSlots(d) \in Nat
             /\ Policy[d].gpus * Effective(d, st[d].desired) \in Nat
  <2> DEFINE n == Effective(d, st[d].desired)
             g == Policy[d].gpus
  <2>1. g \in Nat /\ n \in Nat /\ wl[d].replicas \in Nat
    <3>1. st[d].desired \in Int /\ wl[d].replicas \in Nat
      BY DEF Types, StatusType, WorkloadType
    <3>. QED BY <1>1, <3>1, PolicyType, RangeType
  <2> HIDE DEF n, g
  <2>2. Surge(d, n) \in Nat
    <3>1. Policy[d].strategy \in {"Recreate"} \cup Spare
      BY <1>1, PolicyType
    <3>. QED BY <2>1, <3>1 DEF Surge, Spare
  <2>3. g * n \in Nat /\ g * (n + Surge(d, n)) \in Nat /\ g * (n + 0) \in Nat
        /\ g * wl[d].replicas \in Nat
    BY <2>1, <2>2, SMTT(60)
  <2>4. ReservedSlots(d) \in Nat
    BY <2>3 DEF ReservedSlots, n, g
  <2>5. WorkloadSlots(d) \in Nat
    BY <2>3 DEF WorkloadSlots, g
  <2>6. Held(d) \in Nat
    BY <2>4, <2>5 DEF Held
  <2>. QED BY <2>3, <2>5, <2>6 DEF n, g
<1>3. Capacity \in Nat /\ IsFiniteSet(Deployments)
  BY <1>1, PolicyType
<1>4. ASSUME NEW d \in Deployments PROVE Available(d) \in Int
  <2> DEFINE h == [x \in Deployments |-> Held(x)]
             D == Deployments \ {d}
  <2>1. IsFiniteSet(D) /\ \A x \in D : h[x] \in Int
    BY <1>2, <1>3, FS_Subset, SMTT(60)
  <2> HIDE DEF h, D
  <2>2. SumFunctionOnSet(h, D) \in Int
    BY <2>1, SumInt
  <2>. QED BY <1>3, <2>2, SMTT(60) DEF Available, Allocated, h, D
<1>. QED BY <1>2, <1>3, <1>4

(* What one deployment holds fits beside the others if and only if it does  *)
(* for every other: both say that the sum is at most the capacity.          *)
LEMMA OneForAll ==
  ASSUME Types, NEW d \in Deployments, Held(d) <= Available(d)
  PROVE  \A x \in Deployments : Held(x) <= Available(x)
<1> DEFINE h == [x \in Deployments |-> Held(x)]
           All == SumFunctionOnSet(h, Deployments)
           Others(x) == SumFunctionOnSet(h, Deployments \ {x})
<1>1. IsFiniteSet(Deployments) /\ Capacity \in Nat
  BY PolicyType DEF Types
<1>2. \A x \in Deployments : h[x] \in Int /\ h[x] = Held(x) /\ Held(x) \in Int
  BY HeldType, SMTT(60)
<1>3. \A x \in Deployments : Available(x) = Capacity - Others(x)
  BY DEF Available, Allocated
<1> HIDE DEF h
<1>4. ASSUME NEW x \in Deployments PROVE All = Held(x) + Others(x) /\ Others(x) \in Int
  <2>1. IsFiniteSet(Deployments \ {x}) /\ \A y \in Deployments \ {x} : h[y] \in Int
    BY <1>1, <1>2, FS_Subset
  <2>2. Others(x) \in Int
    BY <2>1, SumInt
  <2>3. All = h[x] + Others(x)
    BY <1>1, <1>2, SumRemove, SMTT(60)
  <2>. QED BY <1>2, <2>2, <2>3
<1> HIDE DEF All, Others
<1>5. All <= Capacity
  <2>1. All = Held(d) + Others(d) /\ Others(d) \in Int /\ Held(d) \in Int
        /\ Available(d) = Capacity - Others(d)
    BY <1>2, <1>3, <1>4
  <2>. QED BY <1>1, <2>1, SMTT(60)
<1>6. ASSUME NEW x \in Deployments PROVE Held(x) <= Available(x)
  <2>1. All = Held(x) + Others(x) /\ Others(x) \in Int /\ Held(x) \in Int
        /\ Available(x) = Capacity - Others(x)
    BY <1>2, <1>3, <1>4
  <2>. QED BY <1>1, <1>5, <2>1, SMTT(60)
<1>. QED BY <1>6

(* The slots the runtime Deployments ask for, beside one that fits.         *)
LEMMA AllFit ==
  ASSUME Types, \A x \in Deployments : ~wl[x].rolling,
         NEW d \in Deployments, WorkloadSlots(d) <= Available(d),
         \A x \in Deployments \ {d} : WorkloadSlots(x) <= Held(x)
  PROVE  SlotsFit
<1> DEFINE h == [x \in Deployments |-> Held(x)]
           u == [x \in Deployments |-> SlotsInUse(x)]
           D == Deployments \ {d}
<1>1. IsFiniteSet(Deployments) /\ Capacity \in Nat
  BY PolicyType DEF Types
<1>2. \A x \in Deployments : u[x] = WorkloadSlots(x)
  <2>1. ASSUME NEW x \in Deployments PROVE SlotsInUse(x) = WorkloadSlots(x)
    <3>1. wl[x].replicas \in Nat /\ ~wl[x].rolling
      BY DEF Types, WorkloadType
    <3>2. SlotsInUse(x) = Policy[x].gpus * (wl[x].replicas + 0)
      BY <3>1 DEF SlotsInUse
    <3>. QED BY <3>1, <3>2, SMTT(60) DEF WorkloadSlots
  <2>. QED BY <2>1
<1>3. \A x \in Deployments : u[x] \in Int /\ h[x] \in Int /\ h[x] = Held(x)
  BY <1>2, HeldType, SMTT(60)
<1>4. Available(d) = Capacity - SumFunctionOnSet(h, D)
  BY DEF Available, Allocated
<1>5. SlotsFit <=> SumFunctionOnSet(u, Deployments) <= Capacity
  BY DEF SlotsFit
<1>6. IsFiniteSet(D) /\ \A x \in D : u[x] \in Int /\ h[x] \in Int /\ u[x] <= h[x]
  BY <1>1, <1>2, <1>3, FS_Subset
<1> HIDE DEF h, u
<1>7. SumFunctionOnSet(u, Deployments) = u[d] + SumFunctionOnSet(u, D)
  BY <1>1, <1>3, SumRemove, SMTT(60)
<1> HIDE DEF D
<1>8. SumFunctionOnSet(u, D) <= SumFunctionOnSet(h, D)
  BY <1>6, SumLessEqual
<1>9. SumFunctionOnSet(u, D) \in Int /\ SumFunctionOnSet(h, D) \in Int
  BY <1>6, SumInt
<1>10. u[d] <= Available(d) /\ u[d] \in Int
  BY <1>2, <1>3
<1>. QED BY <1>1, <1>4, <1>5, <1>7, <1>8, <1>9, <1>10, SMTT(60)

-----------------------------------------------------------------------------
(* What a step leaves alone                                                 *)

LEMMA SetupKept ==
  ASSUME setup' = setup
  PROVE  /\ Policy' = Policy /\ Deployments' = Deployments /\ Capacity' = Capacity
         /\ Edits' = Edits /\ Replica' = Replica /\ (DemandOnly' <=> DemandOnly)
         /\ JobType' = JobType
         /\ \A d : RequiresSpare(d)' = RequiresSpare(d)
         /\ \A d : MaySleep(d)' = MaySleep(d)
         /\ \A d, n : Surge(d, n)' = Surge(d, n)
<1>1. /\ Policy' = Policy /\ Deployments' = Deployments /\ Capacity' = Capacity
      /\ Edits' = Edits
  BY DEF Policy, Deployments, Capacity, Edits
<1>2. Replica' = Replica
  BY <1>1 DEF Replica, MaxReplicas
<1>3. \A d : RequiresSpare(d)' = RequiresSpare(d)
  BY <1>1 DEF RequiresSpare
<1>4. DemandOnly' <=> DemandOnly
  BY <1>1, <1>3 DEF DemandOnly
<1>5. JobType' = JobType
  BY <1>1 DEF JobType
<1>6. /\ \A d : MaySleep(d)' = MaySleep(d)
      /\ \A d, n : Surge(d, n)' = Surge(d, n)
  BY <1>1 DEF MaySleep, Surge
<1>. QED BY <1>1, <1>2, <1>3, <1>4, <1>5, <1>6

LEMMA MaxKept ==
  ASSUME setup' = setup, NEW d, max'[d] = max[d]
  PROVE  Base(d)' = Base(d) /\ \A n : Effective(d, n)' = Effective(d, n)
<1>1. Policy' = Policy
  BY SetupKept
<1>2. EffectiveMax(d)' = EffectiveMax(d)
  BY DEF EffectiveMax
<1>3. Base(d)' = Base(d)
  BY <1>1, <1>2 DEF Base
<1>4. \A n : Effective(d, n)' = Effective(d, n)
  BY <1>2, <1>3 DEF Effective
<1>. QED BY <1>3, <1>4

HeldTyped ==
  /\ \A d \in Deployments :
       /\ Held(d) \in Nat /\ WorkloadSlots(d) \in Nat
       /\ Policy[d].gpus * Effective(d, st[d].desired) \in Nat
       /\ Available(d) \in Int
  /\ Capacity \in Nat

LEMMA TypedHeld == Types => HeldTyped
BY HeldType DEF HeldTyped

LEMMA TypedHeldNext == Types' => HeldTyped'
BY TypedHeld, PTL

(* If no other deployment is counted for more, nothing is taken away.       *)
LEMMA AvailableGrows ==
  ASSUME Types, Types', setup' = setup, NEW d \in Deployments,
         \A x \in Deployments \ {d} : Held(x)' <= Held(x)
  PROVE  Available(d) <= Available(d)' /\ Available(d) \in Int /\ Available(d)' \in Int
<1> DEFINE h == [x \in Deployments |-> Held(x)]
           k == [x \in Deployments |-> Held(x)']
           D == Deployments \ {d}
<1>1. Deployments' = Deployments /\ Capacity' = Capacity
  BY SetupKept
<1>2. IsFiniteSet(Deployments) /\ Capacity \in Nat
  BY PolicyType DEF Types
<1>3. \A x \in Deployments : Held(x) \in Nat /\ Held(x)' \in Nat
                             /\ Available(x) \in Int /\ Available(x)' \in Int
  BY <1>1, TypedHeld, TypedHeldNext DEF HeldTyped
<1>4. /\ Available(d) = Capacity - SumFunctionOnSet(h, D)
      /\ Available(d)' = Capacity - SumFunctionOnSet(k, D)
  BY <1>1 DEF Available, Allocated
<1>5. IsFiniteSet(D) /\ \A x \in D : h[x] \in Int /\ k[x] \in Int /\ k[x] <= h[x]
  BY <1>2, <1>3, FS_Subset, SMTT(60)
<1> HIDE DEF h, k, D
<1>6. SumFunctionOnSet(k, D) <= SumFunctionOnSet(h, D)
  BY <1>5, SumLessEqual
<1>7. SumFunctionOnSet(k, D) \in Int /\ SumFunctionOnSet(h, D) \in Int
  BY <1>5, SumInt
<1>. QED BY <1>2, <1>3, <1>4, <1>6, <1>7, SMTT(60)

(* A deployment whose status and maxReplicas stay and whose runtime asks    *)
(* for no more is counted for no more: an edit can only end a surge.        *)
LEMMA HeldShrinks ==
  ASSUME Types, Types', setup' = setup, NEW x \in Deployments,
         max'[x] = max[x], gen'[x] >= gen[x],
         st'[x].assigned = st[x].assigned, st'[x].phase = st[x].phase,
         st'[x].desired = st[x].desired, st'[x].rollout = st[x].rollout,
         st'[x].rolloutGen = st[x].rolloutGen,
         wl'[x].replicas <= wl[x].replicas
  PROVE  /\ Held(x)' <= Held(x)
         /\ ReservedByStatus(x)' = ReservedByStatus(x)
         /\ WorkloadSlots(x)' <= WorkloadSlots(x)
         /\ gen'[x] = gen[x] /\ wl'[x].replicas = wl[x].replicas => Held(x)' = Held(x)
<1> DEFINE n == Effective(x, st[x].desired)
           g == Policy[x].gpus
<1>1. Policy' = Policy /\ Deployments' = Deployments /\ RequiresSpare(x)' = RequiresSpare(x)
  BY SetupKept
<1>2. n' = n /\ Surge(x, n)' = Surge(x, n)
  <2>1. n' = n
    BY MaxKept
  <2> HIDE DEF n
  <2>. QED BY <1>1, <2>1 DEF Surge
<1>3. /\ g \in Nat /\ n \in Nat /\ wl[x].replicas \in Nat /\ wl'[x].replicas \in Nat
      /\ gen[x] \in Nat /\ gen'[x] \in Nat /\ st[x].rolloutGen \in Nat
  <2>1. st[x].desired \in Int /\ wl[x].replicas \in Nat /\ wl'[x].replicas \in Nat
    BY <1>1 DEF Types, StatusType, WorkloadType
  <2>2. gen[x] \in Nat /\ gen'[x] \in Nat /\ st[x].rolloutGen \in Nat
    BY <1>1 DEF Types, StatusType
  <2>3. g \in Nat /\ n \in Nat
    BY <2>1, PolicyType, RangeType DEF Types
  <2>. QED BY <2>1, <2>2, <2>3
<1> HIDE DEF n, g
<1>4. Surge(x, n) \in Nat
  <2>1. Policy[x].strategy \in {"Recreate"} \cup Spare
    BY PolicyType DEF Types
  <2>. QED BY <1>3, <2>1 DEF Surge, Spare
<1>5. ReservedByStatus(x)' = ReservedByStatus(x)
  BY DEF ReservedByStatus
<1>6. WorkloadSlots(x)' <= WorkloadSlots(x)
      /\ (wl'[x].replicas = wl[x].replicas => WorkloadSlots(x)' = WorkloadSlots(x))
  BY <1>1, <1>3, TimesGrows, SMTT(60) DEF WorkloadSlots, g
<1>7. SurgeActive(x)' => SurgeActive(x)
  BY <1>1, <1>3, SMTT(60) DEF SurgeActive
<1>8. gen'[x] = gen[x] => SurgeActive(x)' = SurgeActive(x)
  BY <1>1 DEF SurgeActive
<1> DEFINE a == IF SurgeActive(x) THEN Surge(x, n) ELSE 0
           b == IF SurgeActive(x)' THEN Surge(x, n) ELSE 0
<1>9. ReservedSlots(x) = g * (n + a) /\ ReservedSlots(x)' = g * (n + b)
  BY <1>1, <1>2 DEF ReservedSlots, n, g
<1>10. a \in Nat /\ b \in Nat /\ b <= a /\ (gen'[x] = gen[x] => a = b)
  BY <1>4, <1>7, <1>8, SMTT(60)
<1> HIDE DEF a, b
<1>11. n + a \in Int /\ n + b \in Int /\ n + b <= n + a
  BY <1>3, <1>10, SMTT(60)
<1>12. g * (n + b) <= g * (n + a)
  BY <1>3, <1>11, TimesGrows
<1>13. ReservedSlots(x)' <= ReservedSlots(x)
       /\ (gen'[x] = gen[x] => ReservedSlots(x)' = ReservedSlots(x))
  BY <1>9, <1>10, <1>12
<1>. QED BY <1>5, <1>6, <1>13 DEF Held

LEMMA ReplicaBound ==
  ASSUME setup \in Setups, NEW d \in Deployments
  PROVE  Policy[d].max <= MaxReplicas /\ MaxReplicas \in Nat
<1> DEFINE S == {Policy[x].max : x \in Deployments}
           f == [x \in Deployments |-> Policy[x].max]
<1>1. f \in Surjection(Deployments, S)
  BY DEF Surjection
<1>2. \A x \in S : x \in Nat
  BY PolicyType
<1>3. Policy[d].max \in S /\ MaxReplicas = Max(S)
  BY DEF MaxReplicas
<1> HIDE DEF f, S
<1>4. IsFiniteSet(S) /\ S # {}
  BY <1>1, <1>3, PolicyType, FS_Surjection
<1>5. Max(S) \in S /\ \A x \in S : x <= Max(S)
  BY <1>2, <1>4, FiniteMax
<1>. QED BY <1>2, <1>3, <1>5

-----------------------------------------------------------------------------
LEMMA StateKept ==
  ASSUME setup' = setup, gen' = gen, max' = max, st' = st, wl' = wl
  PROVE  \A x : /\ Held(x)' = Held(x) /\ Available(x)' = Available(x)
                /\ WorkloadSlots(x)' = WorkloadSlots(x)
                /\ HoldAtZero(x)' = HoldAtZero(x) /\ Running(x)' = Running(x)
                /\ Base(x)' = Base(x)
                /\ \A n : Effective(x, n)' = Effective(x, n)
                /\ \A s : HeldAs(x, s)' = HeldAs(x, s)
<1>1. Policy' = Policy /\ Deployments' = Deployments /\ Capacity' = Capacity
      /\ (\A x : RequiresSpare(x)' = RequiresSpare(x))
      /\ (\A x, n : Surge(x, n)' = Surge(x, n))
  BY SetupKept
<1>2. \A x : Base(x)' = Base(x) /\ \A n : Effective(x, n)' = Effective(x, n)
  BY MaxKept
<1>3. \A x : WorkloadSlots(x)' = WorkloadSlots(x)
  BY <1>1 DEF WorkloadSlots
<1>4. \A x : ReservedByStatus(x)' = ReservedByStatus(x) /\ SurgeActive(x)' = SurgeActive(x)
  BY <1>1 DEF ReservedByStatus, SurgeActive
<1>5. \A x : ReservedSlots(x)' = ReservedSlots(x)
  BY <1>1, <1>2, <1>4 DEF ReservedSlots
<1>6. \A x : Held(x)' = Held(x)
  BY <1>3, <1>4, <1>5 DEF Held
<1>7. \A x : Available(x)' = Available(x)
  BY <1>1, <1>6 DEF Available, Allocated
<1>8. \A x : HoldAtZero(x)' = HoldAtZero(x) /\ Running(x)' = Running(x)
  BY <1>1 DEF HoldAtZero, Running
<1>9. \A x, s : HeldAs(x, s)' = HeldAs(x, s)
  BY <1>1, <1>2, <1>3 DEF HeldAs
<1>. QED BY <1>2, <1>3, <1>6, <1>7, <1>8, <1>9

-----------------------------------------------------------------------------
LEMMA InitInv == Init => Inv
<1> SUFFICES ASSUME Init PROVE Inv
  OBVIOUS
<1>1. setup \in Setups /\ job = NoJob
  BY DEF Init
<1>2. \A d \in Deployments :
        /\ gen[d] = 0 /\ max[d] = Policy[d].max /\ ver[d] = 0
        /\ st[d] = NewStatus /\ wl[d] = NoWorkload
        /\ load[d] = [i \in Replica |-> 0] /\ busyFor[d] = [i \in Replica |-> 0]
  BY DEF Init
<1>3. NewStatus \in StatusType /\ NoWorkload \in WorkloadType
  <2>1. 0 \in Int /\ 0 \in Nat /\ Never \in Int
    BY SMTT(60) DEF Never
  <2>2. "Cached" \in Phases /\ "None" \in ReadyReasons /\ "None" \in RolloutReasons
    BY DEF Phases, ReadyReasons, RolloutReasons
  <2>. QED BY <2>1, <2>2 DEF NewStatus, NoWorkload, StatusType, WorkloadType
<1>4. Types
  <2>1. \A d \in Deployments : Policy[d].max \in Nat
    BY <1>1, PolicyType
  <2>2. load \in [Deployments -> [Replica -> Nat]] /\ busyFor \in [Deployments -> [Replica -> Nat]]
    BY DEF Init
  <2>3. gen \in [Deployments -> Nat] /\ max \in [Deployments -> Nat] /\ ver \in [Deployments -> Nat]
    BY <2>1 DEF Init
  <2>4. st \in [Deployments -> StatusType] /\ wl \in [Deployments -> WorkloadType]
    BY <1>3 DEF Init
  <2>. QED BY <1>1, <2>2, <2>3, <2>4 DEF Types
<1>5. Pods
  <2>1. \A d \in Deployments : Policy[d].max \in Nat /\ Policy[d].max >= 1
    BY <1>1, PolicyType
  <2>. QED BY <1>1, <1>2, <2>1, SMTT(60) DEF Pods, NoWorkload
<1>6. Plans /\ Quiet
  BY <1>1, <1>2, SMTT(60) DEF Plans, Quiet, Writing, NoWorkload
<1>7. Woken
  BY <1>1, <1>2, SMTT(60) DEF Woken, Writing, Running, NoWorkload
<1>8. Floors
  BY <1>1, <1>2, SMTT(60) DEF Floors, Writing, NoWorkload, NewStatus
<1>9. Booked
  <2> DEFINE h == [x \in Deployments |-> Held(x)]
  <2>1. \A d \in Deployments : WorkloadSlots(d) = 0 /\ Held(d) = 0
    <3>1. \A d \in Deployments : Policy[d].gpus \in Nat
      BY <1>1, PolicyType
    <3>2. \A d \in Deployments : WorkloadSlots(d) = 0
      BY <1>2, <3>1, SMTT(60) DEF WorkloadSlots, NoWorkload
    <3>3. \A d \in Deployments : ~ReservedByStatus(d)
      BY <1>2, SMTT(60) DEF ReservedByStatus, NewStatus
    <3>. QED BY <3>2, <3>3 DEF Held
  <2>2. IsFiniteSet(Deployments) /\ Capacity \in Nat
    BY <1>1, PolicyType
  <2>3. ASSUME NEW d \in Deployments PROVE 0 <= Available(d)
    <3> DEFINE D == Deployments \ {d}
    <3>1. IsFiniteSet(D) /\ \A x \in D : h[x] \in Int /\ h[x] <= 0
      BY <2>1, <2>2, FS_Subset, SMTT(60)
    <3> HIDE DEF h, D
    <3>2. SumFunctionOnSet(h, D) <= Cardinality(D) * 0 /\ SumFunctionOnSet(h, D) \in Int
      BY <3>1, SumBound, SumInt, SMTT(60)
    <3>3. Cardinality(D) \in Nat
      BY <3>1, FS_CardinalityType
    <3>4. Cardinality(D) * 0 = 0
      BY <3>3, SMTT(60)
    <3>. QED BY <2>2, <3>2, <3>4, SMTT(60) DEF Available, Allocated, h, D
  <2>4. \A d \in Deployments : ~wl[d].rolling /\ st[d].phase \notin Reserving
    BY <1>2, SMTT(60) DEF NoWorkload, NewStatus, Reserving
  <2>5. \A d \in Deployments : WorkloadSlots(d) <= Held(d) /\ Held(d) <= Available(d)
    BY <2>1, <2>3, SMTT(60)
  <2>. QED BY <1>1, <2>4, <2>5 DEF Booked, Writing
<1>. QED BY <1>4, <1>5, <1>6, <1>7, <1>8, <1>9 DEF Inv

-----------------------------------------------------------------------------
(* What a step that leaves spec and status alone keeps.                     *)
LEMMA StatusKept ==
  ASSUME setup' = setup, gen' = gen, max' = max, st' = st
  PROVE  \A x : /\ ReservedByStatus(x)' = ReservedByStatus(x)
                /\ ReservedSlots(x)' = ReservedSlots(x)
                /\ HoldAtZero(x)' = HoldAtZero(x)
                /\ Base(x)' = Base(x)
                /\ \A n : Effective(x, n)' = Effective(x, n)
<1>1. Policy' = Policy
      /\ (\A x : RequiresSpare(x)' = RequiresSpare(x))
      /\ (\A x, n : Surge(x, n)' = Surge(x, n))
  BY SetupKept
<1>2. \A x : Base(x)' = Base(x) /\ \A n : Effective(x, n)' = Effective(x, n)
  BY MaxKept
<1>3. \A x : /\ ReservedByStatus(x)' = ReservedByStatus(x) /\ SurgeActive(x)' = SurgeActive(x)
             /\ HoldAtZero(x)' = HoldAtZero(x)
  BY <1>1 DEF ReservedByStatus, SurgeActive, HoldAtZero
<1>4. \A x : ReservedSlots(x)' = ReservedSlots(x)
  BY <1>1, <1>2, <1>3 DEF ReservedSlots
<1>. QED BY <1>2, <1>3, <1>4

(* Kubernetes moves pods of a runtime Deployment, or completes its deletion. *)
Moved(w, v) ==
  /\ w.up <= w.replicas /\ (w.deleting => w.up = 0)
  /\ ~w.exists => w.replicas = 0
  /\ w.rolling => v.rolling
  /\ w.replicas = 0 \/ (w.replicas = v.replicas /\ w.ver = v.ver)
  /\ w.exists /\ ~w.deleting => v.exists /\ ~v.deleting /\ w.replicas = v.replicas

LEMMA PodStep ==
  ASSUME Inv, NEW d \in Deployments, NEW w \in WorkloadType, Moved(w, wl[d]), Workloads(d, w)
  PROVE  Inv'
<1>1. Types /\ Pods /\ Plans /\ Quiet /\ Woken /\ Floors /\ Booked
  BY DEF Inv
<1>2. /\ setup' = setup /\ gen' = gen /\ max' = max /\ ver' = ver /\ st' = st /\ job' = job
      /\ wl' = [wl EXCEPT ![d] = w]
  BY DEF Workloads
<1>3. /\ load' = [load EXCEPT ![d] = [i \in Replica |-> IF i <= w.up THEN load[d][i] ELSE 0]]
      /\ busyFor' = [busyFor EXCEPT
           ![d] = [i \in Replica |-> IF i <= w.up THEN busyFor[d][i] ELSE 0]]
  BY <1>1 DEF Workloads, SettlePods, Types
<1>4. /\ Policy' = Policy /\ Deployments' = Deployments /\ Capacity' = Capacity
      /\ Edits' = Edits /\ Replica' = Replica /\ (DemandOnly' <=> DemandOnly)
      /\ JobType' = JobType
      /\ (\A x : RequiresSpare(x)' = RequiresSpare(x))
      /\ (\A x : MaySleep(x)' = MaySleep(x))
      /\ (\A x, n : Surge(x, n)' = Surge(x, n))
  BY <1>2, SetupKept
<1>5. \A x : /\ ReservedByStatus(x)' = ReservedByStatus(x)
             /\ ReservedSlots(x)' = ReservedSlots(x)
             /\ HoldAtZero(x)' = HoldAtZero(x)
             /\ Base(x)' = Base(x)
             /\ \A n : Effective(x, n)' = Effective(x, n)
  BY <1>2, StatusKept
<1>6. wl'[d] = w /\ \A x \in Deployments \ {d} : wl'[x] = wl[x]
  BY <1>1, <1>2 DEF Types
<1>7. w.replicas \in Nat /\ w.up \in Nat
  BY DEF WorkloadType
<1>8. \A x \in Deployments : wl[x].replicas \in Nat /\ wl[x].up \in Nat
  BY <1>1 DEF Types, WorkloadType
<1>9. \A x \in Deployments :
        /\ wl'[x].replicas = 0 \/ (wl'[x].replicas = wl[x].replicas /\ wl'[x].ver = wl[x].ver)
        /\ Running(x)' => Running(x) /\ wl'[x].replicas = wl[x].replicas
        /\ wl'[x].rolling => wl[x].rolling
  BY <1>6 DEF Moved, Running
<1>10. Types'
  <2>1. wl' \in [Deployments -> WorkloadType]
    BY <1>1, <1>2 DEF Types
  <2>2. load' \in [Deployments -> [Replica -> Nat]] /\ busyFor' \in [Deployments -> [Replica -> Nat]]
    <3>1. load \in [Deployments -> [Replica -> Nat]] /\ busyFor \in [Deployments -> [Replica -> Nat]]
      BY <1>1 DEF Types
    <3>. QED BY <1>3, <3>1
  <2>. QED BY <1>1, <1>2, <1>4, <2>1, <2>2 DEF Types
<1>11. ASSUME NEW x \in Deployments, NEW i \in Replica
       PROVE  /\ load'[x][i] \in {0, load[x][i]} /\ busyFor'[x][i] \in {0, busyFor[x][i]}
              /\ x = d /\ i <= w.up => load'[x][i] = load[x][i] /\ busyFor'[x][i] = busyFor[x][i]
              /\ x = d /\ ~(i <= w.up) => load'[x][i] = 0 /\ busyFor'[x][i] = 0
              /\ x # d => load'[x][i] = load[x][i] /\ busyFor'[x][i] = busyFor[x][i]
  <2>1. load \in [Deployments -> [Replica -> Nat]] /\ busyFor \in [Deployments -> [Replica -> Nat]]
    BY <1>1 DEF Types
  <2>. QED BY <1>3, <2>1
<1>12. Pods'
  <2>1. ASSUME NEW x \in Deployments, NEW i \in Replica
        PROVE  /\ i > wl'[x].up => load'[x][i] = 0
               /\ load'[x][i] = 0 => busyFor'[x][i] = 0
    <3>1. i \in Int
      <4>1. MaxReplicas \in Nat
        BY <1>1, ReplicaBound DEF Types
      <4>. QED BY <4>1, SMTT(60) DEF Replica
    <3>2. /\ i > wl[x].up => load[x][i] = 0
          /\ load[x][i] = 0 => busyFor[x][i] = 0
      BY <1>1 DEF Pods
    <3>3. CASE x = d
      BY <1>6, <1>7, <1>11, <3>1, <3>2, <3>3, SMTT(60)
    <3>4. CASE x # d
      BY <1>6, <1>11, <3>2, <3>4
    <3>. QED BY <3>3, <3>4
  <2>2. ASSUME NEW x \in Deployments
        PROVE  /\ max[x] >= 1 /\ max[x] <= Policy[x].max
               /\ wl'[x].up <= wl'[x].replicas /\ wl'[x].replicas <= Policy[x].max
               /\ wl'[x].deleting => wl'[x].up = 0
               /\ ~wl'[x].exists => wl'[x].replicas = 0
    <3>1. /\ max[x] >= 1 /\ max[x] <= Policy[x].max
          /\ wl[x].up <= wl[x].replicas /\ wl[x].replicas <= Policy[x].max
          /\ wl[x].deleting => wl[x].up = 0
          /\ ~wl[x].exists => wl[x].replicas = 0
      BY <1>1 DEF Pods
    <3>2. Policy[x].max \in Nat
      BY <1>1, PolicyType DEF Types
    <3>3. wl'[x].replicas <= Policy[x].max
      BY <1>8, <1>9, <3>1, <3>2, SMTT(60)
    <3>4. CASE x = d
      BY <1>6, <3>1, <3>3, <3>4 DEF Moved
    <3>5. CASE x # d
      BY <1>6, <3>1, <3>3, <3>5
    <3>. QED BY <3>4, <3>5
  <2>. QED BY <1>1, <1>2, <1>4, <2>1, <2>2 DEF Pods
<1>13. ASSUME job # NoJob PROVE job.d \in Deployments
  BY <1>1, <1>13 DEF Types, JobType
<1>14. Plans'
  BY <1>1, <1>2, <1>4, <1>5, <1>9, <1>13 DEF Plans, Writing
<1>15. Quiet'
  <2> SUFFICES ASSUME Writing("ensure"), job.n = 0, Policy[job.d].max = 1, wl'[job.d].replicas > 0
               PROVE  Policy[job.d].idle > 0 /\ \A i \in Replica : busyFor'[job.d][i] = 0
    BY <1>2, <1>4 DEF Quiet, Writing
  <2>1. job.d \in Deployments
    BY <1>13 DEF Writing
  <2>2. wl[job.d].replicas > 0
    BY <1>9, <2>1, SMTT(60)
  <2>3. Policy[job.d].idle > 0 /\ \A i \in Replica : busyFor[job.d][i] = 0
    BY <1>1, <2>2 DEF Quiet
  <2>. QED BY <1>11, <2>1, <2>3
<1>16. Woken'
  BY <1>1, <1>2, <1>4, <1>9, <1>13 DEF Woken, Writing
<1>17. \A x \in Deployments : /\ Held(x)' <= Held(x) /\ WorkloadSlots(x)' <= WorkloadSlots(x)
                              /\ Held(x) \in Nat /\ Held(x)' \in Nat
                              /\ WorkloadSlots(x) \in Nat /\ WorkloadSlots(x)' \in Nat
  <2>1. \A x \in Deployments : Held(x)' <= Held(x) /\ WorkloadSlots(x)' <= WorkloadSlots(x)
    <3> SUFFICES ASSUME NEW x \in Deployments
                 PROVE  Held(x)' <= Held(x) /\ WorkloadSlots(x)' <= WorkloadSlots(x)
      OBVIOUS
    <3>1. wl'[x].replicas <= wl[x].replicas /\ gen[x] \in Nat
      BY <1>1, <1>8, <1>9, SMTT(60) DEF Types
    <3>. QED BY <1>1, <1>2, <1>10, <3>1, HeldShrinks, SMTT(60)
  <2>2. HeldTyped /\ HeldTyped'
    BY <1>1, <1>10, TypedHeld, TypedHeldNext
  <2>. QED BY <1>4, <2>1, <2>2 DEF HeldTyped
<1>18. \A x \in Deployments :
         Available(x) <= Available(x)' /\ Available(x) \in Int /\ Available(x)' \in Int
  BY <1>1, <1>2, <1>10, <1>17, AvailableGrows
<1>19. Floors'
  <2> SUFFICES ASSUME "max" \notin Edits
               PROVE  /\ \A x \in Deployments : Policy[x].min = Policy[x].max =>
                           wl'[x].replicas \in {0, Policy[x].max}
                      /\ /\ Writing("ensure") /\ job.n > 0 /\ Policy[job.d].min = Policy[job.d].max
                         /\ RequiresSpare(job.d) /\ wl'[job.d].replicas > 0 /\ wl'[job.d].ver # job.ver
                         => Policy[job.d].gpus * (job.n + Surge(job.d, job.n)) <= Available(job.d)'
    BY <1>1, <1>2, <1>4, <1>5, <1>13 DEF Floors, Writing
  <2>1. \A x \in Deployments : Policy[x].min = Policy[x].max =>
           wl'[x].replicas \in {0, Policy[x].max}
    BY <1>1, <1>9 DEF Floors
  <2>2. ASSUME Writing("ensure"), job.n > 0, Policy[job.d].min = Policy[job.d].max,
               RequiresSpare(job.d), wl'[job.d].replicas > 0, wl'[job.d].ver # job.ver
        PROVE  Policy[job.d].gpus * (job.n + Surge(job.d, job.n)) <= Available(job.d)'
    <3> DEFINE need == Policy[job.d].gpus * (job.n + Surge(job.d, job.n))
    <3>1. job.d \in Deployments /\ job \in JobType
      BY <1>1, <1>13, <2>2 DEF Writing, Types
    <3>2. need <= Available(job.d)
      <4>1. wl[job.d].replicas > 0 /\ wl[job.d].ver # job.ver
        BY <1>9, <2>2, <3>1, SMTT(60)
      <4>. QED BY <1>1, <2>2, <4>1 DEF Floors
    <3>3. need \in Int
      <4>1. job.n \in Nat /\ Policy[job.d].gpus \in Nat /\ Policy[job.d].strategy \in {"Recreate"} \cup Spare
        BY <1>1, <3>1, PolicyType DEF JobType, Types
      <4>2. Surge(job.d, job.n) \in Nat
        BY <4>1 DEF Surge, Spare
      <4>. QED BY <4>1, <4>2, SMTT(60)
    <3> HIDE DEF need
    <3>4. Available(job.d) <= Available(job.d)' /\ Available(job.d) \in Int /\ Available(job.d)' \in Int
      BY <1>2, <1>18, <3>1
    <3>5. need <= Available(job.d)'
      BY <3>2, <3>3, <3>4, SMTT(60)
    <3>. QED BY <3>5 DEF need
  <2>. QED BY <2>1, <2>2
<1>20. ASSUME NEW x \in Deployments, WorkloadSlots(x) <= Held(x)
       PROVE  WorkloadSlots(x)' <= Held(x)'
  <2>1. /\ Held(x) \in Nat /\ Held(x)' \in Nat
        /\ WorkloadSlots(x) \in Nat /\ WorkloadSlots(x)' \in Nat
        /\ WorkloadSlots(x)' <= WorkloadSlots(x)
    BY <1>17
  <2>2. CASE ReservedByStatus(x)
    <3>1. Held(x)' = Held(x)
      BY <1>5, <2>2 DEF Held
    <3>. QED BY <1>20, <2>1, <3>1, SMTT(60)
  <2>3. CASE ~ReservedByStatus(x)
    <3>1. Held(x)' = WorkloadSlots(x)'
      BY <1>5, <2>3 DEF Held
    <3>. QED BY <2>1, <3>1, SMTT(60)
  <2>. QED BY <2>2, <2>3
<1>21. Booked'
  <2> SUFFICES ASSUME DemandOnly, DemandOnly'
               PROVE  Booked'
    BY <1>4 DEF Booked
  <2>1. \A x \in Deployments :
          ~wl[x].rolling /\ (st[x].phase \in Reserving => st[x].assigned)
    BY <1>1 DEF Booked
  <2>2. \A x \in Deployments :
          ~wl'[x].rolling /\ (st'[x].phase \in Reserving => st'[x].assigned)
    BY <1>2, <1>9, <2>1
  <2>3. CASE job = NoJob
    <3>1. ASSUME NEW x \in Deployments
          PROVE  WorkloadSlots(x)' <= Held(x)' /\ Held(x)' <= Available(x)'
      <4>1. WorkloadSlots(x) <= Held(x) /\ Held(x) <= Available(x)
        BY <1>1, <2>3 DEF Booked
      <4>2. Held(x)' <= Held(x) /\ Held(x) \in Nat /\ Held(x)' \in Nat
        BY <1>17
      <4>3. Available(x) <= Available(x)' /\ Available(x) \in Int /\ Available(x)' \in Int
        BY <1>18
      <4>. QED BY <1>20, <4>1, <4>2, <4>3, SMTT(60)
    <3>. QED BY <1>2, <1>4, <2>2, <2>3, <3>1 DEF Booked, Writing, Reserving
  <2>4. CASE job # NoJob
    <3>1. PICK y \in Deployments : y = job.d
      BY <1>13, <2>4
    <3>2. job'.d = y
      BY <1>2, <3>1
    <3> DEFINE need == Policy[y].gpus * job.n
    <3>3. job.n \in Nat /\ Policy[y].gpus \in Nat
      BY <1>1, <2>4, PolicyType DEF Types, JobType
    <3>4. /\ job.status.phase \in Reserving => job.status.assigned
          /\ \A x \in Deployments \ {y} : WorkloadSlots(x) <= Held(x)
          /\ WorkloadSlots(y) <= Available(y)
          /\ Writing("ensure") /\ job.n > 0 =>
               job.n = Effective(y, job.status.desired) /\ need <= Available(y)
          /\ Writing("delete") => st[y].phase \notin Reserving
          /\ job.stage = "status" =>
               /\ HeldAs(y, job.status) <= Available(y)
               /\ WorkloadSlots(y) <= HeldAs(y, job.status)
      BY <1>1, <2>4, <3>1 DEF Booked
    <3>5. need \in Nat
      BY <3>3, SMTT(60)
    <3> HIDE DEF need
    <3>6. /\ WorkloadSlots(y)' <= WorkloadSlots(y)
          /\ WorkloadSlots(y) \in Nat /\ WorkloadSlots(y)' \in Nat
          /\ Available(y) <= Available(y)' /\ Available(y) \in Int /\ Available(y)' \in Int
      BY <1>17, <1>18
    <3>7. \A x \in Deployments \ {y} : WorkloadSlots(x)' <= Held(x)'
      BY <1>20, <3>4
    <3>8. WorkloadSlots(y)' <= Available(y)'
      BY <3>4, <3>6, SMTT(60)
    <3>9. Writing("ensure") /\ job.n > 0 => need <= Available(y)'
      BY <3>4, <3>5, <3>6, SMTT(60)
    <3>10. ASSUME job.stage = "status"
           PROVE  HeldAs(y, job.status)' <= Available(y)' /\ WorkloadSlots(y)' <= HeldAs(y, job.status)'
      <4> DEFINE k == Policy[y].gpus * Effective(y, job.status.desired)
      <4>1. CASE job.status.assigned /\ job.status.phase \in Reserving
        <5>1. HeldAs(y, job.status) = k /\ HeldAs(y, job.status)' = k
          BY <1>2, <1>4, <1>5, <4>1 DEF HeldAs, Reserving
        <5>2. k \in Int
          <6>1. job.status.desired \in Int
            BY <1>1, <2>4 DEF Types, JobType, StatusType
          <6>2. Effective(y, job.status.desired) \in Nat
            BY <1>1, <6>1, RangeType DEF Types
          <6>. QED BY <3>3, <6>2, SMTT(60)
        <5> HIDE DEF k
        <5>. QED BY <3>4, <3>6, <3>10, <5>1, <5>2, SMTT(60)
      <4>2. CASE ~(job.status.assigned /\ job.status.phase \in Reserving)
        <5>1. HeldAs(y, job.status)' = WorkloadSlots(y)'
          BY <1>2, <4>2 DEF HeldAs, Reserving
        <5>. QED BY <3>6, <3>8, <5>1, SMTT(60)
      <4>. QED BY <4>1, <4>2
    <3>11. job' # NoJob /\ (\A op : Writing(op)' = Writing(op))
      BY <1>2, <2>4 DEF Writing
    <3>. QED BY <1>2, <1>4, <1>5, <2>2, <3>2, <3>4, <3>7, <3>8, <3>9, <3>10, <3>11
         DEF Booked, Reserving, need
  <2>. QED BY <2>3, <2>4
<1>. QED BY <1>10, <1>12, <1>14, <1>15, <1>16, <1>19, <1>21 DEF Inv

LEMMA PodActionsInv ==
  ASSUME Inv, NEW d \in Deployments,
         \/ DeploymentObserved(d) \/ PodReady(d) \/ PodFails(d) \/ RolloutEnds(d)
         \/ WorkloadGone(d)
  PROVE  Inv'
<1>1. wl[d] \in WorkloadType
  BY DEF Inv, Types
<1>2. wl[d].replicas \in Nat /\ wl[d].up \in Nat
  BY <1>1 DEF WorkloadType
<1>3. /\ wl[d].up <= wl[d].replicas /\ (wl[d].deleting => wl[d].up = 0)
      /\ ~wl[d].exists => wl[d].replicas = 0
  BY DEF Inv, Pods
<1>4. CASE DeploymentObserved(d)
  <2> DEFINE w == [wl[d] EXCEPT !.observed = TRUE]
  <2>1. w \in WorkloadType
    BY <1>1 DEF WorkloadType
  <2>2. Moved(w, wl[d])
    BY <1>1, <1>3 DEF WorkloadType, Moved
  <2>. QED BY <1>4, <2>1, <2>2, PodStep DEF DeploymentObserved
<1>5. CASE PodReady(d)
  <2> DEFINE w == [wl[d] EXCEPT !.up = @ + 1]
  <2>1. w \in WorkloadType
    <3>1. wl[d].up + 1 \in Nat
      BY <1>2, SMTT(60)
    <3>. QED BY <1>1, <3>1 DEF WorkloadType
  <2>2. ~wl[d].deleting /\ wl[d].up < wl[d].replicas
    BY <1>5 DEF PodReady
  <2>3. Moved(w, wl[d])
    BY <1>1, <1>2, <1>3, <2>2, SMTT(60) DEF WorkloadType, Moved
  <2>. QED BY <1>5, <2>1, <2>3, PodStep DEF PodReady
<1>6. CASE PodFails(d)
  <2> DEFINE w == [wl[d] EXCEPT !.up = @ - 1]
  <2>1. wl[d].up > 0
    BY <1>6 DEF PodFails
  <2>2. w \in WorkloadType
    <3>1. wl[d].up - 1 \in Nat
      BY <1>2, <2>1, SMTT(60)
    <3>. QED BY <1>1, <3>1 DEF WorkloadType
  <2>3. Moved(w, wl[d])
    BY <1>1, <1>2, <1>3, <2>1, SMTT(60) DEF WorkloadType, Moved
  <2>. QED BY <1>6, <2>2, <2>3, PodStep DEF PodFails
<1>7. CASE RolloutEnds(d)
  <2> DEFINE w == [wl[d] EXCEPT !.rolling = FALSE]
  <2>1. w \in WorkloadType
    BY <1>1 DEF WorkloadType
  <2>2. Moved(w, wl[d])
    BY <1>1, <1>3 DEF WorkloadType, Moved
  <2>. QED BY <1>7, <2>1, <2>2, PodStep DEF RolloutEnds
<1>8. CASE WorkloadGone(d)
  <2>1. NoWorkload \in WorkloadType
    <3>1. 0 \in Nat
      OBVIOUS
    <3>. QED BY <3>1 DEF NoWorkload, WorkloadType
  <2>2. Moved(NoWorkload, wl[d])
    BY SMTT(60) DEF Moved, NoWorkload
  <2>. QED BY <1>8, <2>1, <2>2, PodStep DEF WorkloadGone
<1>. QED BY <1>4, <1>5, <1>6, <1>7, <1>8

(* Steps that leave everything but the requests alone.                      *)
LEMMA RequestStep ==
  ASSUME Inv,
         setup' = setup, gen' = gen, max' = max, ver' = ver, st' = st, wl' = wl, job' = job,
         load' \in [Deployments -> [Replica -> Nat]],
         busyFor' \in [Deployments -> [Replica -> Nat]],
         \A x \in Deployments : \A i \in Replica :
           /\ i > wl[x].up => load'[x][i] = 0
           /\ load'[x][i] = 0 => busyFor'[x][i] = 0
           /\ busyFor'[x][i] \in {0, busyFor[x][i]}
  PROVE  Inv'
<1>1. Types /\ Pods /\ Plans /\ Quiet /\ Woken /\ Floors /\ Booked
  BY DEF Inv
<1>2. /\ Policy' = Policy /\ Deployments' = Deployments /\ Capacity' = Capacity
      /\ Edits' = Edits /\ Replica' = Replica /\ (DemandOnly' <=> DemandOnly)
      /\ JobType' = JobType
      /\ (\A x : RequiresSpare(x)' = RequiresSpare(x))
      /\ (\A x : MaySleep(x)' = MaySleep(x))
      /\ (\A x, n : Surge(x, n)' = Surge(x, n))
  BY SetupKept
<1>3. \A x : /\ Held(x)' = Held(x) /\ Available(x)' = Available(x)
             /\ WorkloadSlots(x)' = WorkloadSlots(x)
             /\ HoldAtZero(x)' = HoldAtZero(x) /\ Running(x)' = Running(x)
             /\ Base(x)' = Base(x)
             /\ \A n : Effective(x, n)' = Effective(x, n)
             /\ \A u : HeldAs(x, u)' = HeldAs(x, u)
  BY StateKept
<1>4. \A op : Writing(op)' = Writing(op)
  BY DEF Writing
<1>5. ASSUME job # NoJob PROVE job.d \in Deployments
  BY <1>1, <1>5 DEF Types, JobType
<1>6. Types'
  BY <1>1, <1>2 DEF Types
<1>7. Pods'
  BY <1>1, <1>2 DEF Pods
<1>8. Plans'
  BY <1>1, <1>2, <1>3, <1>4 DEF Plans, Reserving
<1>9. Quiet'
  <2> SUFFICES ASSUME Writing("ensure"), job.n = 0, Policy[job.d].max = 1, wl[job.d].replicas > 0
               PROVE  Policy[job.d].idle > 0 /\ \A i \in Replica : busyFor'[job.d][i] = 0
    BY <1>2, <1>4 DEF Quiet
  <2>1. job.d \in Deployments
    BY <1>5 DEF Writing
  <2>2. Policy[job.d].idle > 0 /\ \A i \in Replica : busyFor[job.d][i] = 0
    BY <1>1 DEF Quiet
  <2>. QED BY <2>1, <2>2
<1>10. Woken'
  BY <1>1, <1>2, <1>3, <1>4 DEF Woken
<1>11. Floors'
  BY <1>1, <1>2, <1>3, <1>4 DEF Floors
<1>12. Booked'
  BY <1>1, <1>2, <1>3, <1>4 DEF Booked, Reserving
<1>. QED BY <1>6, <1>7, <1>8, <1>9, <1>10, <1>11, <1>12 DEF Inv

LEMMA RequestsInv ==
  ASSUME Inv, NEW d \in Deployments, RequestArrives(d) \/ RequestEnds(d)
  PROVE  Inv'
<1>1. load \in [Deployments -> [Replica -> Nat]] /\ busyFor \in [Deployments -> [Replica -> Nat]]
  BY DEF Inv, Types
<1>2. /\ setup' = setup /\ gen' = gen /\ max' = max /\ ver' = ver /\ st' = st /\ wl' = wl
      /\ job' = job
  BY DEF RequestArrives, RequestEnds
<1>3. \A x \in Deployments : \A i \in Replica :
        /\ i > wl[x].up => load[x][i] = 0
        /\ load[x][i] = 0 => busyFor[x][i] = 0
  BY DEF Inv, Pods
<1>4. wl[d].up \in Nat /\ wl[d].up <= MaxReplicas /\ MaxReplicas \in Nat
  <2>1. wl[d].up \in Nat /\ wl[d].replicas \in Nat /\ setup \in Setups
    BY DEF Inv, Types, WorkloadType
  <2>2. wl[d].up <= wl[d].replicas /\ wl[d].replicas <= Policy[d].max
    BY DEF Inv, Pods
  <2>3. Policy[d].max <= MaxReplicas /\ MaxReplicas \in Nat /\ Policy[d].max \in Nat
    BY <2>1, ReplicaBound, PolicyType
  <2>. QED BY <2>1, <2>2, <2>3, SMTT(60)
<1>5. CASE RequestArrives(d)
  <2>1. PICK i \in 1 .. wl[d].up : load' = [load EXCEPT ![d][i] = @ + 1]
    BY <1>5 DEF RequestArrives
  <2>2. i \in Replica /\ i \in Int /\ ~(i > wl[d].up)
    BY <1>4, SMTT(60) DEF Replica
  <2>3. load' \in [Deployments -> [Replica -> Nat]]
    BY <1>1, <2>1, <2>2, SMTT(60)
  <2>4. \A x \in Deployments : \A k \in Replica :
          load'[x][k] = IF x = d /\ k = i THEN load[d][i] + 1 ELSE load[x][k]
    BY <1>1, <2>1, <2>2
  <2>5. load[d][i] \in Nat
    BY <1>1, <2>2
  <2>6. busyFor' = busyFor
    BY <1>5 DEF RequestArrives
  <2>7. ASSUME NEW x \in Deployments, NEW k \in Replica
        PROVE  /\ k > wl[x].up => load'[x][k] = 0
               /\ load'[x][k] = 0 => busyFor'[x][k] = 0
               /\ busyFor'[x][k] \in {0, busyFor[x][k]}
    <3>1. CASE x = d /\ k = i
      <4>1. load'[x][k] = load[d][i] + 1
        BY <2>4, <3>1
      <4>2. load'[x][k] # 0
        BY <2>5, <4>1, SMTT(60)
      <4>. QED BY <2>2, <2>6, <3>1, <4>2
    <3>2. CASE ~(x = d /\ k = i)
      <4>1. load'[x][k] = load[x][k]
        BY <2>4, <3>2
      <4>. QED BY <1>3, <2>6, <4>1
    <3>. QED BY <3>1, <3>2
  <2>. QED BY <1>1, <1>2, <2>3, <2>6, <2>7, RequestStep
<1>6. CASE RequestEnds(d)
  <2>1. PICK i \in Replica :
          /\ load[d][i] > 0
          /\ load' = [load EXCEPT ![d][i] = @ - 1]
          /\ busyFor' = [busyFor EXCEPT ![d][i] = IF load[d][i] = 1 THEN 0 ELSE @]
    BY <1>6 DEF RequestEnds
  <2>2. load[d][i] \in Nat /\ busyFor[d][i] \in Nat
    BY <1>1
  <2>3. /\ load' \in [Deployments -> [Replica -> Nat]]
        /\ busyFor' \in [Deployments -> [Replica -> Nat]]
    BY <1>1, <2>1, <2>2, SMTT(60)
  <2>4. \A x \in Deployments : \A k \in Replica :
          /\ load'[x][k] = IF x = d /\ k = i THEN load[d][i] - 1 ELSE load[x][k]
          /\ busyFor'[x][k] = IF x = d /\ k = i THEN IF load[d][i] = 1 THEN 0 ELSE busyFor[d][i]
                                                ELSE busyFor[x][k]
    BY <1>1, <2>1
  <2>5. ASSUME NEW x \in Deployments, NEW k \in Replica
        PROVE  /\ k > wl[x].up => load'[x][k] = 0
               /\ load'[x][k] = 0 => busyFor'[x][k] = 0
               /\ busyFor'[x][k] \in {0, busyFor[x][k]}
    BY <1>3, <2>1, <2>2, <2>4, SMTT(60)
  <2>. QED BY <1>2, <2>3, <2>5, RequestStep
<1>. QED BY <1>5, <1>6

LEMMA MetricsInv ==
  ASSUME Inv, MetricsMove \/ UNCHANGED vars
  PROVE  Inv'
<1>1. load \in [Deployments -> [Replica -> Nat]] /\ busyFor \in [Deployments -> [Replica -> Nat]]
  BY DEF Inv, Types
<1>2. /\ setup' = setup /\ gen' = gen /\ max' = max /\ ver' = ver /\ st' = st /\ wl' = wl
      /\ job' = job /\ load' = load /\ busyFor' = busyFor
  BY DEF MetricsMove, vars
<1>3. \A x \in Deployments : \A i \in Replica :
        /\ i > wl[x].up => load[x][i] = 0
        /\ load[x][i] = 0 => busyFor[x][i] = 0
  BY DEF Inv, Pods
<1>. QED BY <1>1, <1>2, <1>3, RequestStep

(* Users edit a spec.                                                       *)
LEMMA EditStep ==
  ASSUME Inv, NEW d \in Deployments,
         setup' = setup, st' = st, wl' = wl, job' = job, load' = load, busyFor' = busyFor,
         gen' = [gen EXCEPT ![d] = @ + 1],
         ver' \in [Deployments -> Nat], max' \in [Deployments -> Nat],
         \A x \in Deployments : max'[x] >= 1 /\ max'[x] <= Policy[x].max,
         max' = max \/ "max" \in Edits
  PROVE  Inv'
<1>1. Types /\ Pods /\ Plans /\ Quiet /\ Woken /\ Floors /\ Booked
  BY DEF Inv
<1>2. /\ Policy' = Policy /\ Deployments' = Deployments /\ Capacity' = Capacity
      /\ Edits' = Edits /\ Replica' = Replica /\ (DemandOnly' <=> DemandOnly)
      /\ JobType' = JobType
      /\ (\A x : RequiresSpare(x)' = RequiresSpare(x))
      /\ (\A x : MaySleep(x)' = MaySleep(x))
      /\ (\A x, n : Surge(x, n)' = Surge(x, n))
  BY SetupKept
<1>3. /\ gen' \in [Deployments -> Nat]
      /\ \A x \in Deployments : gen[x] \in Nat /\ gen'[x] \in Nat /\ gen'[x] >= gen[x]
  <2>1. gen \in [Deployments -> Nat]
    BY <1>1 DEF Types
  <2>2. \A x \in Deployments : gen'[x] = IF x = d THEN gen[x] + 1 ELSE gen[x]
    BY <2>1
  <2>. QED BY <2>1, <2>2, SMTT(60)
<1>4. \A x \in Deployments : st[x].obs \in Nat
  BY <1>1 DEF Types, StatusType
<1>5. \A x \in Deployments : HoldAtZero(x)' => HoldAtZero(x)
  <2> SUFFICES ASSUME NEW x \in Deployments, HoldAtZero(x)' PROVE HoldAtZero(x)
    OBVIOUS
  <2>1. st[x].obs >= gen'[x]
    BY DEF HoldAtZero
  <2>2. st[x].obs >= gen[x]
    BY <1>3, <1>4, <2>1, SMTT(60)
  <2>. QED BY <1>2, <2>2 DEF HoldAtZero
<1>6. \A op : Writing(op)' = Writing(op)
  BY DEF Writing
<1>7. ASSUME job # NoJob PROVE job.d \in Deployments
  BY <1>1, <1>7 DEF Types, JobType
<1>8. Types'
  BY <1>1, <1>2, <1>3 DEF Types
<1>9. Pods'
  BY <1>1, <1>2 DEF Pods
<1>10. Plans'
  BY <1>1, <1>2, <1>5, <1>6, <1>7 DEF Plans, Reserving, Writing
<1>11. Quiet'
  BY <1>1, <1>2, <1>6 DEF Quiet
<1>12. \A x : Running(x)' = Running(x) /\ WorkloadSlots(x)' = WorkloadSlots(x)
  BY <1>2 DEF Running, WorkloadSlots
<1>13. Woken'
  <2>1. ASSUME NEW x \in Deployments, gen[x] > st[x].obs
        PROVE  gen'[x] > st[x].obs
    BY <1>3, <1>4, <2>1, SMTT(60)
  <2>. QED BY <1>1, <1>2, <1>6, <1>7, <1>12, <2>1 DEF Woken, Writing
<1>14. Floors'
  <2> SUFFICES ASSUME "max" \notin Edits PROVE Floors'
    BY <1>2 DEF Floors
  <2>1. max' = max
    OBVIOUS
  <2>2. \A x : Base(x)' = Base(x) /\ \A n : Effective(x, n)' = Effective(x, n)
    BY <2>1, MaxKept
  <2>3. \A x \in Deployments : Held(x)' <= Held(x)
    <3> SUFFICES ASSUME NEW x \in Deployments PROVE Held(x)' <= Held(x)
      OBVIOUS
    <3>1. wl'[x].replicas <= wl[x].replicas
      <4>1. wl[x].replicas \in Nat
        BY <1>1 DEF Types, WorkloadType
      <4>. QED BY <4>1, SMTT(60)
    <3>. QED BY <1>1, <1>3, <1>8, <2>1, <3>1, HeldShrinks
  <2>4. \A x \in Deployments :
          Available(x) <= Available(x)' /\ Available(x) \in Int /\ Available(x)' \in Int
    BY <1>1, <1>8, <2>3, AvailableGrows
  <2>5. ASSUME Writing("ensure"), job.n > 0, Policy[job.d].min = Policy[job.d].max,
               RequiresSpare(job.d), wl[job.d].replicas > 0, wl[job.d].ver # job.ver
        PROVE  Policy[job.d].gpus * (job.n + Surge(job.d, job.n)) <= Available(job.d)'
    <3> DEFINE need == Policy[job.d].gpus * (job.n + Surge(job.d, job.n))
    <3>1. job.d \in Deployments /\ job \in JobType
      BY <1>1, <1>7, <2>5 DEF Writing, Types
    <3>2. need <= Available(job.d)
      BY <1>1, <2>5 DEF Floors
    <3>3. need \in Int
      <4>1. /\ job.n \in Nat /\ Policy[job.d].gpus \in Nat
            /\ Policy[job.d].strategy \in {"Recreate"} \cup Spare
        BY <1>1, <3>1, PolicyType DEF JobType, Types
      <4>2. Surge(job.d, job.n) \in Nat
        BY <4>1 DEF Surge, Spare
      <4>. QED BY <4>1, <4>2, SMTT(60)
    <3> HIDE DEF need
    <3>4. Available(job.d) <= Available(job.d)' /\ Available(job.d) \in Int /\ Available(job.d)' \in Int
      BY <2>4, <3>1
    <3>5. need <= Available(job.d)'
      BY <3>2, <3>3, <3>4, SMTT(60)
    <3>. QED BY <3>5 DEF need
  <2>. QED BY <1>1, <1>2, <1>6, <2>1, <2>2, <2>5 DEF Floors
<1>15. Booked'
  <2> SUFFICES ASSUME DemandOnly PROVE Booked'
    BY <1>2 DEF Booked
  <2>1. max' = max
    BY DEF DemandOnly
  <2>2. \A x : Effective(x, st[x].desired)' = Effective(x, st[x].desired)
               /\ \A n : Effective(x, n)' = Effective(x, n)
    BY <2>1, MaxKept
  <2>3. \A x \in Deployments : ~SurgeActive(x) /\ ~SurgeActive(x)'
    BY <1>2 DEF DemandOnly, SurgeActive
  <2>4. \A x \in Deployments : Held(x)' = Held(x)
    BY <1>2, <1>12, <2>2, <2>3 DEF Held, ReservedByStatus, ReservedSlots
  <2>5. \A x : Available(x)' = Available(x)
    BY <1>2, <2>4 DEF Available, Allocated
  <2>6. \A x, s : HeldAs(x, s)' = HeldAs(x, s)
    BY <1>2, <1>12, <2>2 DEF HeldAs
  <2>. QED BY <1>1, <1>2, <1>6, <1>12, <2>2, <2>4, <2>5, <2>6 DEF Booked, Reserving
<1>. QED BY <1>8, <1>9, <1>10, <1>11, <1>13, <1>14, <1>15 DEF Inv

LEMMA EditsInv ==
  ASSUME Inv, NEW d \in Deployments, EditTemplate(d) \/ EditMaxReplicas(d)
  PROVE  Inv'
<1>1. /\ setup' = setup /\ st' = st /\ wl' = wl /\ job' = job /\ load' = load
      /\ busyFor' = busyFor /\ gen' = [gen EXCEPT ![d] = @ + 1]
  BY DEF EditTemplate, EditMaxReplicas, Edit
<1>2. /\ gen \in [Deployments -> Nat] /\ ver \in [Deployments -> Nat]
      /\ max \in [Deployments -> Nat] /\ setup \in Setups
      /\ \A x \in Deployments : max[x] >= 1 /\ max[x] <= Policy[x].max
  BY DEF Inv, Types, Pods
<1>3. CASE EditTemplate(d)
  <2>1. ver' \in [Deployments -> Nat] /\ max' = max
    BY <1>2, <1>3, SMTT(60) DEF EditTemplate
  <2>. QED BY <1>1, <1>2, <2>1, EditStep
<1>4. CASE EditMaxReplicas(d)
  <2> DEFINE lo == Max({Policy[d].min, 1})
  <2>1. PICK n \in lo .. Policy[d].max : max' = [max EXCEPT ![d] = n]
    BY <1>4 DEF EditMaxReplicas
  <2>2. lo \in Nat /\ lo >= 1 /\ Policy[d].max \in Nat
    <3>1. Policy[d].min \in Nat /\ Policy[d].max \in Nat
      BY <1>2, PolicyType
    <3>2. lo = IF Policy[d].min >= 1 THEN Policy[d].min ELSE 1
      BY <3>1, MaxOfTwo, SMTT(60)
    <3>. QED BY <3>1, <3>2, SMTT(60)
  <2> HIDE DEF lo
  <2>3. n \in Nat /\ n >= 1 /\ n <= Policy[d].max
    BY <2>2, SMTT(60)
  <2>4. max' \in [Deployments -> Nat] /\ \A x \in Deployments : max'[x] >= 1 /\ max'[x] <= Policy[x].max
    BY <1>2, <2>1, <2>3
  <2>5. "max" \in Edits /\ ver' = ver
    BY <1>4 DEF EditMaxReplicas, Edit
  <2>. QED BY <1>1, <1>2, <2>4, <2>5, EditStep
<1>. QED BY <1>3, <1>4

LEMMA ErrorInv ==
  ASSUME Inv, ReconcileError
  PROVE  Inv'
<1>1. Types /\ Pods /\ Plans /\ Quiet /\ Woken /\ Floors /\ Booked
  BY DEF Inv
<1>2. /\ setup' = setup /\ gen' = gen /\ max' = max /\ ver' = ver /\ st' = st /\ wl' = wl
      /\ load' = load /\ busyFor' = busyFor /\ job' = NoJob /\ "Write" \in setup.faults
  BY DEF ReconcileError, Fault
<1>3. /\ Policy' = Policy /\ Deployments' = Deployments
      /\ Edits' = Edits /\ Replica' = Replica /\ (DemandOnly' <=> DemandOnly)
  BY <1>2, SetupKept
<1>4. \A x : HoldAtZero(x)' = HoldAtZero(x) /\ Base(x)' = Base(x)
  BY <1>2, StatusKept
<1>5. Types' /\ Pods'
  BY <1>1, <1>2, <1>3 DEF Types, Pods
<1>6. Plans' /\ Quiet' /\ Woken' /\ Floors'
  BY <1>1, <1>2, <1>3, <1>4 DEF Plans, Quiet, Woken, Floors, Writing
<1>7. Booked'
  BY <1>2, <1>3 DEF Booked, DemandOnly
<1>. QED BY <1>5, <1>6, <1>7 DEF Inv

LEMMA OlderType ==
  ASSUME setup \in Setups, NEW d \in Deployments
  PROVE  /\ \A a \in Int : Older(d, a) \in Int
         /\ \A a \in Nat : Older(d, a) \in Nat
<1>1. Policy[d].idle \in Nat
  BY PolicyType
<1>2. \A a \in Int : Older(d, a) = IF a + 1 <= Policy[d].idle THEN a + 1 ELSE Policy[d].idle
  BY <1>1, MinOfTwo, SMTT(60) DEF Older
<1>. QED BY <1>1, <1>2, SMTT(60)

LEMMA TickInv ==
  ASSUME Inv, Tick
  PROVE  Inv'
<1>1. Types /\ Pods /\ Plans /\ Quiet /\ Woken /\ Floors /\ Booked
  BY DEF Inv
<1>2. /\ setup' = setup /\ gen' = gen /\ max' = max /\ ver' = ver /\ wl' = wl /\ load' = load
      /\ job = NoJob /\ job' = NoJob
  BY DEF Tick
<1>3. /\ Policy' = Policy /\ Deployments' = Deployments /\ Capacity' = Capacity
      /\ Edits' = Edits /\ Replica' = Replica /\ (DemandOnly' <=> DemandOnly)
      /\ (\A x : MaySleep(x)' = MaySleep(x))
  BY <1>2, SetupKept
<1>4. setup \in Setups /\ st \in [Deployments -> StatusType]
      /\ load \in [Deployments -> [Replica -> Nat]] /\ busyFor \in [Deployments -> [Replica -> Nat]]
  BY <1>1 DEF Types
<1>5. ASSUME NEW x \in Deployments
      PROVE  /\ st'[x] \in StatusType
             /\ st'[x].assigned = st[x].assigned /\ st'[x].phase = st[x].phase
             /\ st'[x].desired = st[x].desired /\ st'[x].rollout = st[x].rollout
             /\ st'[x].rolloutGen = st[x].rolloutGen /\ st'[x].obs = st[x].obs
             /\ st'[x].ready = st[x].ready
  <2> DEFINE a == IF st[x].activity = Never THEN st[x].activity ELSE Older(x, st[x].activity)
  <2>1. st'[x] = [st[x] EXCEPT !.activity = a]
    BY DEF Tick
  <2>2. st[x] \in StatusType
    BY <1>4
  <2>3. a \in Int
    <3>1. st[x].activity \in Int
      BY <2>2 DEF StatusType
    <3>. QED BY <1>4, <3>1, OlderType
  <2> HIDE DEF a
  <2>. QED BY <2>1, <2>2, <2>3 DEF StatusType
<1>6. Types'
  <2>1. st' \in [Deployments -> StatusType]
    <3>1. st' = [x \in Deployments |-> st'[x]]
      BY DEF Tick
    <3>. QED BY <1>5, <3>1
  <2>2. busyFor' \in [Deployments -> [Replica -> Nat]]
    <3>1. \A x \in Deployments : \A i \in Replica : Older(x, busyFor[x][i]) \in Nat
      BY <1>4, OlderType
    <3>2. 0 \in Nat
      OBVIOUS
    <3>. QED BY <3>1, <3>2 DEF Tick
  <2>. QED BY <1>1, <1>2, <1>3, <2>1, <2>2 DEF Types
<1>7. Pods'
  <2>1. \A x \in Deployments : \A i \in Replica : load[x][i] = 0 => busyFor'[x][i] = 0
    BY <1>4, SMTT(60) DEF Tick
  <2>. QED BY <1>1, <1>2, <1>3, <2>1 DEF Pods
<1>8. \A x \in Deployments : HoldAtZero(x)' = HoldAtZero(x) /\ Running(x)' = Running(x)
  BY <1>2, <1>3, <1>5 DEF HoldAtZero, Running
<1>9. Plans' /\ Quiet' /\ Woken'
  BY <1>1, <1>2, <1>3, <1>5, <1>8 DEF Plans, Quiet, Woken, Writing
<1>10. Floors'
  <2>1. \A x : Base(x)' = Base(x)
    BY <1>2, MaxKept
  <2>. QED BY <1>1, <1>2, <1>3, <1>5, <2>1 DEF Floors, Writing
<1>11. \A x \in Deployments : Held(x)' = Held(x)
  <2> SUFFICES ASSUME NEW x \in Deployments PROVE Held(x)' = Held(x)
    OBVIOUS
  <2>1. wl'[x].replicas <= wl[x].replicas /\ gen'[x] >= gen[x]
    <3>1. wl[x].replicas \in Nat /\ gen[x] \in Nat
      BY <1>1 DEF Types, WorkloadType
    <3>. QED BY <1>2, <3>1, SMTT(60)
  <2>. QED BY <1>1, <1>2, <1>5, <1>6, <2>1, HeldShrinks
<1>12. \A x \in Deployments : WorkloadSlots(x)' = WorkloadSlots(x) /\ Available(x)' = Available(x)
  BY <1>2, <1>3, <1>11 DEF WorkloadSlots, Available, Allocated
<1>13. Booked'
  BY <1>1, <1>2, <1>3, <1>5, <1>11, <1>12 DEF Booked, Writing, Reserving
<1>. QED BY <1>6, <1>7, <1>9, <1>10, <1>13 DEF Inv

=============================================================================
