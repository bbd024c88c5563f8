------------------------ MODULE ReplicaScalingProofs ------------------------
(***************************************************************************)
(* Theorems about ReplicaScaling for any cluster: the controller's steps    *)
(* keep the invariant too, and what follows from it.                        *)
(***************************************************************************)
EXTENDS ReplicaScalingInvariant

(* A leaf that names no prover is one for Zenon.                          *)
USE Zenon

-----------------------------------------------------------------------------
(* The plan                                                                 *)

LEMMA Division ==
  ASSUME NEW a \in Int, NEW g \in Nat, g >= 1
  PROVE  /\ a \div g \in Int /\ g * (a \div g) <= a
         /\ \A b \in Int : g * b <= a => b <= a \div g
<1> DEFINE q == a \div g
           r == a % g
<1>1. q \in Int /\ r \in Int /\ r >= 0 /\ r < g /\ a = g * q + r
  BY SMTT(60)
<1> HIDE DEF q, r
<1>2. g * q \in Int /\ g * q <= a
  BY <1>1, SMTT(60)
<1>3. ASSUME NEW b \in Int, g * b <= a PROVE b <= q
  <2> SUFFICES ASSUME q + 1 <= b PROVE FALSE
    BY <1>1, SMTT(60)
  <2>1. g * (q + 1) <= g * b /\ g * (q + 1) \in Int /\ g * b \in Int
    BY <1>1, TimesGrows, SMTT(60)
  <2>2. g * (q + 1) = g * q + g
    BY <1>1, SMTT(60)
  <2>. QED BY <1>1, <1>2, <1>3, <2>1, <2>2, SMTT(60)
<1>. QED BY <1>1, <1>2, <1>3 DEF q

(* The metrics of a replica, if any.                                        *)
LEMMA Sampled ==
  ASSUME Types, Pods, NEW d \in Deployments, NEW s \in Samples(d)
  PROVE  /\ s.pending \in Nat /\ s.running \in Nat
         /\ HoldAtZero(d) /\ Policy[d].idle > 0 => ~s.ok
         /\ s.ok /\ Idle(s) => \E i \in Replica : i <= wl[d].up /\ load[d][i] = 0
<1>1. CASE s = NoSample
  BY <1>1 DEF NoSample
<1>2. CASE s # NoSample
  <2> DEFINE Sample(i) == [ok |-> TRUE, pending |-> Max({load[d][i] - 1, 0}),
                           running |-> Min({load[d][i], 1})]
  <2>1. ~(~Autoscaling(d) \/ HoldAtZero(d) \/ ~reach \/ wl[d].up = 0)
        /\ \E i \in 1 .. wl[d].up : s = Sample(i)
    BY <1>2 DEF Samples
  <2>2. PICK i \in 1 .. wl[d].up : s = Sample(i)
    BY <2>1
  <2>3. i \in Replica /\ i <= wl[d].up
    <3>1. wl[d].up \in Nat /\ wl[d].replicas \in Nat
      BY DEF Types, WorkloadType
    <3>2. wl[d].up <= wl[d].replicas /\ wl[d].replicas <= Policy[d].max
      BY DEF Pods
    <3>3. Policy[d].max <= MaxReplicas /\ MaxReplicas \in Nat /\ Policy[d].max \in Nat
      BY ReplicaBound, PolicyType DEF Types
    <3>. QED BY <3>1, <3>2, <3>3, SMTT(60) DEF Replica
  <2>4. load[d][i] \in Nat
    BY <2>3 DEF Types
  <2> DEFINE l == load[d][i]
  <2> HIDE DEF l
  <2>5. /\ s.pending = Max({l - 1, 0}) /\ s.running = Min({l, 1})
        /\ Max({l - 1, 0}) = IF l - 1 >= 0 THEN l - 1 ELSE 0
        /\ Min({l, 1}) = IF l <= 1 THEN l ELSE 1
    <3>1. s.pending = Max({l - 1, 0}) /\ s.running = Min({l, 1})
      BY <2>2 DEF l
    <3>2. /\ Max({l - 1, 0}) = IF l - 1 >= 0 THEN l - 1 ELSE 0
          /\ Min({l, 1}) = IF l <= 1 THEN l ELSE 1
      BY <2>4, MaxOfTwo, MinOfTwo, SMTT(60) DEF l
    <3>. QED BY <3>1, <3>2
  <2>6. s.pending \in Nat /\ s.running \in Nat /\ (s.running = 0 => l = 0)
    BY <2>4, <2>5, SMTT(60) DEF l
  <2>. QED BY <2>1, <2>3, <2>6 DEF Idle, l
<1>. QED BY <1>1, <1>2

(* planRuntimeReplicas.  A plan is 0, which takes an idle timeout or a hold *)
(* at zero, or no less than the floor; and where the floor fits, what       *)
(* capReplicasByGPUCapacity leaves does.                                    *)
LEMMA PlanFacts ==
  ASSUME Types, Pods, NEW d \in Deployments, NEW s \in Samples(d),
         NEW m, m = CapByGPUCapacity(d, Desired(d, s))
  PROVE  /\ m \in Nat /\ (m = 0 \/ m >= Base(d))
         /\ HoldAtZero(d) => m = 0
         /\ m = 0 /\ ~HoldAtZero(d) => s.ok /\ IdleTimedOut(d, s)
         /\ m > 0 /\ Policy[d].gpus * Base(d) <= Available(d) =>
              Reservation(d, m) <= Available(d)
<1>1. /\ Base(d) \in Nat /\ Base(d) >= 1 /\ EffectiveMax(d) \in Nat
      /\ \A n \in Int : Effective(d, n) \in Nat /\ (n > 0 => Effective(d, n) <= n)
  BY RangeType DEF Types
<1>2. s.pending \in Nat /\ s.running \in Nat
  BY Sampled
<1>3. /\ Policy[d].target \in Nat /\ st[d].replicas \in Int /\ Policy[d].gpus \in Nat
      /\ Policy[d].gpus >= 1 /\ Available(d) \in Int
  <2>1. st[d].replicas \in Int
    BY DEF Types, StatusType
  <2>2. Available(d) \in Int
    BY HeldType
  <2>. QED BY <2>1, <2>2, PolicyType DEF Types
<1>4. /\ FromMetrics(d, s) \in Nat
      /\ IdleTimedOut(d, s) => FromMetrics(d, s) = 0
      /\ ~IdleTimedOut(d, s) => FromMetrics(d, s) >= Base(d)
  <2> DEFINE c == Max({st[d].replicas, Base(d)})
             q == CeilDiv(s.pending, Policy[d].target)
             a == IF Policy[d].target > 0 /\ s.pending > 0 THEN c + q ELSE Base(d)
             e == Min({a, EffectiveMax(d)})
             x == Max({Base(d), e})
  <2>1. c \in Int
    <3>1. c = IF st[d].replicas >= Base(d) THEN st[d].replicas ELSE Base(d)
      BY <1>1, <1>3, MaxOfTwo, SMTT(60)
    <3>. QED BY <1>1, <1>3, <3>1, SMTT(60)
  <2>2. Policy[d].target > 0 => q \in Int
    <3> SUFFICES ASSUME Policy[d].target > 0 PROVE q \in Int
      OBVIOUS
    <3> DEFINE y == s.pending + Policy[d].target - 1
    <3>1. y \in Int /\ Policy[d].target \in Nat /\ Policy[d].target >= 1
      BY <1>2, <1>3, SMTT(60)
    <3> HIDE DEF y
    <3>2. y \div Policy[d].target \in Int
      BY <3>1, Division
    <3>. QED BY <3>2 DEF CeilDiv, y
  <2> HIDE DEF c, q
  <2>3. a \in Int
    BY <1>1, <2>1, <2>2, SMTT(60)
  <2> HIDE DEF a
  <2>4. e \in Int
    BY <1>1, <2>3, MinOfTwo, SMTT(60)
  <2> HIDE DEF e
  <2>5. x \in Nat /\ x >= Base(d)
    BY <1>1, <2>4, MaxOfTwo, SMTT(60)
  <2>6. FromMetrics(d, s) = IF IdleTimedOut(d, s) THEN 0 ELSE x
    BY DEF FromMetrics, c, q, a, e
  <2> HIDE DEF x
  <2>. QED BY <2>5, <2>6, SMTT(60)
<1> DEFINE n == Desired(d, s)
           f == Available(d) \div Policy[d].gpus
<1>5. HoldAtZero(d) => Autoscaling(d)
  BY DEF HoldAtZero, Autoscaling
<1>6. /\ n \in Nat /\ (n = 0 \/ n >= Base(d))
      /\ HoldAtZero(d) => n = 0
      /\ n = 0 /\ ~HoldAtZero(d) => s.ok /\ IdleTimedOut(d, s)
  <2>1. CASE HoldAtZero(d)
    <3>1. ~s.ok
      BY <2>1, Sampled DEF HoldAtZero
    <3>2. n = 0
      BY <1>5, <2>1, <3>1 DEF Desired
    <3> HIDE DEF n
    <3>. QED BY <1>1, <2>1, <3>2
  <2>2. CASE ~HoldAtZero(d) /\ s.ok
    <3>1. n = FromMetrics(d, s)
      BY <2>2 DEF Desired
    <3> HIDE DEF n
    <3>. QED BY <1>1, <1>4, <2>2, <3>1, SMTT(60)
  <2>3. CASE ~HoldAtZero(d) /\ ~s.ok
    <3>1. n = Base(d)
      BY <2>3 DEF Desired
    <3> HIDE DEF n
    <3>. QED BY <1>1, <2>3, <3>1, SMTT(60)
  <2>. QED BY <2>1, <2>2, <2>3
<1>7. /\ f \in Int /\ Policy[d].gpus * f <= Available(d)
      /\ Policy[d].gpus * Base(d) <= Available(d) => Base(d) <= f
      /\ Policy[d].gpus * 1 <= Available(d) => 1 <= f
  <2> DEFINE a == Available(d)
             g == Policy[d].gpus
  <2>1. a \in Int /\ g \in Nat /\ g >= 1 /\ Base(d) \in Int
    BY <1>1, <1>3, SMTT(60)
  <2> HIDE DEF a, g
  <2>2. /\ a \div g \in Int /\ g * (a \div g) <= a
        /\ \A b \in Int : g * b <= a => b <= a \div g
    BY <2>1, Division
  <2>. QED BY <2>1, <2>2, SMTT(60) DEF a, g
<1> HIDE DEF n
<1>8. m = IF n > 0 /\ Available(d) >= Policy[d].gpus /\ f < n /\ f >= Base(d) THEN f ELSE n
  BY DEF CapByGPUCapacity, n
<1> HIDE DEF f
<1>9. m \in Nat /\ (m = 0 \/ m >= Base(d)) /\ (m = 0 => n = 0) /\ (n = 0 => m = 0)
  BY <1>1, <1>3, <1>6, <1>7, <1>8, SMTT(60)
<1>10. ASSUME m > 0, Policy[d].gpus * Base(d) <= Available(d)
       PROVE  Reservation(d, m) <= Available(d)
  <2>1. Policy[d].gpus * 1 <= Policy[d].gpus * Base(d) /\ Policy[d].gpus * Base(d) \in Int
    BY <1>1, <1>3, TimesGrows, SMTT(60)
  <2>2. Base(d) <= f /\ Policy[d].gpus <= Available(d)
    BY <1>3, <1>7, <1>10, <2>1, SMTT(60)
  <2>3. m <= f
    BY <1>1, <1>3, <1>6, <1>7, <1>8, <1>10, <2>2, SMTT(60)
  <2>4. Effective(d, m) \in Nat /\ Effective(d, m) <= f
    BY <1>1, <1>7, <1>9, <1>10, <2>3, SMTT(60)
  <2>5. Policy[d].gpus * Effective(d, m) <= Policy[d].gpus * f
        /\ Policy[d].gpus * Effective(d, m) \in Int /\ Policy[d].gpus * f \in Int
    BY <1>3, <1>7, <2>4, TimesGrows, SMTT(60)
  <2>. QED BY <1>3, <1>7, <2>5, SMTT(60) DEF Reservation
<1>. QED BY <1>6, <1>9, <1>10

-----------------------------------------------------------------------------
(* The reconcile                                                            *)

LEMMA JobIsNotNone ==
  ASSUME NEW j \in JobType
  PROVE  j # NoJob
BY SMTT(60) DEF JobType, NoJob

(* The outcomes of a reconcile with plan m: to zero, no capacity, rollout   *)
(* blocked, and run.                                                        *)
Outcome(j, d, m) ==
  \/ /\ m = 0 /\ j.stage = "workload" /\ j.op = "ensure" /\ j.n = 0
     /\ j.status.phase = "Cached" /\ j.status.ready = "IdleScaledToZero"
  \/ /\ m > 0 /\ j.stage = "workload" /\ j.op = "delete" /\ j.n = 0
     /\ j.status.phase = "WaitingForGPU" /\ j.status.ready = "WaitingForGPU"
     /\ Reservation(d, m) > Available(d)
  \/ /\ m > 0 /\ j.stage = "status" /\ j.op = "leave" /\ j.n = 0
     /\ j.status.assigned /\ j.status.ready = "RolloutBlocked" /\ j.status.phase = st[d].phase
     /\ RequiresSpare(d) /\ wl[d].replicas # 0 /\ Reservation(d, m) <= Available(d)
  \/ /\ m > 0 /\ j.stage = "workload" /\ j.op = "ensure" /\ j.n = Effective(d, m)
     /\ j.status.assigned /\ j.status.phase = st[d].phase
     /\ Reservation(d, m) <= Available(d)
     /\ /\ RequiresSpare(d) /\ wl[d].exists /\ wl[d].ver # ver[d] /\ wl[d].replicas # 0
        /\ RequiredSlots(d, m) > Reservation(d, m)
        => RequiredSlots(d, m) <= Available(d)

LEMMA Reconciled ==
  ASSUME Types, Pods, NEW d \in Deployments, Reconcile(d)
  PROVE  \E s \in Samples(d), m \in Nat :
           /\ m = CapByGPUCapacity(d, Desired(d, s))
           /\ job' \in JobType /\ job'.d = d /\ job'.ver = ver[d] /\ job'.status.desired = m
           /\ Outcome(job', d, m)
<1> DEFINE P(s) == [st[d] EXCEPT !.desired = CapByGPUCapacity(d, Desired(d, s)),
                                 !.activity = Activity(d, s)]
<1>1. PICK s \in Samples(d) :
        \/ ReconcileToZero(d, P(s))
        \/ ReconcileNoCapacity(d, P(s))
        \/ ReconcileRolloutBlocked(d, P(s))
        \/ ReconcileRun(d, P(s))
  BY DEF Reconcile
<1> DEFINE m == CapByGPUCapacity(d, Desired(d, s))
           p == P(s)
<1>2. m \in Nat
  BY PlanFacts
<1>3. st[d] \in StatusType /\ gen[d] \in Nat /\ ver[d] \in Nat /\ wl[d] \in WorkloadType
  BY DEF Types
<1>4. Activity(d, s) \in Int
  <2>1. st[d].activity \in Int
    BY <1>3 DEF StatusType
  <2>. QED BY <2>1, SMTT(60) DEF Activity
<1>5. p \in StatusType /\ p.desired = m /\ p.phase = st[d].phase
  <2> DEFINE a == Activity(d, s)
  <2>1. p = [st[d] EXCEPT !.desired = m, !.activity = a] /\ m \in Int /\ a \in Int
    BY <1>2, <1>4, SMTT(60)
  <2> HIDE DEF m, a, p
  <2>. QED BY <1>3, <2>1 DEF StatusType
<1>6. Effective(d, m) \in Nat
  BY <1>2, RangeType, SMTT(60) DEF Types
<1> HIDE DEF p, m, P
<1>7. ASSUME NEW op \in {"ensure", "delete", "leave"}, NEW n \in Nat, NEW u \in StatusType,
             Decide(d, op, n, u)
      PROVE  /\ job' \in JobType /\ job'.d = d /\ job'.ver = ver[d]
             /\ job'.stage = (IF op = "leave" THEN "status" ELSE "workload")
             /\ job'.op = op /\ job'.n = n
             /\ job'.status.desired = u.desired /\ job'.status.phase = u.phase
             /\ job'.status.ready = u.ready /\ job'.status.assigned = u.assigned
  <2> DEFINE v == [u EXCEPT !.obs = gen[d]]
  <2>1. /\ v \in StatusType /\ v.desired = u.desired /\ v.phase = u.phase
        /\ v.ready = u.ready /\ v.assigned = u.assigned
    BY <1>3 DEF StatusType
  <2>2. job' = [stage |-> IF op = "leave" THEN "status" ELSE "workload",
                d |-> d, op |-> op, n |-> n, ver |-> ver[d], gen |-> gen[d], status |-> v]
    BY <1>7 DEF Decide
  <2> HIDE DEF v
  <2>3. job' \in JobType
    BY <1>3, <2>1, <2>2 DEF JobType
  <2>. QED BY <2>1, <2>2, <2>3
<1>8. CASE ReconcileToZero(d, p)
  <2> DEFINE u == [p EXCEPT !.phase = "Cached", !.replicas = 0, !.ready = "IdleScaledToZero"]
  <2>1. u \in StatusType /\ u.phase = "Cached" /\ u.ready = "IdleScaledToZero" /\ u.desired = m
    <3>1. "Cached" \in Phases /\ "IdleScaledToZero" \in ReadyReasons /\ 0 \in Int
      BY SMTT(60) DEF Phases, ReadyReasons
    <3>. QED BY <1>5, <3>1 DEF StatusType
  <2>2. m = 0 /\ Decide(d, "ensure", 0, u)
    BY <1>5, <1>8 DEF ReconcileToZero
  <2> HIDE DEF u
  <2>3. /\ job' \in JobType /\ job'.d = d /\ job'.ver = ver[d] /\ job'.stage = "workload"
        /\ job'.op = "ensure" /\ job'.n = 0
        /\ job'.status.desired = u.desired /\ job'.status.phase = u.phase
        /\ job'.status.ready = u.ready
    BY <1>7, <2>1, <2>2
  <2>4. Outcome(job', d, m)
    BY <2>1, <2>2, <2>3 DEF Outcome
  <2>. QED BY <1>2, <2>1, <2>3, <2>4 DEF m
<1>9. CASE ReconcileNoCapacity(d, p)
  <2> DEFINE u == [p EXCEPT !.phase = "WaitingForGPU", !.assigned = FALSE,
                            !.replicas = Effective(d, p.desired), !.ready = "WaitingForGPU"]
  <2>1. u \in StatusType /\ u.phase = "WaitingForGPU" /\ u.ready = "WaitingForGPU"
        /\ u.desired = m
    <3>1. "WaitingForGPU" \in Phases /\ "WaitingForGPU" \in ReadyReasons
          /\ Effective(d, p.desired) \in Int
      BY <1>5, <1>6, SMTT(60) DEF Phases, ReadyReasons
    <3>. QED BY <1>5, <3>1 DEF StatusType
  <2>2. m > 0 /\ Reservation(d, m) > Available(d) /\ Decide(d, "delete", 0, u)
    BY <1>5, <1>9 DEF ReconcileNoCapacity
  <2> HIDE DEF u
  <2>3. /\ job' \in JobType /\ job'.d = d /\ job'.ver = ver[d] /\ job'.stage = "workload"
        /\ job'.op = "delete" /\ job'.n = 0
        /\ job'.status.desired = u.desired /\ job'.status.phase = u.phase
        /\ job'.status.ready = u.ready
    BY <1>7, <2>1, <2>2
  <2>4. Outcome(job', d, m)
    BY <2>1, <2>2, <2>3 DEF Outcome
  <2>. QED BY <1>2, <2>1, <2>3, <2>4 DEF m
<1>10. CASE ReconcileRolloutBlocked(d, p)
  <2> DEFINE u == Rollout([p EXCEPT !.assigned = TRUE, !.ready = "RolloutBlocked"],
                          gen[d], "Blocked")
  <2>1. u \in StatusType /\ u.phase = st[d].phase /\ u.ready = "RolloutBlocked" /\ u.assigned
        /\ u.desired = m
    BY <1>3, <1>5 DEF StatusType, RolloutReasons, ReadyReasons, Rollout
  <2>2. m > 0 /\ Reservation(d, m) <= Available(d) /\ Decide(d, "leave", 0, u)
        /\ RequiresSpare(d) /\ wl[d].replicas # 0
    BY <1>5, <1>10 DEF ReconcileRolloutBlocked, Reserved, NeedsSpare
  <2> HIDE DEF u
  <2>3. /\ job' \in JobType /\ job'.d = d /\ job'.ver = ver[d] /\ job'.stage = "status"
        /\ job'.op = "leave" /\ job'.n = 0
        /\ job'.status.desired = u.desired /\ job'.status.phase = u.phase
        /\ job'.status.ready = u.ready /\ job'.status.assigned = u.assigned
    BY <1>7, <2>1, <2>2
  <2>4. Outcome(job', d, m)
    BY <2>1, <2>2, <2>3 DEF Outcome
  <2>. QED BY <1>2, <2>1, <2>3, <2>4 DEF m
<1>11. CASE ReconcileRun(d, p)
  <2> DEFINE r == RolloutProgress(d, p)
             u == [r EXCEPT !.assigned = TRUE]
  <2>1. r \in StatusType /\ r.phase = st[d].phase /\ r.desired = m
    <3>1. r \in {p, Rollout(p, gen[d], "Complete"), Rollout(p, gen[d], "CapacityReserved")}
      BY DEF RolloutProgress
    <3> HIDE DEF r
    <3>. QED BY <1>3, <1>5, <3>1 DEF StatusType, RolloutReasons, Rollout
  <2> HIDE DEF r
  <2>2. u \in StatusType /\ u.phase = st[d].phase /\ u.assigned /\ u.desired = m
    BY <2>1 DEF StatusType
  <2>3. m > 0 /\ Reservation(d, m) <= Available(d) /\ Decide(d, "ensure", Effective(d, m), u)
        /\ ~(NeedsSpare(d, p) /\ RequiredSlots(d, m) > Available(d))
    BY <1>5, <1>11 DEF ReconcileRun, Reserved, r
  <2> HIDE DEF u
  <2>4. /\ job' \in JobType /\ job'.d = d /\ job'.ver = ver[d] /\ job'.stage = "workload"
        /\ job'.op = "ensure" /\ job'.n = Effective(d, m)
        /\ job'.status.desired = u.desired /\ job'.status.phase = u.phase
        /\ job'.status.assigned = u.assigned
    BY <1>6, <1>7, <2>2, <2>3
  <2>5. /\ RequiresSpare(d) /\ wl[d].exists /\ wl[d].ver # ver[d] /\ wl[d].replicas # 0
        /\ RequiredSlots(d, m) > Reservation(d, m)
        => RequiredSlots(d, m) <= Available(d)
    <3>1. RequiredSlots(d, m) \in Int /\ Available(d) \in Int
      <4>1. wl[d].replicas \in Nat /\ Policy[d].gpus \in Nat
            /\ Policy[d].strategy \in {"Recreate"} \cup Spare
        BY <1>3, PolicyType DEF WorkloadType, Types
      <4>2. Surge(d, Effective(d, m)) \in Nat
        BY <1>6, <4>1 DEF Surge, Spare
      <4>3. Policy[d].gpus * (wl[d].replicas + Surge(d, Effective(d, m))) \in Nat
            /\ Policy[d].gpus * Effective(d, m) \in Nat
        BY <1>6, <4>1, <4>2, SMTT(60)
      <4>4. RequiredSlots(d, m) \in Int
        BY <4>3, SMTT(60) DEF RequiredSlots, Reservation
      <4>. QED BY <4>4, HeldType
    <3>. QED BY <1>5, <2>3, <3>1, SMTT(60) DEF NeedsSpare, SpecEqual
  <2>6. Outcome(job', d, m)
    BY <2>2, <2>3, <2>4, <2>5 DEF Outcome
  <2>. QED BY <1>2, <2>2, <2>4, <2>6 DEF m
<1>. QED BY <1>1, <1>8, <1>9, <1>10, <1>11 DEF p

(* Reconcile.                                                               *)
LEMMA ReconcileInv ==
  ASSUME Inv, NEW d \in Deployments, Reconcile(d)
  PROVE  Inv'
<1>1. Types /\ Pods /\ Plans /\ Quiet /\ Woken /\ Floors /\ Booked
  BY DEF Inv
<1>2. /\ setup' = setup /\ gen' = gen /\ max' = max /\ ver' = ver /\ st' = st /\ wl' = wl
      /\ load' = load /\ busyFor' = busyFor /\ job = NoJob
  BY DEF Reconcile
<1>3. PICK s \in Samples(d), m \in Nat :
        /\ m = CapByGPUCapacity(d, Desired(d, s))
        /\ job' \in JobType /\ job'.d = d /\ job'.ver = ver[d] /\ job'.status.desired = m
        /\ Outcome(job', d, m)
  BY <1>1, Reconciled
<1>4. /\ m = 0 \/ m >= Base(d)
      /\ HoldAtZero(d) => m = 0
      /\ m = 0 /\ ~HoldAtZero(d) => s.ok /\ IdleTimedOut(d, s)
      /\ m > 0 /\ Policy[d].gpus * Base(d) <= Available(d) => Reservation(d, m) <= Available(d)
  BY <1>1, <1>3, PlanFacts
<1>5. /\ Policy' = Policy /\ Deployments' = Deployments /\ Capacity' = Capacity
      /\ Edits' = Edits /\ Replica' = Replica /\ (DemandOnly' <=> DemandOnly)
      /\ JobType' = JobType
      /\ (\A x : RequiresSpare(x)' = RequiresSpare(x))
      /\ (\A x : MaySleep(x)' = MaySleep(x))
      /\ (\A x, n : Surge(x, n)' = Surge(x, n))
  BY <1>2, SetupKept
<1>6. \A x : /\ Held(x)' = Held(x) /\ Available(x)' = Available(x)
             /\ WorkloadSlots(x)' = WorkloadSlots(x)
             /\ HoldAtZero(x)' = HoldAtZero(x) /\ Running(x)' = Running(x)
             /\ Base(x)' = Base(x)
             /\ \A n : Effective(x, n)' = Effective(x, n)
             /\ \A u : HeldAs(x, u)' = HeldAs(x, u)
  BY <1>2, StateKept
<1>7. job' # NoJob
  BY <1>3, JobIsNotNone
<1>8. Effective(d, m) \in Nat /\ Effective(d, m) >= 1 /\ Effective(d, m) <= EffectiveMax(d)
      /\ (m = 0 \/ m >= Base(d) => Effective(d, m) >= Base(d)) /\ Base(d) \in Nat /\ Base(d) >= 1
      /\ EffectiveMax(d) \in Nat /\ EffectiveMax(d) = (IF max[d] >= 1 THEN max[d] ELSE 1)
      /\ (Base(d) >= Policy[d].min \/ Base(d) = EffectiveMax(d))
  BY <1>1, RangeType, SMTT(60) DEF Types
<1>9. /\ Policy[d].min \in Nat /\ Policy[d].max \in Nat /\ Policy[d].max >= 1
      /\ Policy[d].gpus \in Nat /\ Policy[d].gpus >= 1 /\ Policy[d].idle \in Nat
      /\ max[d] \in Nat /\ max[d] >= 1 /\ max[d] <= Policy[d].max
  <2>1. max[d] \in Nat /\ setup \in Setups
    BY <1>1 DEF Types
  <2>2. max[d] >= 1 /\ max[d] <= Policy[d].max
    BY <1>1 DEF Pods
  <2>. QED BY <2>1, <2>2, PolicyType
<1>10. Types'
  BY <1>1, <1>2, <1>3, <1>5 DEF Types
<1>11. Pods'
  <2>1. job'.n <= Policy[d].max
    BY <1>3, <1>8, <1>9, SMTT(60) DEF Outcome
  <2>. QED BY <1>1, <1>2, <1>3, <1>5, <2>1 DEF Pods
<1>12. Plans'
  <2>1. \A x \in Deployments : HoldAtZero(x) => wl[x].replicas = 0
    BY <1>1 DEF Plans
  <2>2. m > 0 => ~HoldAtZero(d)
    BY <1>4, SMTT(60)
  <2>. QED BY <1>2, <1>3, <1>5, <1>6, <1>8, <2>1, <2>2, SMTT(60) DEF Plans, Outcome, Writing, Reserving
<1>13. Quiet'
  <2> SUFFICES ASSUME Writing("ensure")', job'.n = 0, Policy[d].max = 1, wl[d].replicas > 0
               PROVE  Policy[d].idle > 0 /\ \A i \in Replica : busyFor[d][i] = 0
    BY <1>2, <1>3, <1>5 DEF Quiet
  <2>1. m = 0
    BY <1>3, <1>8, SMTT(60) DEF Outcome, Writing
  <2>2. ~HoldAtZero(d)
    BY <1>1, SMTT(60) DEF Plans
  <2>3. s.ok /\ Idle(s) /\ Policy[d].idle > 0
    BY <1>4, <2>1, <2>2 DEF IdleTimedOut
  <2>4. PICK i \in Replica : i <= wl[d].up /\ load[d][i] = 0
    BY <1>1, <2>3, Sampled
  <2>5. wl[d].up \in Nat /\ wl[d].up <= 1
    <3>1. wl[d].up \in Nat /\ wl[d].replicas \in Nat
      BY <1>1 DEF Types, WorkloadType
    <3>2. wl[d].up <= wl[d].replicas /\ wl[d].replicas <= Policy[d].max
      BY <1>1 DEF Pods
    <3>. QED BY <3>1, <3>2, SMTT(60)
  <2>6. \A k \in Replica : k \in Nat /\ k >= 1
    <3>1. MaxReplicas \in Nat
      BY <1>1, ReplicaBound DEF Types
    <3>. QED BY <3>1, SMTT(60) DEF Replica
  <2>7. \A k \in Replica : k = i \/ k > wl[d].up
    BY <2>4, <2>5, <2>6, SMTT(60)
  <2>8. \A k \in Replica : load[d][k] = 0
    BY <1>1, <2>4, <2>7 DEF Pods
  <2>. QED BY <1>1, <2>3, <2>8 DEF Pods
<1>14. Woken'
  <2> SUFFICES ASSUME "Write" \notin setup.faults
               PROVE  /\ \A x \in Deployments :
                           /\ Running(x) /\ wl[x].replicas = 0
                           /\ ~(job'.stage = "status" /\ job'.d = x)
                           => MaySleep(x) /\ st[x].ready = "IdleScaledToZero"
                      /\ job'.stage = "status" /\ Running(d) /\ wl[d].replicas = 0
                         => MaySleep(d) /\ job'.status.ready = "IdleScaledToZero"
                      /\ Writing("ensure")' /\ job'.n = 0 =>
                           MaySleep(d) /\ job'.status.ready = "IdleScaledToZero"
                      /\ Writing("ensure")' /\ job'.n > 0 /\ Running(d) /\ wl[d].replicas = 0 =>
                           gen[d] > st[d].obs
    BY <1>2, <1>3, <1>5, <1>6, <1>7 DEF Woken
  <2>1. \A x \in Deployments :
          Running(x) /\ wl[x].replicas = 0 => MaySleep(x) /\ st[x].ready = "IdleScaledToZero"
    BY <1>1, <1>2 DEF Woken
  <2>2. job'.stage = "status" => wl[d].replicas # 0
    BY <1>3 DEF Outcome
  <2>3. ASSUME Writing("ensure")', job'.n = 0
        PROVE  MaySleep(d) /\ job'.status.ready = "IdleScaledToZero"
    <3>1. m = 0 /\ job'.status.ready = "IdleScaledToZero"
      BY <1>3, <1>8, <2>3, SMTT(60) DEF Outcome, Writing
    <3>. QED BY <1>4, <3>1 DEF MaySleep, HoldAtZero, IdleTimedOut
  <2>4. ASSUME Writing("ensure")', job'.n > 0, Running(d), wl[d].replicas = 0
        PROVE  gen[d] > st[d].obs
    <3>1. m > 0
      BY <1>3, <1>8, <2>4 DEF Outcome, Writing
    <3>2. ~HoldAtZero(d)
      BY <1>4, <3>1, SMTT(60)
    <3>3. gen[d] \in Nat /\ st[d].obs \in Nat
      BY <1>1 DEF Types, StatusType
    <3>. QED BY <2>1, <2>4, <3>2, <3>3, SMTT(60) DEF MaySleep, HoldAtZero
  <2>. QED BY <2>1, <2>2, <2>3, <2>4
<1>15. Floors'
  <2> SUFFICES ASSUME "max" \notin Edits
               PROVE  /\ job'.n \in {0, Policy[d].max} \/ Policy[d].min # Policy[d].max
                      /\ /\ Writing("ensure")' /\ job'.n > 0 /\ Policy[d].min = Policy[d].max
                         /\ RequiresSpare(d) /\ wl[d].replicas > 0 /\ wl[d].ver # job'.ver
                         => Policy[d].gpus * (job'.n + Surge(d, job'.n)) <= Available(d)
    BY <1>1, <1>2, <1>3, <1>4, <1>5, <1>6, <1>7 DEF Floors
  <2>1. max[d] = Policy[d].max /\ (Policy[d].min = Policy[d].max => wl[d].replicas \in {0, Policy[d].max})
    BY <1>1 DEF Floors
  <2>2. Policy[d].min = Policy[d].max => Effective(d, m) = Policy[d].max
    BY <1>4, <1>8, <1>9, <2>1, SMTT(60)
  <2>3. job'.n = 0 \/ job'.n = Effective(d, m)
    BY <1>3 DEF Outcome
  <2>4. ASSUME Writing("ensure")', job'.n > 0, Policy[d].min = Policy[d].max,
               RequiresSpare(d), wl[d].replicas > 0, wl[d].ver # job'.ver
        PROVE  Policy[d].gpus * (job'.n + Surge(d, job'.n)) <= Available(d)
    <3> DEFINE n == Effective(d, m)
               g == Policy[d].gpus
    <3>1. n \in Nat /\ n >= 1 /\ g \in Nat /\ g >= 1
      BY <1>8, <1>9
    <3>2. job'.n = n /\ wl[d].replicas = n
      BY <2>1, <2>2, <2>3, <2>4, SMTT(60)
    <3>3. wl[d].exists /\ wl[d].ver # ver[d] /\ wl[d].replicas # 0
      BY <1>1, <1>3, <2>4, SMTT(60) DEF Pods
    <3>4. RequiredSlots(d, m) > Reservation(d, m) => RequiredSlots(d, m) <= Available(d)
      BY <1>3, <2>4, <3>3, SMTT(60) DEF Outcome, Writing
    <3>5. RequiredSlots(d, m) = g * (n + Surge(d, n)) /\ Reservation(d, m) = g * n
      BY <3>2, <3>3 DEF RequiredSlots, Reservation
    <3>6. Surge(d, n) \in Nat /\ Surge(d, n) >= 1
      <4>1. Policy[d].strategy \in Spare
        BY <2>4 DEF RequiresSpare
      <4>. QED BY <3>1, <4>1, SMTT(60) DEF Surge, Spare
    <3> HIDE DEF n, g
    <3>7. g * (n + Surge(d, n)) > g * n
      <4> DEFINE e == Surge(d, n)
      <4>1. e \in Nat /\ e >= 1
        BY <3>6
      <4> HIDE DEF e
      <4>2. g * (n + e) = g * n + g * e /\ g * n \in Nat
        BY <3>1, <4>1, SMTT(60)
      <4>3. g * 1 <= g * e /\ g * e \in Int
        BY <3>1, <4>1, TimesGrows, SMTT(60)
      <4>. QED BY <3>1, <4>2, <4>3, SMTT(60) DEF e
    <3>. QED BY <3>2, <3>4, <3>5, <3>7 DEF g
  <2>. QED BY <2>2, <2>3, <2>4
<1>16. Booked'
  <2> SUFFICES ASSUME DemandOnly
               PROVE  /\ \A x \in Deployments :
                           ~wl[x].rolling /\ (st[x].phase \in Reserving => st[x].assigned)
                      /\ job'.status.phase \in Reserving => job'.status.assigned
                      /\ \A x \in Deployments \ {d} : WorkloadSlots(x) <= Held(x)
                      /\ WorkloadSlots(d) <= Available(d)
                      /\ Writing("ensure")' /\ job'.n > 0 =>
                           /\ job'.n = Effective(d, job'.status.desired)
                           /\ Policy[d].gpus * job'.n <= Available(d)
                      /\ Writing("delete")' => st[d].phase \notin Reserving
                      /\ job'.stage # "status"
    BY <1>2, <1>3, <1>5, <1>6, <1>7 DEF Booked, Reserving
  <2>1. /\ \A x \in Deployments :
             ~wl[x].rolling /\ (st[x].phase \in Reserving => st[x].assigned)
        /\ \A x \in Deployments : WorkloadSlots(x) <= Held(x) /\ Held(x) <= Available(x)
    BY <1>1, <1>2 DEF Booked
  <2>2. WorkloadSlots(d) \in Nat /\ Held(d) \in Nat /\ Available(d) \in Int
    BY <1>1, HeldType
  <2>3. ~RequiresSpare(d) /\ "max" \notin Edits
    BY DEF DemandOnly
  <2>4. WorkloadSlots(d) <= Available(d)
    BY <2>1, <2>2, SMTT(60)
  <2>5. job'.stage # "status"
    BY <1>3, <2>3 DEF Outcome
  <2>6. job'.status.phase \in Reserving => job'.status.assigned
    BY <1>3 DEF Outcome, Reserving
  <2>7. ASSUME Writing("ensure")', job'.n > 0
        PROVE  /\ job'.n = Effective(d, job'.status.desired)
               /\ Policy[d].gpus * job'.n <= Available(d)
    BY <1>3, <2>7, SMTT(60) DEF Outcome, Writing, Reservation
  <2>8. ASSUME Writing("delete")', st[d].phase \in Reserving
        PROVE  FALSE
    <3> DEFINE k == Effective(d, st[d].desired)
               g == Policy[d].gpus
    <3>1. m > 0 /\ Reservation(d, m) > Available(d)
      BY <1>3, <2>8 DEF Outcome, Writing
    <3>2. st[d].desired \in Int /\ (st[d].desired = 0 \/ st[d].desired >= Base(d))
      <4>1. st[d].desired \in Int
        BY <1>1 DEF Types, StatusType
      <4>. QED BY <1>1, <2>3, <4>1 DEF Floors
    <3>3. k \in Nat /\ k >= Base(d)
      BY <1>1, <3>2, RangeType DEF Types
    <3>4. Held(d) = g * (k + 0)
      BY <2>1, <2>3, <2>8 DEF Held, ReservedByStatus, ReservedSlots, SurgeActive, Reserving
    <3> HIDE DEF k, g
    <3>5. g \in Nat
      BY <1>9 DEF g
    <3>6. g * Base(d) <= g * k /\ g * Base(d) \in Int /\ g * k \in Int
      BY <1>8, <3>3, <3>5, TimesGrows, SMTT(60)
    <3>7. g * Base(d) <= Available(d)
      <4>1. k + 0 = k
        BY <3>3, SMTT(60)
      <4>. QED BY <2>1, <2>2, <3>4, <3>6, <4>1, SMTT(60)
    <3>8. Reservation(d, m) <= Available(d)
      BY <1>4, <3>1, <3>7 DEF g
    <3>9. Reservation(d, m) \in Int
      BY <1>8, <1>9, SMTT(60) DEF Reservation
    <3>. QED BY <2>2, <3>1, <3>8, <3>9, SMTT(60)
  <2>. QED BY <2>1, <2>4, <2>5, <2>6, <2>7, <2>8
<1>. QED BY <1>10, <1>11, <1>12, <1>13, <1>14, <1>15, <1>16 DEF Inv

-----------------------------------------------------------------------------
(* OneForAll, for the next state.                                           *)
OneFits == \E x \in Deployments : Held(x) <= Available(x)
AllOfThemFit == \A x \in Deployments : Held(x) <= Available(x)

LEMMA OneFitsAllFit == Types /\ OneFits => AllOfThemFit
BY OneForAll DEF OneFits, AllOfThemFit

LEMMA OneFitsAllFitNext == Types' /\ OneFits' => AllOfThemFit'
BY OneFitsAllFit, PTL

LEMMA WriteStatusInv ==
  ASSUME Inv, WriteStatus
  PROVE  Inv'
<1>1. Types /\ Pods /\ Plans /\ Quiet /\ Woken /\ Floors /\ Booked
  BY DEF Inv
<1>2. /\ setup' = setup /\ gen' = gen /\ max' = max /\ ver' = ver /\ wl' = wl /\ load' = load
      /\ busyFor' = busyFor /\ job.stage = "status" /\ job' = NoJob
  BY DEF WriteStatus
<1>3. job \in JobType /\ job # NoJob
  BY <1>1, <1>2, SMTT(60) DEF Types, NoJob
<1>4. PICK d \in Deployments : d = job.d
  BY <1>3 DEF JobType
<1>5. PICK s \in StatusType : s = job.status
  BY <1>3 DEF JobType
<1>6. st' = [st EXCEPT ![d] = s]
  BY <1>4, <1>5 DEF WriteStatus
<1>7. st'[d] = s /\ \A x \in Deployments \ {d} : st'[x] = st[x]
  BY <1>1, <1>6 DEF Types
<1>8. /\ Policy' = Policy /\ Deployments' = Deployments /\ Capacity' = Capacity
      /\ Edits' = Edits /\ Replica' = Replica /\ (DemandOnly' <=> DemandOnly)
      /\ (\A x : MaySleep(x)' = MaySleep(x))
      /\ (\A x : RequiresSpare(x)' = RequiresSpare(x))
  BY <1>2, SetupKept
<1>9. Types'
  <2>1. st' \in [Deployments -> StatusType]
    BY <1>1, <1>6 DEF Types
  <2>. QED BY <1>1, <1>2, <1>8, <2>1 DEF Types
<1>10. Pods'
  BY <1>1, <1>2, <1>8 DEF Pods
<1>11. Plans' /\ Quiet'
  <2>1. s.ready = "IdleScaledToZero" => wl[d].replicas = 0
    BY <1>1, <1>2, <1>3, <1>4, <1>5 DEF Plans
  <2>2. \A x \in Deployments \ {d} : HoldAtZero(x)' => wl[x].replicas = 0
    BY <1>1, <1>2, <1>7, <1>8 DEF Plans, HoldAtZero
  <2>3. HoldAtZero(d)' => wl[d].replicas = 0
    BY <1>7, <2>1 DEF HoldAtZero
  <2>. QED BY <1>2, <1>8, <2>2, <2>3 DEF Plans, Quiet, Writing
<1>12. Woken'
  <2> SUFFICES ASSUME "Write" \notin setup.faults, NEW x \in Deployments,
                      Running(x), wl[x].replicas = 0
               PROVE  MaySleep(x) /\ st'[x].ready = "IdleScaledToZero"
    BY <1>2, <1>8 DEF Woken, Writing, Running
  <2>1. CASE x = d
    BY <1>1, <1>2, <1>3, <1>4, <1>5, <1>7, <2>1 DEF Woken
  <2>2. CASE x # d
    BY <1>1, <1>4, <1>7, <2>2 DEF Woken
  <2>. QED BY <2>1, <2>2
<1>13. \A x : Base(x)' = Base(x) /\ \A n : Effective(x, n)' = Effective(x, n)
  BY <1>2, MaxKept
<1>14. Floors'
  <2>1. "max" \notin Edits =>
          \A x \in Deployments : st'[x].desired = 0 \/ st'[x].desired >= Base(x)
    BY <1>1, <1>3, <1>4, <1>5, <1>7 DEF Floors
  <2>. QED BY <1>1, <1>2, <1>8, <1>13, <2>1 DEF Floors, Writing
<1>15. \A x : WorkloadSlots(x)' = WorkloadSlots(x)
  BY <1>2, <1>8 DEF WorkloadSlots
<1>16. \A x \in Deployments \ {d} : Held(x)' = Held(x)
  <2> SUFFICES ASSUME NEW x \in Deployments \ {d} PROVE Held(x)' = Held(x)
    OBVIOUS
  <2>1. wl'[x].replicas <= wl[x].replicas /\ gen'[x] >= gen[x]
    <3>1. wl[x].replicas \in Nat /\ gen[x] \in Nat
      BY <1>1 DEF Types, WorkloadType
    <3>. QED BY <1>2, <3>1, SMTT(60)
  <2>. QED BY <1>1, <1>2, <1>7, <1>9, <2>1, HeldShrinks
<1>17. Available(d)' = Available(d)
  <2> DEFINE h == [x \in Deployments |-> Held(x)]
             k == [x \in Deployments |-> Held(x)']
             D == Deployments \ {d}
  <2>1. IsFiniteSet(D) /\ \A x \in D : h[x] \in Int /\ k[x] = h[x]
    <3>1. IsFiniteSet(Deployments)
      BY <1>1, PolicyType DEF Types
    <3>2. \A x \in Deployments : Held(x) \in Nat
      BY <1>1, HeldType
    <3>. QED BY <1>16, <3>1, <3>2, FS_Subset, SMTT(60)
  <2> HIDE DEF D, h, k
  <2>2. SumFunctionOnSet(h, D) = SumFunctionOnSet(k, D)
    BY <2>1, SumSame
  <2>. QED BY <1>8, <2>2 DEF Available, Allocated, h, k, D
<1>18. Booked'
  <2> SUFFICES ASSUME DemandOnly PROVE Booked'
    BY <1>8 DEF Booked
  <2>1. Held(d)' = HeldAs(d, s)
    <3>1. s.desired \in Int
      BY DEF StatusType
    <3>2. Effective(d, s.desired) \in Nat
      BY <1>1, <3>1, RangeType DEF Types
    <3>3. ~SurgeActive(d)'
      BY <1>8 DEF SurgeActive, DemandOnly
    <3>4. ReservedSlots(d)' = Policy[d].gpus * (Effective(d, s.desired) + 0)
      BY <1>7, <1>8, <1>13, <3>3 DEF ReservedSlots
    <3>5. ReservedSlots(d)' = Policy[d].gpus * Effective(d, s.desired)
      BY <3>2, <3>4, SMTT(60)
    <3>. QED BY <1>7, <1>15, <3>5 DEF Held, ReservedByStatus, HeldAs, Reserving
  <2>2. HeldAs(d, s) <= Available(d) /\ WorkloadSlots(d) <= HeldAs(d, s)
    BY <1>1, <1>2, <1>3, <1>4, <1>5 DEF Booked
  <2>3. OneFits'
    BY <1>8, <1>17, <2>1, <2>2 DEF OneFits
  <2>4. \A x \in Deployments : Held(x)' <= Available(x)'
    BY <1>8, <1>9, <2>3, OneFitsAllFitNext DEF AllOfThemFit
  <2>5. \A x \in Deployments : WorkloadSlots(x)' <= Held(x)'
    <3>1. \A x \in Deployments \ {d} : WorkloadSlots(x) <= Held(x)
      BY <1>1, <1>3, <1>4 DEF Booked
    <3>. QED BY <1>15, <1>16, <2>1, <2>2, <3>1
  <2>6. \A x \in Deployments : ~wl[x].rolling /\ (st'[x].phase \in Reserving => st'[x].assigned)
    BY <1>1, <1>3, <1>4, <1>5, <1>7 DEF Booked
  <2>. QED BY <1>2, <1>8, <2>4, <2>5, <2>6 DEF Booked, Writing, Reserving
<1>. QED BY <1>9, <1>10, <1>11, <1>12, <1>14, <1>18 DEF Inv

(* The runtime Deployment after a write of n replicas of template v.        *)
LEMMA Ensured ==
  ASSUME Types, Pods, NEW d \in Deployments, NEW n \in Nat, NEW v \in Nat,
         NEW w, w = EnsureRuntimeDeployment(d, n, v)
  PROVE  /\ w \in WorkloadType /\ w.exists /\ w.replicas = n /\ w.ver = v
         /\ w.up <= n /\ w.up <= wl[d].up
         /\ w.deleting => wl[d].deleting
         /\ w.rolling => \/ wl[d].rolling
                         \/ n > 0 /\ RequiresSpare(d) /\ wl[d].exists /\ wl[d].ver # v /\ wl[d].up > 0
<1> DEFINE u == wl[d]
           replaced == u.ver # v
<1>1. u \in WorkloadType /\ u.up <= u.replicas
  BY DEF Types, Pods
<1>2. u.up \in Nat /\ u.replicas \in Nat
  BY <1>1 DEF WorkloadType
<1> HIDE DEF u
<1>3. CASE ~u.exists
  <2>1. w = [NoWorkload EXCEPT !.exists = TRUE, !.replicas = n, !.ver = v]
    BY <1>3 DEF EnsureRuntimeDeployment, u
  <2>2. w \in WorkloadType /\ w.exists /\ w.replicas = n /\ w.ver = v /\ w.up = 0
        /\ w.rolling = FALSE /\ w.deleting = FALSE
    <3>1. 0 \in Nat
      OBVIOUS
    <3>. QED BY <2>1, <3>1 DEF NoWorkload, WorkloadType
  <2>. QED BY <1>2, <2>2, SMTT(60) DEF u
<1>4. CASE u.exists /\ u.replicas = n /\ ~replaced
  <2>1. w = u
    BY <1>4 DEF EnsureRuntimeDeployment, u
  <2>. QED BY <1>1, <1>2, <1>4, <2>1, SMTT(60) DEF u
<1>5. CASE u.exists /\ ~(u.replicas = n /\ ~replaced)
  <2> DEFINE up == IF replaced /\ ~RequiresSpare(d) THEN 0 ELSE Min({u.up, n})
             rolling == n > 0 /\ (u.rolling \/ (replaced /\ RequiresSpare(d) /\ u.up > 0))
  <2>1. w = [u EXCEPT !.replicas = n, !.ver = v, !.observed = FALSE, !.up = up,
                      !.rolling = rolling]
    <3> DEFINE New == [NoWorkload EXCEPT !.exists = TRUE, !.replicas = n, !.ver = v]
               Same == u.exists /\ u.replicas = n /\ ~replaced
               c == [u EXCEPT !.replicas = n, !.ver = v, !.observed = FALSE, !.up = up,
                              !.rolling = rolling]
    <3>1. w = CASE ~u.exists -> New [] Same -> u [] OTHER -> c
      BY DEF EnsureRuntimeDeployment, u
    <3> HIDE DEF New, c
    <3>2. w = c
      BY <1>5, <3>1
    <3>. QED BY <3>2 DEF c
  <2>2. up \in Nat /\ up <= n /\ up <= u.up
    <3>1. Min({u.up, n}) = IF u.up <= n THEN u.up ELSE n
      BY <1>2, MinOfTwo, SMTT(60)
    <3>. QED BY <1>2, <3>1, SMTT(60)
  <2>3. rolling \in BOOLEAN
    OBVIOUS
  <2>4. rolling => \/ u.rolling
                   \/ n > 0 /\ RequiresSpare(d) /\ u.exists /\ u.ver # v /\ u.up > 0
    BY <1>5
  <2> HIDE DEF up, rolling
  <2>5. w \in WorkloadType /\ w.exists = u.exists /\ w.replicas = n /\ w.ver = v /\ w.up = up
        /\ w.rolling = rolling /\ w.deleting = u.deleting
    BY <1>1, <2>1, <2>2, <2>3 DEF WorkloadType
  <2>. QED BY <1>5, <2>2, <2>4, <2>5 DEF u
<1>. QED BY <1>3, <1>4, <1>5

(* The two writes of a runtime Deployment.                                  *)
LEMMA Written ==
  ASSUME Types, Pods, Plans, WriteWorkload, NEW d \in Deployments, d = job.d
  PROVE  \E w \in WorkloadType :
           /\ wl' = [wl EXCEPT ![d] = w] /\ SettlePods(d, w)
           /\ w.up <= w.replicas /\ w.up <= wl[d].up /\ (w.deleting => w.up = 0)
           /\ ~w.exists => w.replicas = 0
           /\ \/ /\ Writing("ensure") /\ w.exists /\ w.replicas = job.n /\ w.ver = job.ver
                 /\ w.deleting => wl[d].deleting
                 /\ w.rolling => \/ wl[d].rolling
                                 \/ /\ job.n > 0 /\ RequiresSpare(d) /\ wl[d].exists
                                    /\ wl[d].ver # job.ver /\ wl[d].up > 0
              \/ /\ Writing("delete") /\ job.n = 0 /\ w.replicas = wl[d].replicas
                 /\ ~w.rolling /\ (w.exists => w.deleting)
           /\ job' \in JobType /\ job'.d = d /\ job'.n = job.n /\ job'.stage = "status"
           /\ job'.status.desired = job.status.desired
           /\ job'.status.assigned = job.status.assigned
           /\ job.n = 0 => job'.status = job.status
           /\ job.n > 0 => job'.status.phase \in Reserving /\ job'.status.ready # "IdleScaledToZero"
<1>1. job \in JobType /\ job # NoJob /\ job.stage = "workload"
  BY SMTT(60) DEF WriteWorkload, Types, NoJob
<1>2. /\ job.op \in {"ensure", "delete", "leave"} /\ job.n \in Nat /\ job.ver \in Nat
      /\ job.gen \in Nat /\ job.status \in StatusType
  BY <1>1 DEF JobType
<1>3. Writing("ensure") \/ Writing("delete")
  BY <1>1, <1>2 DEF Plans, Writing
<1> DEFINE w == IF job.op = "delete" THEN DeleteRuntimeWorkload(d)
                                     ELSE EnsureRuntimeDeployment(d, job.n, job.ver)
           s == IF job.n > 0 THEN Project(w) ELSE job.status
<1>4. /\ wl' = [wl EXCEPT ![d] = w] /\ SettlePods(d, w)
      /\ job' = [job EXCEPT !.stage = "status", !.status = s]
  BY DEF WriteWorkload
<1>5. /\ wl[d] \in WorkloadType /\ wl[d].up <= wl[d].replicas /\ (wl[d].deleting => wl[d].up = 0)
      /\ (~wl[d].exists => wl[d].replicas = 0) /\ wl[d].up \in Nat /\ wl[d].replicas \in Nat
  BY DEF Types, Pods, WorkloadType
<1>6. /\ w \in WorkloadType /\ w.up <= w.replicas /\ w.up <= wl[d].up /\ (w.deleting => w.up = 0)
      /\ ~w.exists => w.replicas = 0
      /\ \/ /\ Writing("ensure") /\ w.exists /\ w.replicas = job.n /\ w.ver = job.ver
            /\ w.deleting => wl[d].deleting
            /\ w.rolling => \/ wl[d].rolling
                            \/ /\ job.n > 0 /\ RequiresSpare(d) /\ wl[d].exists
                               /\ wl[d].ver # job.ver /\ wl[d].up > 0
         \/ /\ Writing("delete") /\ job.n = 0 /\ w.replicas = wl[d].replicas
            /\ ~w.rolling /\ (w.exists => w.deleting)
  <2>1. CASE Writing("ensure")
    <3>1. w = EnsureRuntimeDeployment(d, job.n, job.ver)
      BY <2>1 DEF Writing
    <3> HIDE DEF w
    <3>2. /\ w \in WorkloadType /\ w.exists /\ w.replicas = job.n /\ w.ver = job.ver
          /\ w.up <= job.n /\ w.up <= wl[d].up
          /\ w.deleting => wl[d].deleting
          /\ w.rolling => \/ wl[d].rolling
                          \/ /\ job.n > 0 /\ RequiresSpare(d) /\ wl[d].exists
                             /\ wl[d].ver # job.ver /\ wl[d].up > 0
      BY <1>2, <3>1, Ensured, SMTT(60)
    <3>3. w.up \in Nat
      BY <3>2 DEF WorkloadType
    <3>. QED BY <1>5, <2>1, <3>2, <3>3, SMTT(60)
  <2>2. CASE Writing("delete")
    <3>1. w = DeleteRuntimeWorkload(d) /\ job.n = 0
      BY <2>2 DEF Writing, Plans
    <3>2. CASE wl[d].exists
      <4>1. w = [wl[d] EXCEPT !.deleting = TRUE, !.up = 0, !.rolling = FALSE]
        BY <3>1, <3>2 DEF DeleteRuntimeWorkload
      <4> HIDE DEF w
      <4>2. w \in WorkloadType /\ w.up = 0 /\ w.replicas = wl[d].replicas /\ w.rolling = FALSE
            /\ w.deleting = TRUE /\ w.exists = wl[d].exists
        <5>1. 0 \in Nat
          OBVIOUS
        <5>. QED BY <1>5, <4>1, <5>1 DEF WorkloadType
      <4>. QED BY <1>5, <2>2, <3>1, <3>2, <4>2, SMTT(60)
    <3>3. CASE ~wl[d].exists
      <4>1. w = NoWorkload
        BY <3>1, <3>3 DEF DeleteRuntimeWorkload
      <4> HIDE DEF w
      <4>2. w \in WorkloadType /\ w.up = 0 /\ w.replicas = 0 /\ w.rolling = FALSE
            /\ w.deleting = FALSE /\ w.exists = FALSE
        <5>1. 0 \in Nat
          OBVIOUS
        <5>. QED BY <4>1, <5>1 DEF NoWorkload, WorkloadType
      <4>. QED BY <1>5, <2>2, <3>1, <3>3, <4>2, SMTT(60)
    <3>. QED BY <3>2, <3>3
  <2>. QED BY <1>3, <2>1, <2>2
<1> HIDE DEF w
<1>7. /\ s \in StatusType /\ s.desired = job.status.desired /\ s.assigned = job.status.assigned
      /\ job.n = 0 => s = job.status
      /\ job.n > 0 => s.phase \in Reserving /\ s.ready # "IdleScaledToZero"
  <2>1. CASE ~(job.n > 0)
    BY <1>2, <2>1
  <2>2. CASE job.n > 0
    <3> DEFINE r == [job.status EXCEPT !.replicas = w.replicas]
               active == [r EXCEPT !.phase = "Active", !.ready = "RuntimeReady"]
               creating == [r EXCEPT !.phase = "Activating", !.ready = "RuntimeCreating"]
               complete == Rollout(active, job.gen, "Complete")
    <3>1. s \in {creating, active, complete}
      BY <2>2 DEF Project
    <3>2. r \in StatusType /\ r.desired = job.status.desired /\ r.assigned = job.status.assigned
      <4>1. w.replicas \in Int
        BY <1>6, SMTT(60) DEF WorkloadType
      <4>. QED BY <1>2, <4>1 DEF StatusType
    <3> HIDE DEF r
    <3>3. /\ "Active" \in Phases /\ "Activating" \in Phases /\ "RuntimeReady" \in ReadyReasons
          /\ "RuntimeCreating" \in ReadyReasons /\ "Complete" \in RolloutReasons
      BY DEF Phases, ReadyReasons, RolloutReasons
    <3>4. /\ active \in StatusType /\ active.desired = r.desired /\ active.assigned = r.assigned
          /\ active.phase = "Active" /\ active.ready = "RuntimeReady"
      BY <3>2, <3>3 DEF StatusType
    <3>5. /\ creating \in StatusType /\ creating.desired = r.desired
          /\ creating.assigned = r.assigned
          /\ creating.phase = "Activating" /\ creating.ready = "RuntimeCreating"
      BY <3>2, <3>3 DEF StatusType
    <3> HIDE DEF active, creating
    <3>6. /\ complete \in StatusType /\ complete.desired = active.desired
          /\ complete.assigned = active.assigned
          /\ complete.phase = active.phase /\ complete.ready = active.ready
      BY <1>2, <3>3, <3>4 DEF StatusType, Rollout
    <3> HIDE DEF complete, s
    <3>. QED BY <2>2, <3>1, <3>2, <3>4, <3>5, <3>6, SMTT(60) DEF Reserving
  <2>. QED BY <2>1, <2>2
<1> HIDE DEF s
<1>8. job' \in JobType /\ job'.d = job.d /\ job'.n = job.n /\ job'.stage = "status" /\ job'.status = s
  <2>1. "status" \in {"workload", "status"}
    OBVIOUS
  <2>. QED BY <1>1, <1>4, <1>7, <2>1 DEF JobType
<1>. QED BY <1>4, <1>6, <1>7, <1>8

LEMMA WriteWorkloadInv ==
  ASSUME Inv, WriteWorkload
  PROVE  Inv'
<1>1. Types /\ Pods /\ Plans /\ Quiet /\ Woken /\ Floors /\ Booked
  BY DEF Inv
<1>2. /\ setup' = setup /\ gen' = gen /\ max' = max /\ ver' = ver /\ st' = st
      /\ job.stage = "workload"
  BY DEF WriteWorkload
<1>3. job \in JobType /\ job # NoJob
  BY <1>1, <1>2, SMTT(60) DEF Types, NoJob
<1>4. PICK d \in Deployments : d = job.d
  BY <1>3 DEF JobType
<1>5. PICK w \in WorkloadType :
        /\ wl' = [wl EXCEPT ![d] = w] /\ SettlePods(d, w)
        /\ w.up <= w.replicas /\ w.up <= wl[d].up /\ (w.deleting => w.up = 0)
        /\ ~w.exists => w.replicas = 0
        /\ \/ /\ Writing("ensure") /\ w.exists /\ w.replicas = job.n /\ w.ver = job.ver
              /\ w.deleting => wl[d].deleting
              /\ w.rolling => \/ wl[d].rolling
                              \/ /\ job.n > 0 /\ RequiresSpare(d) /\ wl[d].exists
                                 /\ wl[d].ver # job.ver /\ wl[d].up > 0
           \/ /\ Writing("delete") /\ job.n = 0 /\ w.replicas = wl[d].replicas
              /\ ~w.rolling /\ (w.exists => w.deleting)
        /\ job' \in JobType /\ job'.d = d /\ job'.n = job.n /\ job'.stage = "status"
        /\ job'.status.desired = job.status.desired
        /\ job'.status.assigned = job.status.assigned
        /\ job.n = 0 => job'.status = job.status
        /\ job.n > 0 => job'.status.phase \in Reserving /\ job'.status.ready # "IdleScaledToZero"
  BY <1>1, <1>4, Written
<1>6. /\ Policy' = Policy /\ Deployments' = Deployments /\ Capacity' = Capacity
      /\ Edits' = Edits /\ Replica' = Replica /\ (DemandOnly' <=> DemandOnly)
      /\ JobType' = JobType
      /\ (\A x : RequiresSpare(x)' = RequiresSpare(x))
      /\ (\A x : MaySleep(x)' = MaySleep(x))
  BY <1>2, SetupKept
<1>7. \A x : /\ ReservedByStatus(x)' = ReservedByStatus(x)
             /\ ReservedSlots(x)' = ReservedSlots(x)
             /\ HoldAtZero(x)' = HoldAtZero(x)
             /\ Base(x)' = Base(x)
             /\ \A n : Effective(x, n)' = Effective(x, n)
  BY <1>2, StatusKept
<1>8. wl'[d] = w /\ \A x \in Deployments \ {d} : wl'[x] = wl[x]
  BY <1>1, <1>5 DEF Types
<1>9. w.replicas \in Nat /\ w.up \in Nat /\ job.n \in Nat
  BY <1>3 DEF WorkloadType, JobType
<1>10. \A x \in Deployments : wl[x].replicas \in Nat /\ wl[x].up \in Nat
  BY <1>1 DEF Types, WorkloadType
<1>11. job' # NoJob /\ \A op : ~Writing(op)'
  BY <1>5, JobIsNotNone, <1>6 DEF Writing
<1>12. /\ load' = [load EXCEPT ![d] = [i \in Replica |-> IF i <= w.up THEN load[d][i] ELSE 0]]
       /\ busyFor' = [busyFor EXCEPT
            ![d] = [i \in Replica |-> IF i <= w.up THEN busyFor[d][i] ELSE 0]]
  BY <1>1, <1>5 DEF SettlePods, Types
<1>13. load \in [Deployments -> [Replica -> Nat]] /\ busyFor \in [Deployments -> [Replica -> Nat]]
  BY <1>1 DEF Types
<1>14. Types'
  <2>1. wl' \in [Deployments -> WorkloadType]
    BY <1>1, <1>5 DEF Types
  <2>2. load' \in [Deployments -> [Replica -> Nat]] /\ busyFor' \in [Deployments -> [Replica -> Nat]]
    BY <1>12, <1>13
  <2>. QED BY <1>1, <1>2, <1>5, <1>6, <2>1, <2>2 DEF Types
<1>15. Pods'
  <2>1. ASSUME NEW x \in Deployments, NEW i \in Replica
        PROVE  /\ i > wl'[x].up => load'[x][i] = 0
               /\ load'[x][i] = 0 => busyFor'[x][i] = 0
    <3>1. i \in Int
      <4>1. MaxReplicas \in Nat
        BY <1>1, ReplicaBound DEF Types
      <4>. QED BY <4>1, SMTT(60) DEF Replica
    <3>2. /\ i > wl[x].up => load[x][i] = 0
          /\ load[x][i] = 0 => busyFor[x][i] = 0
      BY <1>1 DEF Pods
    <3>3. CASE x = d
      <4>1. /\ load'[d][i] = IF i <= w.up THEN load[d][i] ELSE 0
            /\ busyFor'[d][i] = IF i <= w.up THEN busyFor[d][i] ELSE 0
        BY <1>12, <1>13
      <4>. QED BY <1>8, <1>9, <3>1, <3>2, <3>3, <4>1, SMTT(60)
    <3>4. CASE x # d
      <4>1. load'[x][i] = load[x][i] /\ busyFor'[x][i] = busyFor[x][i]
        BY <1>12, <1>13, <3>4
      <4>. QED BY <1>8, <3>2, <3>4, <4>1
    <3>. QED BY <3>3, <3>4
  <2>2. ASSUME NEW x \in Deployments
        PROVE  /\ max[x] >= 1 /\ max[x] <= Policy[x].max
               /\ wl'[x].up <= wl'[x].replicas /\ wl'[x].replicas <= Policy[x].max
               /\ wl'[x].deleting => wl'[x].up = 0
               /\ ~wl'[x].exists => wl'[x].replicas = 0
    <3>1. /\ max[x] >= 1 /\ max[x] <= Policy[x].max
          /\ wl[x].up <= wl[x].replicas /\ wl[x].replicas <= Policy[x].max
          /\ wl[x].deleting => wl[x].up = 0
          /\ ~wl[x].exists => wl[x].replicas = 0
      BY <1>1 DEF Pods
    <3>2. job.n <= Policy[d].max
      BY <1>1, <1>3, <1>4 DEF Pods
    <3>3. CASE x = d
      BY <1>5, <1>8, <3>1, <3>2, <3>3
    <3>4. CASE x # d
      BY <1>8, <3>1, <3>4
    <3>. QED BY <3>3, <3>4
  <2>3. job'.n <= Policy[d].max
    BY <1>1, <1>3, <1>4, <1>5 DEF Pods
  <2>. QED BY <1>2, <1>5, <1>6, <2>1, <2>2, <2>3 DEF Pods
<1>16. Plans'
  <2>1. \A x \in Deployments \ {d} : HoldAtZero(x) => wl'[x].replicas = 0
    BY <1>1, <1>8 DEF Plans
  <2>2. HoldAtZero(d) => w.replicas = 0
    BY <1>1, <1>4, <1>5, <1>9, SMTT(60) DEF Plans
  <2>3. job'.status.ready = "IdleScaledToZero" => w.replicas = 0
    BY <1>1, <1>5, <1>9, SMTT(60) DEF Plans
  <2>. QED BY <1>5, <1>6, <1>7, <1>8, <1>11, <2>1, <2>2, <2>3 DEF Plans
<1>17. Quiet'
  BY <1>11 DEF Quiet
<1>18. Woken'
  <2> SUFFICES ASSUME "Write" \notin setup.faults
               PROVE  /\ \A x \in Deployments \ {d} : Running(x)' /\ wl'[x].replicas = 0 =>
                           MaySleep(x) /\ st[x].ready = "IdleScaledToZero"
                      /\ Running(d)' /\ w.replicas = 0 =>
                           MaySleep(d) /\ job'.status.ready = "IdleScaledToZero"
    BY <1>2, <1>5, <1>6, <1>8, <1>11 DEF Woken
  <2>1. \A x \in Deployments \ {d} : Running(x)' /\ wl'[x].replicas = 0 =>
           MaySleep(x) /\ st[x].ready = "IdleScaledToZero"
    BY <1>1, <1>4, <1>8 DEF Woken, Running
  <2>2. ASSUME Running(d)', w.replicas = 0
        PROVE  MaySleep(d) /\ job'.status.ready = "IdleScaledToZero"
    <3>1. Writing("ensure") /\ job.n = 0
      BY <1>5, <1>8, <2>2 DEF Running
    <3>. QED BY <1>1, <1>4, <1>5, <3>1 DEF Woken
  <2>. QED BY <2>1, <2>2
<1>19. Floors'
  <2> SUFFICES ASSUME "max" \notin Edits PROVE Floors'
    BY <1>6 DEF Floors
  <2>1. /\ \A x \in Deployments : max[x] = Policy[x].max
        /\ \A x \in Deployments : st[x].desired = 0 \/ st[x].desired >= Base(x)
        /\ job.status.desired = 0 \/ job.status.desired >= Base(d)
    BY <1>1, <1>3, <1>4 DEF Floors
  <2>2. /\ \A x \in Deployments : Policy[x].min = Policy[x].max =>
             wl[x].replicas \in {0, Policy[x].max}
        /\ Policy[d].min = Policy[d].max => job.n \in {0, Policy[d].max}
    BY <1>1, <1>3, <1>4 DEF Floors
  <2>3. Policy[d].min = Policy[d].max => w.replicas \in {0, Policy[d].max}
    BY <1>5, <2>2
  <2>4. \A x \in Deployments : Policy[x].min = Policy[x].max =>
          wl'[x].replicas \in {0, Policy[x].max}
    BY <1>8, <2>2, <2>3
  <2>5. job'.status.desired = job.status.desired /\ job'.d = d /\ job'.n = job.n
    BY <1>5
  <2>. QED BY <1>2, <1>6, <1>7, <1>11, <2>1, <2>2, <2>4, <2>5 DEF Floors
<1>20. \A x \in Deployments \ {d} : WorkloadSlots(x)' = WorkloadSlots(x) /\ Held(x)' = Held(x)
  BY <1>6, <1>7, <1>8 DEF WorkloadSlots, Held
<1>21. Available(d) <= Available(d)' /\ Available(d) \in Int /\ Available(d)' \in Int
  <2>1. \A x \in Deployments \ {d} : Held(x)' <= Held(x)
    <3>1. \A x \in Deployments : Held(x) \in Nat
      BY <1>1, HeldType
    <3>. QED BY <1>20, <3>1, SMTT(60)
  <2>. QED BY <1>1, <1>2, <1>14, <2>1, AvailableGrows
<1>22. Booked'
  <2> SUFFICES ASSUME DemandOnly PROVE Booked'
    BY <1>6 DEF Booked
  <2> DEFINE need == Policy[d].gpus * job.n
  <2>1. /\ \A x \in Deployments :
             ~wl[x].rolling /\ (st[x].phase \in Reserving => st[x].assigned)
        /\ \A x \in Deployments \ {d} : WorkloadSlots(x) <= Held(x)
        /\ WorkloadSlots(d) <= Available(d)
        /\ Writing("ensure") /\ job.n > 0 =>
             job.n = Effective(d, job.status.desired) /\ need <= Available(d)
    BY <1>1, <1>3, <1>4 DEF Booked
  <2>2. ~RequiresSpare(d)
    BY DEF DemandOnly
  <2>3. \A x \in Deployments :
          ~wl'[x].rolling /\ (st'[x].phase \in Reserving => st'[x].assigned)
    BY <1>2, <1>5, <1>8, <2>1, <2>2
  <2>4. WorkloadSlots(d)' = Policy[d].gpus * w.replicas
    BY <1>6, <1>8 DEF WorkloadSlots
  <2>5. need \in Nat /\ (job.n = 0 => need = 0) /\ WorkloadSlots(d) \in Nat
    <3>1. Policy[d].gpus \in Nat
      BY <1>1, PolicyType DEF Types
    <3>2. WorkloadSlots(d) \in Nat
      BY <1>1, HeldType
    <3>. QED BY <1>9, <3>1, <3>2, SMTT(60)
  <2>6. WorkloadSlots(d)' \in {need, WorkloadSlots(d)} /\ (job.n > 0 => WorkloadSlots(d)' = need)
    BY <1>5, <1>9, <2>4, SMTT(60) DEF WorkloadSlots
  <2>7. job.n > 0 => need <= Available(d) /\ job.n = Effective(d, job.status.desired)
    BY <1>5, <1>9, <2>1, SMTT(60)
  <2> HIDE DEF need
  <2>8. WorkloadSlots(d)' <= Available(d)'
    BY <1>9, <1>21, <2>1, <2>5, <2>6, <2>7, SMTT(60)
  <2>9. job'.status.phase \in Reserving => job'.status.assigned /\ job.n > 0
    <3>1. CASE job.n = 0
      BY <1>1, <1>5, <3>1 DEF Plans
    <3>2. CASE job.n > 0
      <4>1. Writing("ensure")
        BY <1>5, <1>9, <3>2, SMTT(60)
      <4>2. job.status.assigned
        BY <1>1, <3>2, <4>1 DEF Plans
      <4>. QED BY <1>5, <3>2, <4>2
    <3>. QED BY <1>9, <3>1, <3>2, SMTT(60)
  <2>10. HeldAs(d, job.status)' = WorkloadSlots(d)'
    <3>1. CASE job'.status.assigned /\ job'.status.phase \in Reserving
      <4>1. HeldAs(d, job.status)' = Policy[d].gpus * Effective(d, job.status.desired)
        BY <1>5, <1>6, <1>7, <3>1 DEF HeldAs, Reserving
      <4>. QED BY <2>6, <2>7, <2>9, <3>1, <4>1 DEF need
    <3>2. CASE ~(job'.status.assigned /\ job'.status.phase \in Reserving)
      BY <3>2 DEF HeldAs, Reserving
    <3>. QED BY <3>1, <3>2
  <2>11. WorkloadSlots(d)' \in Int
    BY <2>5, <2>6, SMTT(60)
  <2>12. HeldAs(d, job.status)' <= Available(d)' /\ WorkloadSlots(d)' <= HeldAs(d, job.status)'
    BY <2>8, <2>10, <2>11, SMTT(60)
  <2>13. \A x \in Deployments \ {d} : WorkloadSlots(x)' <= Held(x)'
    BY <1>20, <2>1
  <2>. QED BY <1>5, <1>6, <1>11, <2>3, <2>8, <2>9, <2>12, <2>13 DEF Booked, Reserving
<1>. QED BY <1>14, <1>15, <1>16, <1>17, <1>18, <1>19, <1>22 DEF Inv

-----------------------------------------------------------------------------
LEMMA NextInv == Inv /\ [Next]_vars => Inv'
<1> SUFFICES ASSUME Inv, [Next]_vars PROVE Inv'
  OBVIOUS
<1>1. CASE WriteWorkload
  BY <1>1, WriteWorkloadInv
<1>2. CASE WriteStatus
  BY <1>2, WriteStatusInv
<1>3. CASE ReconcileError
  BY <1>3, ErrorInv
<1>4. CASE Tick
  BY <1>4, TickInv
<1>5. CASE MetricsMove \/ UNCHANGED vars
  BY <1>5, MetricsInv
<1>6. ASSUME NEW d \in Deployments, Reconcile(d) PROVE Inv'
  BY <1>6, ReconcileInv
<1>7. ASSUME NEW d \in Deployments,
             \/ DeploymentObserved(d) \/ PodReady(d) \/ PodFails(d) \/ RolloutEnds(d)
             \/ WorkloadGone(d)
      PROVE  Inv'
  BY <1>7, PodActionsInv
<1>8. ASSUME NEW d \in Deployments, EditTemplate(d) \/ EditMaxReplicas(d) PROVE Inv'
  BY <1>8, EditsInv
<1>9. ASSUME NEW d \in Deployments, RequestArrives(d) \/ RequestEnds(d) PROVE Inv'
  BY <1>9, RequestsInv
<1>. QED BY <1>1, <1>2, <1>3, <1>4, <1>5, <1>6, <1>7, <1>8, <1>9 DEF Next

LEMMA InvAlways == Spec => []Inv
BY InitInv, NextInv, PTL DEF Spec

(* Whatever is written to a runtime Deployment, the controller writes: a    *)
(* step of anyone else keeps its size, or completes its deletion.           *)
Kept(d) ==
  \/ ~wl'[d].exists /\ wl'[d].replicas = 0 /\ ~wl'[d].rolling /\ ~wl'[d].deleting
  \/ /\ wl'[d].replicas = wl[d].replicas /\ wl'[d].deleting = wl[d].deleting
     /\ wl'[d].rolling => wl[d].rolling

LEMMA OnlyWritten ==
  ASSUME Inv, Next, NEW d \in Deployments
  PROVE  Kept(d) \/ (WriteWorkload /\ d = job.d)
<1>1. wl \in [Deployments -> WorkloadType]
  BY DEF Inv, Types
<1>2. CASE wl' = wl
  BY <1>2 DEF Kept
<1>3. CASE WriteWorkload
  <2>1. PICK w : wl' = [wl EXCEPT ![job.d] = w]
    BY <1>3 DEF WriteWorkload
  <2>. QED BY <1>1, <1>3, <2>1 DEF Kept
<1>4. ASSUME NEW x \in Deployments,
             \/ DeploymentObserved(x) \/ PodReady(x) \/ PodFails(x) \/ RolloutEnds(x)
             \/ WorkloadGone(x)
      PROVE  Kept(d)
  <2>1. PICK w : /\ wl' = [wl EXCEPT ![x] = w]
                 /\ \/ w = NoWorkload
                    \/ w = [wl[x] EXCEPT !.observed = TRUE]
                    \/ w = [wl[x] EXCEPT !.up = @ + 1]
                    \/ w = [wl[x] EXCEPT !.up = @ - 1]
                    \/ w = [wl[x] EXCEPT !.rolling = FALSE]
    BY <1>4 DEF DeploymentObserved, PodReady, PodFails, RolloutEnds, WorkloadGone, Workloads
  <2>2. \/ ~w.exists /\ w.replicas = 0 /\ ~w.rolling /\ ~w.deleting
        \/ /\ w.replicas = wl[x].replicas /\ w.deleting = wl[x].deleting
           /\ w.rolling => wl[x].rolling
    <3>1. wl[x] \in WorkloadType
      BY <1>1
    <3>2. CASE w = NoWorkload
      BY <3>2 DEF NoWorkload
    <3>3. CASE w # NoWorkload
      BY <2>1, <3>1, <3>3 DEF WorkloadType
    <3>. QED BY <3>2, <3>3
  <2>3. CASE x = d
    BY <1>1, <2>1, <2>2, <2>3 DEF Kept
  <2>4. CASE x # d
    BY <1>1, <2>1, <2>4 DEF Kept
  <2>. QED BY <2>3, <2>4
<1>5. \/ wl' = wl \/ WriteWorkload
      \/ \E x \in Deployments :
           \/ DeploymentObserved(x) \/ PodReady(x) \/ PodFails(x) \/ RolloutEnds(x)
           \/ WorkloadGone(x)
  <2>1. WriteStatus \/ ReconcileError \/ MetricsMove \/ Tick => wl' = wl
    BY DEF WriteStatus, ReconcileError, MetricsMove, Tick
  <2>2. \A x \in Deployments :
          Reconcile(x) \/ EditTemplate(x) \/ EditMaxReplicas(x) \/ RequestArrives(x) \/ RequestEnds(x)
            => wl' = wl
    BY DEF Reconcile, EditTemplate, EditMaxReplicas, Edit, RequestArrives, RequestEnds
  <2>. QED BY <2>1, <2>2 DEF Next
<1>. QED BY <1>2, <1>3, <1>4, <1>5

-----------------------------------------------------------------------------
LEMMA InvFits == Inv => NoOverbooking
<1> SUFFICES ASSUME Inv, DemandOnly PROVE SlotsFit
  BY DEF NoOverbooking
<1>1. Types /\ Booked
  BY DEF Inv
<1>2. \A x \in Deployments : ~wl[x].rolling
  BY <1>1 DEF Booked
<1>3. CASE job # NoJob
  <2>1. job.d \in Deployments
    BY <1>1, <1>3 DEF Types, JobType
  <2>2. /\ \A x \in Deployments \ {job.d} : WorkloadSlots(x) <= Held(x)
        /\ WorkloadSlots(job.d) <= Available(job.d)
    BY <1>1, <1>3 DEF Booked
  <2>. QED BY <1>1, <1>2, <2>1, <2>2, AllFit
<1>4. CASE job = NoJob /\ Deployments # {}
  <2>1. PICK d \in Deployments : TRUE
    BY <1>4
  <2>2. \A x \in Deployments : WorkloadSlots(x) <= Held(x) /\ Held(x) <= Available(x)
    BY <1>1, <1>4 DEF Booked
  <2>3. WorkloadSlots(d) <= Available(d)
    <3>1. WorkloadSlots(d) \in Nat /\ Held(d) \in Nat /\ Available(d) \in Int
      BY <1>1, HeldType
    <3>. QED BY <2>2, <3>1, SMTT(60)
  <2>. QED BY <1>1, <1>2, <2>2, <2>3, AllFit
<1>5. CASE Deployments = {}
  <2>1. Capacity \in Nat
    BY <1>1, HeldType
  <2>2. SumFunctionOnSet([d \in Deployments |-> SlotsInUse(d)], {}) = 0
    BY SumEmpty
  <2>. QED BY <1>5, <2>1, <2>2, SMTT(60) DEF SlotsFit
<1>. QED BY <1>3, <1>4, <1>5

(* The operator does not overbook GPUs to chase queue depth: whatever       *)
(* planRuntimeReplicas asks for from the metrics of any number of           *)
(* deployments, capReplicasByGPUCapacity and the reservation keep the       *)
(* runtime Deployments within the slots of the node.                        *)
THEOREM NothingOverbooked == Spec => []NoOverbooking
BY InvAlways, InvFits, PTL

(* What the controller writes to the runtime Deployment of d.               *)
LEMMA ByController ==
  ASSUME Inv, Next, NEW d \in Deployments, ~Kept(d)
  PROVE  /\ d = job.d
         /\ \/ /\ Writing("ensure") /\ wl'[d].replicas = job.n
               /\ wl'[d].deleting => wl[d].deleting
               /\ wl'[d].rolling => \/ wl[d].rolling
                                    \/ /\ job.n > 0 /\ RequiresSpare(d) /\ wl[d].up > 0
                                       /\ wl[d].ver # job.ver
            \/ Writing("delete") /\ wl'[d].replicas = wl[d].replicas /\ ~wl'[d].rolling
<1>1. Types /\ Pods /\ Plans
  BY DEF Inv
<1>2. WriteWorkload /\ d = job.d
  BY OnlyWritten
<1>3. PICK w \in WorkloadType :
        /\ wl' = [wl EXCEPT ![d] = w]
        /\ \/ /\ Writing("ensure") /\ w.replicas = job.n
              /\ w.deleting => wl[d].deleting
              /\ w.rolling => \/ wl[d].rolling
                              \/ /\ job.n > 0 /\ RequiresSpare(d) /\ wl[d].up > 0
                                 /\ wl[d].ver # job.ver
           \/ Writing("delete") /\ w.replicas = wl[d].replicas /\ ~w.rolling
  BY <1>1, <1>2, Written
<1>4. wl'[d] = w
  BY <1>1, <1>3 DEF Types
<1>. QED BY <1>2, <1>3, <1>4

LEMMA ServingStep ==
  ASSUME Inv, Next, NEW d \in Deployments, DemandOnly, RuntimeReady(wl[d]), st[d].phase = "Active"
  PROVE  ~wl'[d].deleting
<1>1. ~wl[d].deleting
  <2>1. wl[d].up \in Nat /\ wl[d].replicas \in Nat
    BY DEF Inv, Types, WorkloadType
  <2>2. wl[d].up # 0
    BY <2>1, SMTT(60) DEF RuntimeReady
  <2>. QED BY <2>2 DEF Inv, Pods
<1>2. CASE Kept(d)
  BY <1>1, <1>2 DEF Kept
<1>3. CASE ~Kept(d)
  <2>1. Writing("delete") /\ d = job.d => FALSE
    BY DEF Inv, Booked, Reserving
  <2>. QED BY <1>1, <1>3, <2>1, ByController
<1>. QED BY <1>2, <1>3

(* Replacement is never implicit: as long as only demand, pods and metrics  *)
(* change, no reconcile of any deployment finds too little room for a       *)
(* runtime that is Active and ready, so handleGPUCapacityError never        *)
(* deletes one.                                                             *)
THEOREM ServingStays == Spec => ServingKept
<1>1. Inv /\ [Next]_vars =>
        [\A d \in Deployments :
           DemandOnly /\ RuntimeReady(wl[d]) /\ st[d].phase = "Active" => ~wl'[d].deleting]_vars
  BY ServingStep
<1>. QED BY <1>1, InvAlways, PTL DEF Spec, ServingKept

LEMMA LongRequestStep ==
  ASSUME Inv, Next, NEW d \in Deployments, ScaledToZero(d), Policy[d].max = 1, NEW i \in Replica
  PROVE  busyFor[d][i] < Policy[d].idle
<1>1. wl[d].replicas > 0 /\ wl'[d].exists /\ wl'[d].replicas = 0 /\ wl[d].replicas \in Nat
  BY DEF ScaledToZero, Inv, Types, WorkloadType
<1>2. ~Kept(d)
  BY <1>1, SMTT(60) DEF Kept
<1>3. d = job.d /\ Writing("ensure") /\ job.n = 0
  BY <1>1, <1>2, ByController, SMTT(60)
<1>4. Policy[d].idle > 0 /\ busyFor[d][i] = 0
  BY <1>1, <1>3 DEF Inv, Quiet
<1>. QED BY <1>4

(* A request that has run for the whole idle timeout is not cut off: where  *)
(* one replica serves, the sample that lets planRuntimeReplicas scale to    *)
(* zero is one of that replica, and the write follows before the clock      *)
(* moves.                                                                   *)
THEOREM LongRequestsStay == Spec => LongRequestKept
<1>1. Inv /\ [Next]_vars =>
        [\A d \in Deployments :
           ScaledToZero(d) /\ Policy[d].max = 1 =>
             \A i \in Replica : load[d][i] > 0 => busyFor[d][i] < Policy[d].idle]_vars
  BY LongRequestStep
<1>. QED BY <1>1, InvAlways, PTL DEF Spec, LongRequestKept

LEMMA HeldAtZeroStep ==
  ASSUME Inv, Next, NEW d \in Deployments, "Write" \notin setup.faults,
         wl[d].exists, ~wl[d].deleting, wl[d].replicas = 0, wl'[d].replicas > 0
  PROVE  gen[d] > st[d].obs
<1>1. ~Kept(d)
  BY SMTT(60) DEF Kept
<1>2. d = job.d /\ Writing("ensure") /\ job.n > 0
  BY <1>1, ByController, SMTT(60)
<1>. QED BY <1>2 DEF Inv, Woken, Running

(* A deployment that was scaled to zero stays there until its spec is       *)
(* edited: shouldHoldIdleScaleToZero wins over the metrics that a runtime   *)
(* without pods cannot have.                                                *)
THEOREM ZeroIsHeld == Spec => HeldAtZero
<1>1. Inv /\ [Next]_vars =>
        [\A d \in Deployments :
           /\ "Write" \notin setup.faults
           /\ wl[d].exists /\ ~wl[d].deleting /\ wl[d].replicas = 0 /\ wl'[d].replicas > 0
           => gen[d] > st[d].obs]_vars
  BY HeldAtZeroStep
<1>. QED BY <1>1, InvAlways, PTL DEF Spec, HeldAtZero

LEMMA RolloutStep ==
  ASSUME Inv, Next, NEW d \in Deployments, Policy[d].min = Policy[d].max, "max" \notin Edits,
         ~wl[d].rolling, wl'[d].rolling
  PROVE  SlotsInUse(d)' <= Available(d)
<1>1. ~Kept(d)
  BY DEF Kept
<1>2. /\ d = job.d /\ Writing("ensure") /\ wl'[d].replicas = job.n
      /\ job.n > 0 /\ RequiresSpare(d) /\ wl[d].up > 0 /\ wl[d].ver # job.ver
  BY <1>1, ByController
<1>3. wl[d].replicas > 0
  <2>1. wl[d].up \in Nat /\ wl[d].replicas \in Nat /\ wl[d].up <= wl[d].replicas
    BY DEF Inv, Types, WorkloadType, Pods
  <2>. QED BY <1>2, <2>1, SMTT(60)
<1>4. Policy[d].gpus * (job.n + Surge(d, job.n)) <= Available(d)
  BY <1>2, <1>3 DEF Inv, Floors
<1>5. setup' = setup
  <2>1. WriteWorkload
    BY <1>1, OnlyWritten
  <2>. QED BY <2>1 DEF WriteWorkload
<1>6. Policy' = Policy /\ \A n : Surge(d, n)' = Surge(d, n)
  BY <1>5, SetupKept
<1>7. SlotsInUse(d)' = Policy[d].gpus * (job.n + Surge(d, job.n))
  BY <1>2, <1>6 DEF SlotsInUse, Surge
<1>. QED BY <1>4, <1>7

(* A rollout that runs pods of two templates side by side starts only when  *)
(* rolloutRequiredGPUSlots of both fit beside what all others hold, for     *)
(* deployments of a constant size.                                          *)
THEOREM RolloutsHaveRoom == Spec => RolloutHasRoom
<1>1. Inv /\ [Next]_vars =>
        [\A d \in Deployments :
           /\ Policy[d].min = Policy[d].max /\ "max" \notin Edits
           /\ ~wl[d].rolling /\ wl'[d].rolling
           => SlotsInUse(d)' <= Available(d)]_vars
  BY RolloutStep
<1>. QED BY <1>1, InvAlways, PTL DEF Spec, RolloutHasRoom
=============================================================================
