------------------- MODULE ModelDeploymentLifecycleProofs -------------------
(***************************************************************************)
(* Proofs about ModelDeploymentLifecycle for every value of its constants: *)
(* type correctness, that a replacement never goes on for a spec other     *)
(* than the one its target was selected for, that a draining deployment    *)
(* receives no requests, that a failed one has no replacement open, and    *)
(* what RolledBack tells about the target.                                 *)
(*                                                                         *)
(* A status reaches the cluster through todo, so the inductive invariant   *)
(* speaks of the statuses waiting there too.  A plan is made in one state  *)
(* and carried out in later ones: ModelDeploymentPlans says what is known  *)
(* of its writes when they are planned, IInv what stays true of them while *)
(* they wait.                                                              *)
(***************************************************************************)
EXTENDS ModelDeploymentPlans

(* A leaf that names no prover is one for Zenon.                          *)
USE Zenon

(* The writes that wait.                                                   *)

GoodWrite == {w \in Write : w.op = "PatchStatus" => Sound(w.d, w.new)}

Pending(k, op) == k \in 1 .. Len(todo) /\ todo[k].op = op

(* The replacements d has or is about to have.                             *)
Reps(d) ==
  {st[d].rep} \cup
  {todo[k].new.rep : k \in {i \in 1 .. Len(todo) : Pending(i, "PatchStatus") /\ todo[i].d = d}}

RollbackAgreed ==
  /\ \A t, r \in Deployments : \A p \in Reps(t), q \in Reps(r) : Agree(t, p, r, q)
  /\ \A k \in 1 .. Len(todo) :
       Pending(k, "RollBack") =>
         /\ \A p \in Reps(todo[k].d) : p.target = NoDep
         /\ \A q \in Reps(todo[k].by) :
              q.target = todo[k].d => q.phase \notin {"Draining", "Activating"}

(* The Service is attached first or not at all, and not for a deployment   *)
(* that drains; it is detached before a deployment is told to drain.       *)
ServicesAgreed ==
  /\ DrainingDetached
  /\ \A k \in 1 .. Len(todo) :
       Pending(k, "Attach") => k = 1 /\ st[todo[1].d].phase # "Draining"
  /\ \A k \in 1 .. Len(todo) :
       Pending(k, "PatchStatus") /\ todo[k].new.phase = "Draining" =>
         /\ todo[1].op # "Attach"
         /\ \/ todo[k].d \notin svc
            \/ todo[1] = [op |-> "Detach", d |-> todo[k].d]

(* Before a status says RolledBack nothing but the Service and the target  *)
(* is written, and the target is released last.                            *)
Restores(k) ==
  /\ Pending(k, "PatchStatus")
  /\ todo[k].new.rep.phase = "RolledBack"
  /\ st[todo[k].d].rep.phase # "RolledBack"

OnlyParties(s, k, release, request) ==
  \A i \in 1 .. k - 1 :
    s[i].op \in {"Attach", "Detach"} \/ s[i] = release \/ s[i] = request

Unasked(s, k, request) == \A i \in 1 .. k - 1 : s[i] # request

ReleasedLast(s, k, release, request) ==
  \E j \in 1 .. k - 1 : s[j] = release /\ \A i \in j + 1 .. k - 1 : s[i] # request

RestoreKnown(d, k) ==
  LET t == st[d].rep.target
      release == [op |-> "Release", d |-> t, by |-> d]
      request == [op |-> "RollBack", d |-> t, by |-> d]
  IN  /\ ~RuntimeExists(d)
      /\ t \in objects => st[t].phase = "Active"
      /\ OnlyParties(todo, k, release, request)
      /\ \/ (t \in objects => st[t].rep.by # d) /\ Unasked(todo, k, request)
         \/ ReleasedLast(todo, k, release, request)

RestoredInOrder ==
  \A k \in 1 .. Len(todo) : Restores(k) => RestoreKnown(todo[k].d, k)

(* It gives no other deployment's role to the one it is for.               *)
Apart(s) ==
  \A i, j \in 1 .. Len(s) :
    s[i].op \in {"Mark", "RollBack"} /\ s[j].op = "PatchStatus" => s[i].d # s[j].d

IInv ==
  /\ Consistent
  /\ todo \in Seq(GoodWrite) /\ Once(todo) /\ Apart(todo)
  /\ RollbackAgreed
  /\ ServicesAgreed
  /\ RestoredInOrder

-----------------------------------------------------------------------------
(* A reconcile establishes what is known of the writes that wait.          *)

LEMMA GoodIsWrite == Seq(GoodWrite) \subseteq Seq(Write)
<1>1. GoodWrite \subseteq Write BY DEF GoodWrite
<1>. QED BY <1>1, SMTT(60)

LEMMA InitIInv == Init => IInv
<1>. SUFFICES ASSUME Init PROVE IInv
  OBVIOUS
<1>1. NewStatus \in Status
  BY NoReplacementType DEF NewStatus, Status, Phases
<1>2. TypeOK
  BY <1>1, ConstantsAssumption, SMTT(60) DEF Init, TypeOK, Workload, NodeState
<1>3. \A d \in Deployments : st[d] = NewStatus BY DEF Init
<1>4. \A d \in Deployments : Sound(d, st[d])
  <2>1. NewStatus.phase = "New" /\ NewStatus.rep = NoReplacement BY DEF NewStatus
  <2>2. /\ NoReplacement.target = NoDep /\ NoReplacement.by = NoDep
        /\ NoReplacement.phase = "None"
    BY DEF NoReplacement
  <2>. QED BY <1>3, <2>1, <2>2, ConstantsAssumption
       DEF Sound, Matches, FailureClosed, OneRole
<1>5. \A t, r \in Deployments : Agree(t, st[t].rep, r, st[r].rep)
  BY <1>3 DEF Agree, NewStatus, NoReplacement
<1>6. Consistent
  BY <1>2, <1>4, <1>5, ConstantsAssumption DEF Consistent, Init, AlwaysFit
<1>7. todo = <<>> /\ Len(todo) = 0 BY DEF Init
<1>8. \A d : Reps(d) = {st[d].rep} BY <1>7, SMTT(60) DEF Reps
<1>9. RollbackAgreed BY <1>5, <1>7, <1>8, SMTT(60) DEF RollbackAgreed
<1>10. ServicesAgreed BY <1>7, SMTT(60) DEF ServicesAgreed, DrainingDetached, Init
<1>11. RestoredInOrder BY <1>7, SMTT(60) DEF RestoredInOrder
<1>. QED BY <1>6, <1>7, <1>9, <1>10, <1>11, SMTT(60) DEF IInv, Once, Apart

LEMMA Concat ==
  ASSUME NEW S, NEW s \in Seq(S), NEW t \in Seq(S)
  PROVE  /\ s \o t \in Seq(S) /\ Len(s) \in Nat /\ Len(t) \in Nat
         /\ Len(s \o t) = Len(s) + Len(t)
         /\ \A i \in 1 .. Len(s) : (s \o t)[i] = s[i]
         /\ \A i \in Len(s) + 1 .. Len(s \o t) :
              (s \o t)[i] = t[i - Len(s)] /\ i - Len(s) \in 1 .. Len(t)
BY SMTT(60)

LEMMA RestorePlan ==
  ASSUME NEW d \in Deployments, ReconcilePlan(d), Restorable(d)
  PROVE  LET s == AfterParticipant(d)
             t == s.rep.target
             request == IF st[t].rep.phase = "RollingBack" THEN <<>>
                        ELSE <<[op |-> "RollBack", d |-> t, by |-> d]>>
             release == <<[op |-> "Release", d |-> t, by |-> d]>>
         IN  todo' = EnsureService(d) \o
                       (request \o release \o EndTransaction(d, s, "RolledBack"))
<1>. DEFINE s == AfterParticipant(d)
            t == s.rep.target
            request == IF st[t].rep.phase = "RollingBack" THEN <<>>
                       ELSE <<[op |-> "RollBack", d |-> t, by |-> d]>>
            release == <<[op |-> "Release", d |-> t, by |-> d]>>
<1>1. /\ CacheServes(d) /\ ~ParticipantHandled(d) /\ RequesterHandled(d)
      /\ s.rep.phase = "RollingBack"
      /\ t \in objects /\ WantsActive(t) /\ ~RuntimeExists(d)
      /\ ~OwnedByOther(t, d) /\ st[t].phase = "Active"
  BY DEF Restorable, RollbackReads, RequesterReads
<1>2. ~Terminal(d) /\ cache[d] = "Ready" BY <1>1 DEF CacheServes
<1>3. ~Proceeds(d) BY <1>1 DEF Proceeds
<1>4. /\ ~ReconcileFailed(d) /\ ~ReconcileCacheCreated(d) /\ ~ReconcileCacheNotReady(d)
  BY <1>2 DEF ReconcileFailed, ReconcileCacheCreated, ReconcileCacheNotReady
<1>5. ~ParticipantDrain(d) /\ ~ParticipantDisplaced(d)
  BY <1>1 DEF ParticipantDrain, ParticipantDisplaced
<1>6. /\ ~RequesterCancel(d) /\ ~RequesterWithdraw(d)
      /\ ~RequesterTargetLost(d) /\ ~RequesterWait(d)
  BY <1>1 DEF RequesterCancel, RequesterWithdraw, RequesterTargetLost, RequesterWait
<1>7. ~RollbackTargetGone(d) /\ ~RollbackStopsRuntime(d)
  BY <1>1 DEF RollbackTargetGone, RollbackStopsRuntime
<1>8. /\ ~ReconcileInactive(d) /\ ~CapacityRefused(d) /\ ~StartReplacement(d)
      /\ ~NodeRefused(d) /\ ~PreflightRefused(d) /\ ~ActivateRuntime(d)
  BY <1>3 DEF ReconcileInactive, CapacityRefused, StartReplacement, NodeRefused,
     PreflightRefused, ActivateRuntime, Admitted, Activates
<1>9. RollbackResumes(d)
  BY <1>4, <1>5, <1>6, <1>7, <1>8 DEF ReconcilePlan
<1>. HIDE DEF request, release
<1>10. todo' = EnsureService(d) \o
                 (request \o release \o EndTransaction(d, s, "RolledBack"))
  BY <1>1, <1>9 DEF RollbackResumes, request, release
<1>. QED BY <1>10 DEF request, release

LEMMA ReconcileRestores ==
  ASSUME IInv, NEW d \in Deployments, Reconcile(d), Planned(d, todo')
  PROVE  RestoredInOrder'
<1>. SUFFICES ASSUME NEW k \in 1 .. Len(todo'), Restores(k)'
              PROVE  RestoreKnown(todo[k].d, k)'
  BY DEF RestoredInOrder
<1>1. UNCHANGED cluster /\ ReconcilePlan(d) /\ d \in objects
  BY DEF Reconcile
<1>2. UNCHANGED <<st, objects, wl>> BY <1>1 DEF cluster
<1>3. /\ todo'[k].op = "PatchStatus"
      /\ todo'[k].new.rep.phase = "RolledBack"
      /\ st[todo'[k].d].rep.phase # "RolledBack"
  BY <1>2 DEF Restores, Pending
<1>4. todo'[k] \in Good(d) BY <1>3, SMTT(60) DEF Planned, Begins
<1>5. todo'[k].d = d /\ Restorable(d)
  BY <1>3, <1>4 DEF Good, RepGood
<1>. DEFINE s == AfterParticipant(d)
            t == s.rep.target
            release == [op |-> "Release", d |-> t, by |-> d]
            request == [op |-> "RollBack", d |-> t, by |-> d]
            n == [s EXCEPT !.rep.phase = "RolledBack", !.node = NoNode]
            y == IF st[t].rep.phase = "RollingBack" THEN <<>> ELSE <<request>>
            j == Len(EnsureService(d)) + Len(y) + 1
<1>6. RequesterReads(d) /\ t \in objects /\ ~RuntimeExists(d) /\ st[t].phase = "Active"
  BY <1>5 DEF Restorable, RollbackReads
<1>7. t = st[d].rep.target BY <1>6, RequesterKnown DEF IInv
<1>8. todo' = EnsureService(d) \o
                ((y \o <<release>>) \o (DetachService(d) \o PatchStatus(d, Fail(n))))
  BY <1>1, <1>5, RestorePlan DEF EndTransaction, FailDeployment
<1>. DEFINE A == {w \in Write : w.op \in {"Attach", "Detach"}}
            P == {w \in Write : w.op = "PatchStatus"}
<1>9. EnsureService(d) \in Seq(A) /\ DetachService(d) \in Seq(A)
  <2>1. [op |-> "Attach", d |-> d] \in A /\ [op |-> "Detach", d |-> d] \in A
    BY DEF Write
  <2>. HIDE DEF A
  <2>. QED BY <2>1, SMTT(60) DEF EnsureService, DetachService
<1>10. y \in Seq({request})
  <2>1. \A e : <<>> \in Seq({e}) /\ <<e>> \in Seq({e}) BY SMTT(60)
  <2>. HIDE DEF request, t
  <2>. QED BY <2>1
<1>11. PatchStatus(d, Fail(n)) \in Seq({[op |-> "PatchStatus", d |-> d, new |-> Observed(d, Fail(n))]})
       /\ Len(PatchStatus(d, Fail(n))) <= 1
  <2>1. \A e : /\ <<>> \in Seq({e}) /\ <<e>> \in Seq({e})
               /\ Len(<<>>) <= 1 /\ Len(<<e>>) <= 1
    BY SMTT(60)
  <2>. HIDE DEF n
  <2>. QED BY <2>1 DEF PatchStatus
<1>. HIDE DEF s, t, y, n, A, release, request
<1>12. /\ j \in 1 .. Len(todo') /\ todo'[j] = release
       /\ \A i \in 1 .. j - 1 : todo'[i] \in A \/ todo'[i] = request
       /\ \A i \in j + 1 .. Len(todo') : todo'[i] \in A \/ i = Len(todo')
  <2>. DEFINE x == EnsureService(d)
              z == DetachService(d)
              p == PatchStatus(d, Fail(n))
              B == {request}
              Q == {[op |-> "PatchStatus", d |-> d, new |-> Observed(d, Fail(n))]}
  <2>1. /\ x \in Seq(A) /\ z \in Seq(A) /\ y \in Seq(B) /\ p \in Seq(Q) /\ Len(p) <= 1
         /\ todo' = x \o ((y \o <<release>>) \o (z \o p)) /\ j = Len(x) + Len(y) + 1
    BY <1>8, <1>9, <1>10, <1>11
  <2>. HIDE DEF j, x, z, p, B, Q
  <2>. DEFINE T == A \cup B \cup Q \cup {release}
              u == y \o <<release>>
              v == z \o p
              w == u \o v
              one == <<release>>
  <2>2. /\ x \in Seq(T) /\ y \in Seq(T) /\ z \in Seq(T) /\ p \in Seq(T)
        /\ one \in Seq(T) /\ Len(one) = 1 /\ one[1] = release
    BY <2>1, SMTT(60)
  <2>3. /\ \A i \in 1 .. Len(x) : x[i] \in A
        /\ \A i \in 1 .. Len(y) : y[i] \in B
        /\ \A i \in 1 .. Len(z) : z[i] \in A
    BY <2>1, SMTT(60)
  <2>4. j = Len(x) + Len(y) + 1 BY <2>1
  <2>5. todo' = x \o w BY <2>1
  <2>6. Len(p) <= 1 BY <2>1
  <2>. HIDE DEF T, one
  <2>7. /\ u \in Seq(T) /\ Len(y) \in Nat /\ Len(u) = Len(y) + 1
        /\ \A i \in 1 .. Len(y) : u[i] \in B
        /\ u[Len(y) + 1] = release
    <3>1. u = y \o one BY DEF one
    <3>. HIDE DEF u
    <3>2. /\ u \in Seq(T) /\ Len(y) \in Nat /\ Len(u) = Len(y) + Len(one)
          /\ \A i \in 1 .. Len(y) : u[i] = y[i]
          /\ \A i \in Len(y) + 1 .. Len(u) : u[i] = one[i - Len(y)]
      BY <2>2, <3>1, Concat
    <3>3. Len(u) = Len(y) + 1 /\ u[Len(y) + 1] = one[1] BY <2>2, <3>2, SMTT(60)
    <3>. QED BY <2>2, <2>3, <3>2, <3>3
  <2>8. /\ v \in Seq(T) /\ Len(v) \in Nat
        /\ \A i \in 1 .. Len(v) : v[i] \in A \/ i = Len(v)
    <3>. HIDE DEF v
    <3>1. /\ v \in Seq(T) /\ Len(z) \in Nat /\ Len(p) \in Nat
          /\ Len(v) = Len(z) + Len(p)
          /\ \A i \in 1 .. Len(z) : v[i] = z[i]
      BY <2>2, Concat DEF v
    <3>2. /\ Len(v) \in Nat
          /\ \A i \in 1 .. Len(v) : i \in 1 .. Len(z) \/ i = Len(v)
      BY <2>6, <3>1, SMTT(60)
    <3>. QED BY <2>3, <3>1, <3>2
  <2>. HIDE DEF u, v
  <2>9. /\ w \in Seq(T) /\ Len(w) \in Nat /\ Len(y) + 1 \in 1 .. Len(w)
        /\ \A i \in 1 .. Len(y) : w[i] \in B
        /\ w[Len(y) + 1] = release
        /\ \A i \in Len(y) + 2 .. Len(w) : w[i] \in A \/ i = Len(w)
    <3>. HIDE DEF w
    <3>1. /\ w \in Seq(T) /\ Len(w) = Len(u) + Len(v)
          /\ \A i \in 1 .. Len(u) : w[i] = u[i]
          /\ \A i \in Len(u) + 1 .. Len(w) : w[i] = v[i - Len(u)] /\ i - Len(u) \in 1 .. Len(v)
      BY <2>7, <2>8, Concat DEF w
    <3>2. /\ Len(w) \in Nat /\ Len(y) + 1 \in 1 .. Len(w) /\ Len(y) + 1 \in 1 .. Len(u)
          /\ \A i \in 1 .. Len(y) : i \in 1 .. Len(u)
          /\ \A i \in Len(y) + 2 .. Len(w) :
               /\ i \in Len(u) + 1 .. Len(w)
               /\ i - Len(u) = Len(v) => i = Len(w)
      BY <2>7, <2>8, <3>1, SMTT(60)
    <3>. QED BY <2>7, <2>8, <3>1, <3>2
  <2>. HIDE DEF w
  <2>10. /\ Len(x) \in Nat /\ Len(todo') = Len(x) + Len(w)
         /\ \A i \in 1 .. Len(x) : todo'[i] = x[i]
         /\ \A i \in Len(x) + 1 .. Len(todo') : todo'[i] = w[i - Len(x)] /\ i - Len(x) \in 1 .. Len(w)
    <3>. DEFINE o == x \o w
    <3>1. /\ Len(x) \in Nat /\ Len(o) = Len(x) + Len(w)
          /\ \A i \in 1 .. Len(x) : o[i] = x[i]
          /\ \A i \in Len(x) + 1 .. Len(o) : o[i] = w[i - Len(x)] /\ i - Len(x) \in 1 .. Len(w)
      BY <2>2, <2>9, Concat
    <3>2. todo' = o BY <2>5
    <3>. HIDE DEF o
    <3>. QED BY <3>1, <3>2
  <2>11. j \in 1 .. Len(todo') /\ todo'[j] = release
    <3>1. j \in Len(x) + 1 .. Len(todo') /\ j - Len(x) = Len(y) + 1 BY <2>4, <2>7, <2>9, <2>10, SMTT(60)
    <3>2. todo'[j] = w[Len(y) + 1] BY <2>10, <3>1
    <3>. QED BY <2>9, <2>10, <3>1, <3>2, SMTT(60)
  <2>12. ASSUME NEW i \in 1 .. j - 1
         PROVE  todo'[i] \in A \/ todo'[i] \in B
    <3>1. CASE i \in 1 .. Len(x) BY <2>3, <2>10, <3>1
    <3>2. CASE i \in Len(x) + 1 .. Len(todo') /\ i - Len(x) \in 1 .. Len(y)
      BY <2>9, <2>10, <3>2
    <3>. QED BY <2>4, <2>7, <2>10, <2>11, <3>1, <3>2, SMTT(60)
  <2>13. ASSUME NEW i \in j + 1 .. Len(todo')
         PROVE  todo'[i] \in A \/ i = Len(todo')
    <3>1. i \in Len(x) + 1 .. Len(todo') /\ i - Len(x) \in Len(y) + 2 .. Len(w)
      BY <2>4, <2>7, <2>9, <2>10, SMTT(60)
    <3>2. todo'[i] = w[i - Len(x)] BY <2>10, <3>1
    <3>3. w[i - Len(x)] \in A \/ i - Len(x) = Len(w) BY <2>9, <3>1
    <3>4. i - Len(x) = Len(w) => i = Len(todo') BY <2>9, <2>10, <3>1, SMTT(60)
    <3>. QED BY <3>2, <3>3, <3>4
  <2>. QED BY <2>11, <2>12, <2>13 DEF B
<1>. HIDE DEF j
<1>13. /\ \A i \in 1 .. Len(todo') : todo'[i] \in A => todo'[i].op \in {"Attach", "Detach"}
       /\ release.op = "Release" /\ request.op = "RollBack"
  BY DEF A, release, request
<1>14. Len(todo') \in Nat BY <1>12, SMTT(60)
<1>15. j < k
  <2>1. k # j BY <1>3, <1>12, <1>13
  <2>2. ~(k \in 1 .. j - 1) BY <1>3, <1>12, <1>13
  <2>. QED BY <1>12, <1>14, <2>1, <2>2, SMTT(60)
<1>16. k = Len(todo')
  BY <1>3, <1>12, <1>13, <1>14, <1>15, SMTT(60)
<1>17. \A i \in 1 .. k - 1 :
         \/ todo'[i].op \in {"Attach", "Detach"}
         \/ todo'[i] = release \/ todo'[i] = request
  BY <1>12, <1>13, <1>14, <1>15, <1>16, SMTT(60)
<1>18. j \in 1 .. k - 1 /\ \A i \in j + 1 .. k - 1 : todo'[i] # request
  BY <1>12, <1>13, <1>14, <1>15, <1>16, SMTT(60)
<1>19. ~RuntimeExists(d)' /\ (t \in objects' => st'[t].phase = "Active")
  BY <1>2, <1>6 DEF RuntimeExists
<1>20. todo'[k].d = d /\ t = st'[d].rep.target
  BY <1>2, <1>5, <1>7
<1>21. /\ OnlyParties(todo', k, release, request)
       /\ ReleasedLast(todo', k, release, request)
  BY <1>12, <1>17, <1>18 DEF OnlyParties, ReleasedLast
<1>. QED BY <1>19, <1>20, <1>21 DEF RestoreKnown, release, request

LEMMA ReconcileServices ==
  ASSUME IInv, NEW d \in Deployments, Reconcile(d), Planned(d, todo')
  PROVE  ServicesAgreed'
<1>1. UNCHANGED <<st, objects, svc>> BY DEF Reconcile, cluster
<1>2. DrainingDetached' BY <1>1 DEF IInv, ServicesAgreed, DrainingDetached
<1>3. /\ todo' \in Seq(Good(d) \cup {[op |-> "Attach", d |-> d]})
      /\ \A k \in 1 .. Len(todo') :
           todo'[k].op = "Attach" => k = 1 /\ ~ServiceShouldDetach(d)
      /\ \/ Terminal(d) \/ ~ServiceShouldDetach(d) \/ d \notin svc
         \/ Len(todo') > 0 /\ todo'[1] = [op |-> "Detach", d |-> d]
  BY DEF Planned, Begins
<1>4. \A k \in 1 .. Len(todo') :
        \/ todo'[k] \in Good(d)
        \/ todo'[k] = [op |-> "Attach", d |-> d]
  BY <1>3, SMTT(60)
<1>5. st[d].phase = "Draining" => ServiceShouldDetach(d)
  BY ValidatedKnown DEF IInv
<1>6. ASSUME NEW k \in 1 .. Len(todo'), todo'[k].op = "Attach"
      PROVE  k = 1 /\ st'[todo'[1].d].phase # "Draining"
  <2>1. k = 1 /\ ~ServiceShouldDetach(d) BY <1>3, <1>6
  <2>2. todo'[1].d = d BY <1>4, <1>6, <2>1, SMTT(60) DEF Good
  <2>. QED BY <1>1, <1>5, <2>1, <2>2
<1>7. ASSUME NEW k \in 1 .. Len(todo'), todo'[k].op = "PatchStatus",
             todo'[k].new.phase = "Draining"
      PROVE  /\ todo'[1].op # "Attach"
             /\ todo'[k].d \notin svc' \/ todo'[1] = [op |-> "Detach", d |-> todo'[k].d]
  <2>1. todo'[k] \in Good(d) BY <1>4, <1>7, SMTT(60)
  <2>2. todo'[k].d = d /\ ServiceShouldDetach(d) /\ ~Terminal(d)
    BY <1>7, <2>1 DEF Good, DrainingKnown
  <2>3. 1 \in 1 .. Len(todo') BY <1>3, SMTT(60)
  <2>4. todo'[1].op # "Attach" BY <1>3, <2>2, <2>3
  <2>. QED BY <1>1, <1>3, <2>2, <2>4
<1>. QED BY <1>2, <1>6, <1>7 DEF ServicesAgreed, Pending

LEMMA ReconcileRollbacks ==
  ASSUME IInv, NEW d \in Deployments, Reconcile(d), Planned(d, todo')
  PROVE  RollbackAgreed'
<1>1. UNCHANGED st BY DEF Reconcile, cluster
<1>2. \A k \in 1 .. Len(todo') :
        todo'[k].op # "Attach" => todo'[k] \in Good(d)
  BY SMTT(60) DEF Planned, Begins
<1>3. ASSUME NEW x \in Deployments, NEW p \in Reps(x)'
      PROVE  p = st[x].rep \/ (x = d /\ RepGood(d, p))
  <2>. SUFFICES ASSUME NEW k \in 1 .. Len(todo'), todo'[k].op = "PatchStatus",
                       todo'[k].d = x, p = todo'[k].new.rep
                PROVE  x = d /\ RepGood(d, p)
    BY <1>1, <1>3 DEF Reps, Pending
  <2>. QED BY <1>2 DEF Good
<1>4. ASSUME NEW t \in Deployments, NEW r \in Deployments,
             NEW p \in Reps(t)', NEW q \in Reps(r)'
      PROVE  Agree(t, p, r, q)
  <2>1. p = st[t].rep \/ (t = d /\ RepGood(d, p)) BY <1>3, <1>4
  <2>2. q = st[r].rep \/ (r = d /\ RepGood(d, q)) BY <1>3, <1>4
  <2>3. Agree(t, st[t].rep, r, st[r].rep) BY DEF IInv, Consistent
  <2>4. RepGood(d, st[d].rep) BY OwnRepGood DEF IInv
  <2>5. CASE t = d /\ r = d BY <2>1, <2>2, <2>4, <2>5 DEF RepGood, OneRole, Agree
  <2>6. CASE t = d /\ r # d BY <2>1, <2>2, <2>3, <2>6 DEF RepGood
  <2>7. CASE t # d /\ r = d BY <2>1, <2>2, <2>3, <2>7 DEF RepGood
  <2>8. CASE t # d /\ r # d BY <2>1, <2>2, <2>3, <2>8
  <2>. QED BY <2>5, <2>6, <2>7, <2>8
<1>5. ASSUME NEW k \in 1 .. Len(todo'), todo'[k].op = "RollBack"
      PROVE  /\ \A p \in Reps(todo[k].d)' : p.target = NoDep
             /\ \A q \in Reps(todo[k].by)' :
                  q.target = todo'[k].d => q.phase \notin {"Draining", "Activating"}
  <2>1. todo'[k] \in Good(d) BY <1>2, <1>5
  <2>2. PICK t \in Deployments :
          /\ todo'[k].d = t /\ t # d /\ todo'[k].by = d
          /\ st[t].rep.target = NoDep
          /\ st[d].rep.phase = "RollingBack" /\ st[d].rep.target = t
    BY <1>5, <2>1 DEF Good, Write
  <2>3. \A p \in Reps(t)' : p.target = NoDep BY <1>3, <2>2
  <2>4. \A q \in Reps(d)' : q.target = t => q.phase \notin {"Draining", "Activating"}
    BY <1>3, <2>2, ConstantsAssumption DEF RepGood
  <2>. QED BY <2>2, <2>3, <2>4
<1>. QED BY <1>4, <1>5 DEF RollbackAgreed, Pending

LEMMA ReconcileIInv ==
  ASSUME IInv, NEW d \in Deployments, Reconcile(d)
  PROVE  IInv'
<1>1. Planned(d, todo') BY ReconcilePlanGood DEF Reconcile, IInv
<1>2. todo' \in Seq(GoodWrite) /\ Once(todo)' /\ Apart(todo)'
  <2>1. Good(d) \cup {[op |-> "Attach", d |-> d]} \subseteq GoodWrite
    BY SMTT(60) DEF Good, GoodWrite, Write
  <2>2. todo' \in Seq(Good(d) \cup {[op |-> "Attach", d |-> d]}) /\ Once(todo)'
    BY <1>1 DEF Planned, Begins, Once
  <2>3. \A i \in 1 .. Len(todo') :
          /\ todo'[i].op \in {"Mark", "RollBack"} => todo'[i].d # d
          /\ todo'[i].op = "PatchStatus" => todo'[i].d = d
    BY <2>2, SMTT(60) DEF Good
  <2>. QED BY <2>1, <2>2, <2>3, SMTT(60) DEF Apart
<1>3. Consistent'
  BY <1>2, GoodIsWrite
     DEF IInv, Consistent, TypeOK, Reconcile, cluster, Sound, Matches, FailureClosed,
         Closed, OneRole, Agree
<1>. QED BY <1>1, <1>2, <1>3, ReconcileRestores, ReconcileServices, ReconcileRollbacks
     DEF IInv

-----------------------------------------------------------------------------
(* What waits is issued in order, or dropped.                              *)

Advance == \/ todo' = todo
           \/ todo' = <<>>
           \/ todo # <<>> /\ todo' = Tail(todo)

LEMMA PendingGood ==
  ASSUME IInv, todo # <<>>
  PROVE  /\ W \in GoodWrite /\ W \in Write /\ W.d \in Deployments
         /\ Len(todo) \in Nat /\ 1 \in 1 .. Len(todo) /\ W = todo[1]
         /\ Len(Tail(todo)) = Len(todo) - 1
         /\ \A k \in 1 .. Len(todo) - 1 : Tail(todo)[k] = todo[k + 1]
<1>1. todo \in Seq(GoodWrite) BY DEF IInv
<1>2. W \in GoodWrite BY <1>1, SMTT(60) DEF W
<1>3. /\ Len(todo) \in Nat /\ 1 \in 1 .. Len(todo) /\ W = todo[1]
      /\ Len(Tail(todo)) = Len(todo) - 1
      /\ \A k \in 1 .. Len(todo) - 1 : Tail(todo)[k] = todo[k + 1]
  BY <1>1, SMTT(60) DEF W
<1>. QED BY <1>2, <1>3 DEF GoodWrite, Write

LEMMA Shifted ==
  ASSUME IInv, todo # <<>>, todo' = Tail(todo)
  PROVE  /\ Len(todo) \in Nat /\ Len(todo') = Len(todo) - 1 /\ W = todo[1]
         /\ \A k \in 1 .. Len(todo') :
              /\ todo'[k] = todo[k + 1] /\ k + 1 \in 1 .. Len(todo)
              /\ k \in 1 .. Len(todo) - 1 /\ 1 \in 1 .. (k + 1) - 1
<1>1. /\ Len(todo) \in Nat /\ W = todo[1] /\ Len(todo') = Len(todo) - 1
      /\ \A k \in 1 .. Len(todo) - 1 : todo'[k] = todo[k + 1]
  BY PendingGood
<1>2. \A k \in 1 .. Len(todo') :
        /\ k + 1 \in 1 .. Len(todo)
        /\ k \in 1 .. Len(todo) - 1 /\ 1 \in 1 .. (k + 1) - 1
  BY <1>1, SMTT(60)
<1>. QED BY <1>1, <1>2

LEMMA AdvanceKeeps ==
  ASSUME IInv, Advance
  PROVE  /\ todo' \in Seq(GoodWrite) /\ todo' \in Seq(Write)
         /\ Once(todo)' /\ Apart(todo)'
         /\ \A k \in 1 .. Len(todo') : \E i \in 1 .. Len(todo) : todo'[k] = todo[i]
<1>1. todo \in Seq(GoodWrite) /\ Once(todo) /\ Apart(todo) BY DEF IInv
<1>2. todo' \in Seq(GoodWrite)
  <2>1. \A S : \A s \in Seq(S) : <<>> \in Seq(S) /\ (s # <<>> => Tail(s) \in Seq(S))
    BY SMTT(60)
  <2>. QED BY <1>1, <2>1 DEF Advance
<1>3. CASE todo' = todo BY <1>1, <1>2, <1>3, GoodIsWrite, SMTT(60) DEF Once, Apart
<1>4. CASE todo' = <<>> BY <1>2, <1>4, GoodIsWrite, SMTT(60) DEF Once, Apart
<1>5. CASE todo # <<>> /\ todo' = Tail(todo)
  <2>1. /\ Len(todo) \in Nat /\ Len(todo') = Len(todo) - 1
        /\ \A k \in 1 .. Len(todo') : todo'[k] = todo[k + 1] /\ k + 1 \in 1 .. Len(todo)
    BY <1>5, Shifted
  <2>2. \A i, j \in 1 .. Len(todo') :
          todo'[i].op = "PatchStatus" /\ todo'[j].op = "PatchStatus" => i = j
    BY <1>1, <2>1, SMTT(60) DEF Once
  <2>3. \A i, j \in 1 .. Len(todo') :
          todo'[i].op \in {"Mark", "RollBack"} /\ todo'[j].op = "PatchStatus"
            => todo'[i].d # todo'[j].d
    BY <1>1, <2>1 DEF Apart
  <2>4. Once(todo)' /\ Apart(todo)' BY <2>2, <2>3 DEF Once, Apart
  <2>. QED BY <1>2, <2>1, <2>4, GoodIsWrite
<1>. QED BY <1>3, <1>4, <1>5 DEF Advance

LEMMA RollbacksKept ==
  ASSUME IInv, Advance, \A x \in Deployments : st'[x].rep \in Reps(x)
  PROVE  RollbackAgreed'
<1>1. \A k \in 1 .. Len(todo') : \E i \in 1 .. Len(todo) : todo'[k] = todo[i]
  BY AdvanceKeeps
<1>2. ASSUME NEW x \in Deployments, NEW p \in Reps(x)' PROVE p \in Reps(x)
  <2>1. CASE p = st'[x].rep BY <2>1
  <2>2. CASE \E k \in 1 .. Len(todo') :
               todo'[k].op = "PatchStatus" /\ todo'[k].d = x /\ p = todo'[k].new.rep
    BY <1>1, <2>2, SMTT(60) DEF Reps, Pending
  <2>. QED BY <1>2, <2>1, <2>2 DEF Reps, Pending
<1>3. todo' \in Seq(Write) BY AdvanceKeeps
<1>4. ASSUME NEW k \in 1 .. Len(todo'), todo'[k].op = "RollBack"
      PROVE  /\ \A p \in Reps(todo[k].d)' : p.target = NoDep
             /\ \A q \in Reps(todo[k].by)' :
                  q.target = todo'[k].d => q.phase \notin {"Draining", "Activating"}
  <2>1. PICK i \in 1 .. Len(todo) : todo'[k] = todo[i] BY <1>1
  <2>2. todo'[k].d \in Deployments /\ todo'[k].by \in Deployments
    <3>1. todo'[k] \in Write BY <1>3, SMTT(60)
    <3>. QED BY <1>4, <3>1 DEF Write
  <2>3. /\ \A p \in Reps(todo[i].d) : p.target = NoDep
        /\ \A q \in Reps(todo[i].by) :
             q.target = todo[i].d => q.phase \notin {"Draining", "Activating"}
    BY <1>4, <2>1 DEF IInv, RollbackAgreed, Pending
  <2>4. \A p \in Reps(todo[k].d)' : p \in Reps(todo[i].d) BY <1>2, <2>1, <2>2
  <2>5. \A q \in Reps(todo[k].by)' : q \in Reps(todo[i].by) BY <1>2, <2>1, <2>2
  <2>. QED BY <2>1, <2>3, <2>4, <2>5
<1>5. \A t, r \in Deployments : \A p \in Reps(t)', q \in Reps(r)' : Agree(t, p, r, q)
  BY <1>2 DEF IInv, RollbackAgreed
<1>. QED BY <1>4, <1>5 DEF RollbackAgreed, Pending

LEMMA ServicesKept ==
  ASSUME IInv,
         \/ todo' = todo \/ todo' = <<>>
         \/ todo # <<>> /\ todo' = Tail(todo) /\ W.op \notin {"Attach", "Detach"},
         svc' \subseteq svc, objects' \subseteq objects,
         \A x \in Deployments : st'[x].phase = st[x].phase
  PROVE  ServicesAgreed'
<1>1. objects \subseteq Deployments /\ todo \in Seq(Write) BY DEF IInv, Consistent, TypeOK
<1>2. DrainingDetached' BY <1>1 DEF IInv, ServicesAgreed, DrainingDetached
<1>3. CASE todo' = todo
  <2>1. \A k \in 1 .. Len(todo) : todo[k].op = "Attach" => todo[k].d \in Deployments
    BY <1>1, SMTT(60) DEF Write
  <2>. QED BY <1>2, <1>3, <2>1 DEF IInv, ServicesAgreed, Pending
<1>4. CASE todo' = <<>>
  <2>1. Len(todo') = 0 BY <1>4
  <2>. QED BY <1>2, <2>1, SMTT(60) DEF ServicesAgreed
<1>5. CASE todo # <<>> /\ todo' = Tail(todo) /\ W.op \notin {"Attach", "Detach"}
  <2>1. /\ Len(todo) \in Nat /\ Len(todo') = Len(todo) - 1 /\ W = todo[1]
        /\ \A k \in 1 .. Len(todo') : todo'[k] = todo[k + 1] /\ k + 1 \in 1 .. Len(todo)
    BY <1>5, Shifted
  <2>2. \A k \in 1 .. Len(todo') : todo'[k].op # "Attach"
    BY <2>1, SMTT(60) DEF IInv, ServicesAgreed, Pending
  <2>3. ASSUME NEW k \in 1 .. Len(todo'), todo'[k].op = "PatchStatus",
               todo'[k].new.phase = "Draining"
        PROVE  todo'[k].d \notin svc'
    <3>1. \/ todo[k + 1].d \notin svc
          \/ todo[1] = [op |-> "Detach", d |-> todo[k + 1].d]
      BY <2>1, <2>3 DEF IInv, ServicesAgreed, Pending
    <3>2. todo[k + 1].d \notin svc
      <4>1. [op |-> "Detach", d |-> todo[k + 1].d].op = "Detach" OBVIOUS
      <4>. QED BY <1>5, <2>1, <3>1, <4>1
    <3>. QED BY <2>1, <3>2
  <2>4. \A k \in 1 .. Len(todo') : 1 \in 1 .. Len(todo') BY <2>1, SMTT(60)
  <2>. QED BY <1>2, <2>2, <2>3, <2>4 DEF ServicesAgreed, Pending
<1>. QED BY <1>3, <1>4, <1>5

LEMMA KnownNext ==
  ASSUME NEW k, NEW d, NEW t, NEW release, NEW request,
         todo'[k].d = d, t = st'[d].rep.target,
         release = [op |-> "Release", d |-> t, by |-> d],
         request = [op |-> "RollBack", d |-> t, by |-> d],
         wl'[d] = "None",
         t \in objects' => st'[t].phase = "Active",
         OnlyParties(todo', k, release, request),
         \/ (t \in objects' => st'[t].rep.by # d) /\ Unasked(todo', k, request)
         \/ ReleasedLast(todo', k, release, request)
  PROVE  RestoreKnown(todo[k].d, k)'
BY DEF RestoreKnown, RuntimeExists

LEMMA RestoredKept ==
  ASSUME IInv,
         \/ todo' = todo \/ todo' = <<>>
         \/ /\ todo # <<>> /\ todo' = Tail(todo)
            /\ W.op \notin {"Attach", "Detach", "Release", "RollBack"},
         objects' \subseteq objects,
         \A x \in Deployments : /\ st'[x].phase = st[x].phase
                                /\ st'[x].rep = st[x].rep
                                /\ todo' = todo /\ ~RuntimeExists(x) => ~RuntimeExists(x)'
  PROVE  RestoredInOrder'
<1>1. /\ objects \subseteq Deployments /\ todo \in Seq(Write)
      /\ \A k \in 1 .. Len(todo) : todo[k].d \in Deployments
  BY SMTT(60) DEF IInv, Consistent, TypeOK, Write
<1>2. CASE todo' = todo
  <2>. SUFFICES ASSUME NEW k \in 1 .. Len(todo), Restores(k)'
                PROVE  RestoreKnown(todo[k].d, k)'
    BY <1>2 DEF RestoredInOrder
  <2>. DEFINE d == todo[k].d
  <2>1. d \in Deployments BY <1>1
  <2>2. Restores(k) BY <1>2, <2>1 DEF Restores, Pending
  <2>3. RestoreKnown(d, k) BY <2>2 DEF IInv, RestoredInOrder
  <2>4. todo'[k].d = d BY <1>2
  <2>. DEFINE t == st[d].rep.target
              release == [op |-> "Release", d |-> t, by |-> d]
              request == [op |-> "RollBack", d |-> t, by |-> d]
  <2>. HIDE DEF d, t, release, request
  <2>5. /\ ~RuntimeExists(d)
        /\ t \in objects => st[t].phase = "Active"
        /\ OnlyParties(todo, k, release, request)
        /\ \/ (t \in objects => st[t].rep.by # d) /\ Unasked(todo, k, request)
           \/ ReleasedLast(todo, k, release, request)
    BY <2>3 DEF RestoreKnown, t, release, request
  <2>6. t = st'[d].rep.target BY <2>1 DEF t
  <2>7. t \in objects' => t \in objects /\ st'[t].phase = st[t].phase /\ st'[t].rep = st[t].rep
    BY <1>1
  <2>8. wl'[d] = "None" BY <1>2, <2>1, <2>5 DEF RuntimeExists
  <2>9. /\ wl'[d] = "None"
        /\ t \in objects' => st'[t].phase = "Active"
        /\ OnlyParties(todo', k, release, request)
        /\ \/ (t \in objects' => st'[t].rep.by # d) /\ Unasked(todo', k, request)
           \/ ReleasedLast(todo', k, release, request)
    BY <1>2, <2>5, <2>7, <2>8
  <2>10. /\ release = [op |-> "Release", d |-> t, by |-> d]
         /\ request = [op |-> "RollBack", d |-> t, by |-> d]
    BY DEF release, request
  <2>. QED BY <2>4, <2>6, <2>9, <2>10, KnownNext
<1>3. CASE todo' = <<>>
  <2>1. Len(todo') = 0 BY <1>3
  <2>. QED BY <2>1, SMTT(60) DEF RestoredInOrder
<1>4. CASE /\ todo # <<>> /\ todo' = Tail(todo)
           /\ W.op \notin {"Attach", "Detach", "Release", "RollBack"}
  <2>. SUFFICES ASSUME NEW k \in 1 .. Len(todo'), Restores(k)'
                PROVE  FALSE
    BY DEF RestoredInOrder
  <2>1. /\ Len(todo) \in Nat /\ Len(todo') = Len(todo) - 1 /\ W = todo[1]
        /\ todo'[k] = todo[k + 1] /\ k + 1 \in 1 .. Len(todo)
    BY <1>4, Shifted
  <2>2. Restores(k + 1) BY <1>1, <2>1 DEF Restores, Pending
  <2>3. RestoreKnown(todo[k + 1].d, k + 1) BY <2>1, <2>2 DEF IInv, RestoredInOrder
  <2>4. 1 \in 1 .. (k + 1) - 1 BY <1>4, Shifted
  <2>. DEFINE d == todo[k + 1].d
              release == [op |-> "Release", d |-> st[d].rep.target, by |-> d]
              request == [op |-> "RollBack", d |-> st[d].rep.target, by |-> d]
  <2>5. OnlyParties(todo, k + 1, release, request) BY <2>3 DEF RestoreKnown
  <2>6. release.op = "Release" /\ request.op = "RollBack" OBVIOUS
  <2>. HIDE DEF d, release, request
  <2>7. todo[1].op \in {"Attach", "Detach"} \/ todo[1] = release \/ todo[1] = request
    BY <2>4, <2>5 DEF OnlyParties
  <2>. QED BY <1>4, <2>1, <2>6, <2>7
<1>. QED BY <1>2, <1>3, <1>4

Fitting ==
  AlwaysFit => /\ \A d \in Deployments : spec[d].preflight = "Fit"
               /\ \A n \in Nodes : nodes[n] \in {"Fit", "Down"}

(* A status says nothing new when only its drain clock has moved.          *)
LEMMA ConsistentKept ==
  ASSUME IInv, TypeOK', Fitting',
         \A x \in Deployments : /\ st'[x].phase = st[x].phase
                                /\ st'[x].rep = st[x].rep
                                /\ st'[x].obs = st[x].obs
  PROVE  Consistent'
<1>1. \A d \in Deployments : Sound(d, st'[d])
  BY SMTT(60) DEF IInv, Consistent, Sound, Matches, FailureClosed, OneRole
<1>2. \A t, r \in Deployments : Agree(t, st'[t].rep, r, st'[r].rep)
  BY DEF IInv, Consistent
<1>. QED BY <1>1, <1>2 DEF Consistent, Fitting, AlwaysFit, Sound, Matches, FailureClosed,
     Closed, OneRole, Agree

LEMMA OwnReps ==
  ASSUME \A x \in Deployments : st'[x].rep = st[x].rep
  PROVE  \A x \in Deployments : st'[x].rep \in Reps(x)
BY DEF Reps

(* The first of the writes is issued.                                      *)
LEMMA RestoreShifted ==
  ASSUME IInv, todo # <<>>, todo' = Tail(todo), NEW k \in 1 .. Len(todo'),
         NEW release, NEW request
  PROVE  /\ OnlyParties(todo, k + 1, release, request) =>
              /\ OnlyParties(todo', k, release, request)
              /\ W.op \in {"Attach", "Detach"} \/ W = release \/ W = request
         /\ Unasked(todo, k + 1, request) => W # request /\ Unasked(todo', k, request)
         /\ ReleasedLast(todo, k + 1, release, request) =>
              \/ ReleasedLast(todo', k, release, request)
              \/ W = release /\ Unasked(todo', k, request)
<1>1. k \in Nat /\ 1 \in 1 .. (k + 1) - 1 /\ W = todo[1] BY Shifted, SMTT(60)
<1>2. \A i \in 1 .. k - 1 : todo'[i] = todo[i + 1] /\ i + 1 \in 1 .. (k + 1) - 1
  <2>1. \A i \in 1 .. Len(todo') : todo'[i] = todo[i + 1] BY Shifted
  <2>2. Len(todo') \in Nat BY Shifted, SMTT(60)
  <2>. QED BY <1>1, <2>1, <2>2, SMTT(60)
<1>3. OnlyParties(todo, k + 1, release, request) =>
        /\ OnlyParties(todo', k, release, request)
        /\ todo[1].op \in {"Attach", "Detach"} \/ todo[1] = release \/ todo[1] = request
  BY <1>1, <1>2 DEF OnlyParties
<1>4. Unasked(todo, k + 1, request) => todo[1] # request /\ Unasked(todo', k, request)
  BY <1>1, <1>2 DEF Unasked
<1>5. ASSUME ReleasedLast(todo, k + 1, release, request)
      PROVE  \/ ReleasedLast(todo', k, release, request)
             \/ todo[1] = release /\ Unasked(todo', k, request)
  <2>1. PICK j \in 1 .. (k + 1) - 1 :
          todo[j] = release /\ \A i \in j + 1 .. (k + 1) - 1 : todo[i] # request
    BY <1>5 DEF ReleasedLast
  <2>2. CASE j = 1 BY <1>1, <1>2, <2>1, <2>2, SMTT(60) DEF Unasked
  <2>3. CASE j # 1
    <3>1. j - 1 \in 1 .. k - 1 /\ todo'[j - 1] = release
      BY <1>1, <1>2, <2>1, <2>3, SMTT(60)
    <3>2. \A i \in (j - 1) + 1 .. k - 1 : todo'[i] # request
      BY <1>1, <1>2, <2>1, SMTT(60)
    <3>. QED BY <3>1, <3>2 DEF ReleasedLast
  <2>. QED BY <2>2, <2>3
<1>. QED BY <1>1, <1>3, <1>4, <1>5

LEMMA RestoredShifts ==
  ASSUME IInv, todo # <<>>, todo' = Tail(todo), UNCHANGED <<objects, wl>>,
         W.op \in {"Attach", "Detach"} => st' = st,
         \A x \in Deployments :
           /\ st'[x].phase = st[x].phase
           /\ x # W.d => st'[x] = st[x]
           /\ /\ st[x].rep.phase = "RolledBack"
              /\ \E j \in 1 .. Len(todo) : Pending(j, "PatchStatus") /\ todo[j].d = x
              => st'[x].rep.phase = "RolledBack",
         W.op = "Release" /\ W.d \in objects => st'[W.d].rep.by # W.by
  PROVE  RestoredInOrder'
<1>. SUFFICES ASSUME NEW k \in 1 .. Len(todo'), Restores(k)'
              PROVE  RestoreKnown(todo[k].d, k)'
  BY DEF RestoredInOrder
<1>. DEFINE d == todo[k + 1].d
            t == st[d].rep.target
            release == [op |-> "Release", d |-> t, by |-> d]
            request == [op |-> "RollBack", d |-> t, by |-> d]
<1>1. /\ todo'[k] = todo[k + 1] /\ k + 1 \in 1 .. Len(todo)
      /\ k \in 1 .. Len(todo) - 1 /\ W = todo[1]
  BY PendingGood, SMTT(60)
<1>2. todo \in Seq(Write) /\ objects \subseteq Deployments
  BY DEF IInv, Consistent, TypeOK
<1>3. d \in Deployments
  <2>1. todo[k + 1] \in Write BY <1>1, <1>2, SMTT(60)
  <2>. QED BY <2>1 DEF Write
<1>4. /\ todo[k + 1].op = "PatchStatus" /\ todo[k + 1].new.rep.phase = "RolledBack"
      /\ st'[d].rep.phase # "RolledBack"
  BY <1>1 DEF Restores, Pending
<1>5. st[d].rep.phase # "RolledBack" BY <1>1, <1>3, <1>4 DEF Pending
<1>6. RestoreKnown(d, k + 1)
  BY <1>1, <1>4, <1>5 DEF IInv, RestoredInOrder, Restores, Pending
<1>7. t # d BY <1>3 DEF IInv, Consistent, Sound, OneRole
<1>. HIDE DEF d, t, release, request
<1>8. /\ ~RuntimeExists(d)
      /\ t \in objects => st[t].phase = "Active"
      /\ OnlyParties(todo, k + 1, release, request)
      /\ \/ (t \in objects => st[t].rep.by # d) /\ Unasked(todo, k + 1, request)
         \/ ReleasedLast(todo, k + 1, release, request)
  BY <1>6 DEF RestoreKnown, t, release, request
<1>9. /\ OnlyParties(todo', k, release, request)
      /\ W.op \in {"Attach", "Detach"} \/ W = release \/ W = request
      /\ \/ /\ t \in objects => st[t].rep.by # d
            /\ W # request /\ Unasked(todo', k, request)
         \/ ReleasedLast(todo', k, release, request)
         \/ W = release /\ Unasked(todo', k, request)
  BY <1>8, RestoreShifted
<1>10. /\ release.op = "Release" /\ release.d = t /\ release.by = d
       /\ request.op = "RollBack" /\ request.d = t
  BY DEF release, request
<1>11. st'[d] = st[d] /\ (t \in objects => st'[t].phase = "Active")
  BY <1>2, <1>3, <1>7, <1>8, <1>9, <1>10
<1>12. \/ (t \in objects => st'[t].rep.by # d) /\ Unasked(todo', k, request)
       \/ ReleasedLast(todo', k, release, request)
  BY <1>9, <1>10
<1>13. t = st'[d].rep.target /\ todo'[k].d = d BY <1>1, <1>11 DEF t, d
<1>14. wl'[d] = "None" BY <1>8 DEF RuntimeExists
<1>15. objects' = objects OBVIOUS
<1>16. /\ t \in objects' => st'[t].phase = "Active"
       /\ \/ (t \in objects' => st'[t].rep.by # d) /\ Unasked(todo', k, request)
          \/ ReleasedLast(todo', k, release, request)
  BY <1>11, <1>12, <1>15
<1>17. OnlyParties(todo', k, release, request) BY <1>9
<1>. QED BY <1>13, <1>14, <1>16, <1>17 DEF RestoreKnown, RuntimeExists, release, request

LEMMA WriteServiceIInv ==
  ASSUME IInv, WriteService
  PROVE  IInv'
<1>1. /\ todo # <<>> /\ W.op \in {"Attach", "Detach"}
      /\ Advance
      /\ UNCHANGED <<st, objects, wl, spec, nodes>>
  BY DEF WriteService, Issue, Advance
<1>2. /\ W \in Write /\ W.d \in Deployments /\ W = todo[1]
      /\ Len(todo) \in Nat /\ 1 \in 1 .. Len(todo)
      /\ Len(Tail(todo)) = Len(todo) - 1
      /\ \A k \in 1 .. Len(todo) - 1 : Tail(todo)[k] = todo[k + 1]
  BY <1>1, PendingGood
<1>3. TypeOK'
  <2>1. svc' \subseteq Deployments BY <1>2 DEF WriteService, IInv, Consistent, TypeOK
  <2>. QED BY <1>1, <2>1, AdvanceKeeps DEF IInv, Consistent, TypeOK, WriteService
<1>4. Consistent'
  <2>1. Fitting' BY <1>1 DEF IInv, Consistent, Fitting, AlwaysFit
  <2>. QED BY <1>1, <1>3, <2>1, ConsistentKept
<1>5. RollbackAgreed' BY <1>1, OwnReps, RollbacksKept
<1>6. CASE W.d \notin objects
  <2>1. todo' = <<>> /\ svc' = svc BY <1>6 DEF WriteService
  <2>2. ServicesAgreed' BY <1>1, <2>1, ServicesKept
  <2>3. RestoredInOrder' BY <1>1, <2>1, RestoredKept DEF RuntimeExists
  <2>. QED BY <1>1, <1>4, <1>5, <2>2, <2>3, AdvanceKeeps DEF IInv
<1>7. CASE W.d \in objects
  <2>1. /\ todo' = Tail(todo)
        /\ svc' = IF W.op = "Attach" THEN svc \cup {W.d} ELSE svc \ {W.d}
    BY <1>7 DEF WriteService
  <2>2. /\ Len(todo') = Len(todo) - 1
        /\ \A k \in 1 .. Len(todo') : todo'[k] = todo[k + 1] /\ k + 1 \in 1 .. Len(todo)
    BY <1>2, <2>1, SMTT(60)
  <2>3. ServicesAgreed'
    <3>1. W.op = "Attach" => st[W.d].phase # "Draining"
      BY <1>2 DEF IInv, ServicesAgreed, Pending
    <3>2. DrainingDetached'
      BY <1>1, <2>1, <3>1 DEF IInv, ServicesAgreed, DrainingDetached
    <3>3. \A k \in 1 .. Len(todo') : todo'[k].op # "Attach"
      BY <1>2, <2>2, SMTT(60) DEF IInv, ServicesAgreed, Pending
    <3>4. ASSUME NEW k \in 1 .. Len(todo'), todo'[k].op = "PatchStatus",
                 todo'[k].new.phase = "Draining"
          PROVE  todo'[k].d \notin svc'
      <4>1. /\ todo[1].op # "Attach"
            /\ \/ todo[k + 1].d \notin svc
               \/ todo[1] = [op |-> "Detach", d |-> todo[k + 1].d]
        BY <2>2, <3>4 DEF IInv, ServicesAgreed, Pending
      <4>. QED BY <1>2, <2>1, <2>2, <4>1, SMTT(60)
    <3>5. \A k \in 1 .. Len(todo') : 1 \in 1 .. Len(todo') BY <1>2, <2>2, SMTT(60)
    <3>. QED BY <3>2, <3>3, <3>4, <3>5 DEF ServicesAgreed, Pending
  <2>4. RestoredInOrder' BY <1>1, <1>2, <2>1, RestoredShifts
  <2>. QED BY <1>1, <1>4, <1>5, <2>3, <2>4, AdvanceKeeps DEF IInv
<1>. QED BY <1>6, <1>7

(* A step that issues nothing but what the other writes of a plan do not   *)
(* look at, or that drops the plan.                                        *)
LEMMA StepIInv ==
  ASSUME IInv, TypeOK', Fitting',
         \/ todo' = todo \/ todo' = <<>>
         \/ /\ todo # <<>> /\ todo' = Tail(todo)
            /\ W.op \in {"Apply", "Delete", "CreateCache"},
         svc' \subseteq svc, objects' \subseteq objects,
         \A x \in Deployments : /\ st'[x].phase = st[x].phase
                                /\ st'[x].rep = st[x].rep
                                /\ st'[x].obs = st[x].obs
                                /\ todo' = todo /\ ~RuntimeExists(x) => ~RuntimeExists(x)'
  PROVE  IInv'
<1>1. Advance BY DEF Advance
<1>2. Consistent' BY ConsistentKept
<1>3. RollbackAgreed' BY <1>1, OwnReps, RollbacksKept
<1>4. ServicesAgreed' BY ServicesKept
<1>5. RestoredInOrder' BY RestoredKept
<1>. QED BY <1>1, <1>2, <1>3, <1>4, <1>5, AdvanceKeeps DEF IInv

LEMMA TailShorter ==
  ASSUME IInv, todo # <<>>
  PROVE  Tail(todo) # todo
<1>1. Len(todo) \in Nat /\ Len(Tail(todo)) = Len(todo) - 1 BY PendingGood
<1>2. \A a \in Nat : a - 1 # a BY SMTT(60)
<1>. QED BY <1>1, <1>2

LEMMA WriteWorkloadIInv ==
  ASSUME IInv, WriteWorkload
  PROVE  IInv'
<1>1. /\ todo # <<>> /\ W.op \in {"Apply", "Delete"} /\ todo' = Tail(todo)
      /\ UNCHANGED <<st, objects, svc, spec, nodes, gen, cache, edits, faults>>
  BY DEF WriteWorkload, Issue
<1>2. W.d \in Deployments BY <1>1, PendingGood
<1>3. wl' \in [Deployments -> Workload] /\ terminating' \subseteq Deployments
  <2>1. wl \in [Deployments -> Workload] /\ terminating \subseteq Deployments
    BY DEF IInv, Consistent, TypeOK
  <2>2. "Starting" \in Workload BY DEF Workload
  <2>. QED BY <1>2, <2>1, <2>2 DEF WriteWorkload
<1>4. Advance BY <1>1 DEF Advance
<1>5. TypeOK' BY <1>1, <1>3, <1>4, AdvanceKeeps DEF IInv, Consistent, TypeOK
<1>6. Fitting' BY <1>1 DEF IInv, Consistent, Fitting, AlwaysFit
<1>. QED BY <1>1, <1>5, <1>6, TailShorter, StepIInv

LEMMA WriteCacheIInv ==
  ASSUME IInv, WriteCache
  PROVE  IInv'
<1>1. /\ todo # <<>> /\ W.op = "CreateCache" /\ todo' = Tail(todo)
      /\ UNCHANGED <<st, objects, svc, spec, nodes, gen, wl, terminating, edits, faults>>
  BY DEF WriteCache, Issue
<1>2. W.d \in Deployments BY <1>1, PendingGood
<1>3. cache' \in [Deployments -> CachePhase]
  BY <1>2 DEF WriteCache, IInv, Consistent, TypeOK, CachePhase
<1>4. Advance BY <1>1 DEF Advance
<1>5. TypeOK' BY <1>1, <1>3, <1>4, AdvanceKeeps DEF IInv, Consistent, TypeOK
<1>6. Fitting' BY <1>1 DEF IInv, Consistent, Fitting, AlwaysFit
<1>. QED BY <1>1, <1>5, <1>6, TailShorter, StepIInv

(* A patch of the target ends its claims or leaves them as they were.      *)
LEMMA TargetPatchedKnown ==
  ASSUME IInv, todo # <<>>, W.op \in {"Release", "Mark", "RollBack"}
  PROVE  LET s == TargetPatched(W)
         IN  /\ s \in Status /\ s.phase = st[W.d].phase /\ s.obs = st[W.d].obs
             /\ \/ s.rep = st[W.d].rep
                \/ /\ s.rep.target = NoDep
                   /\ s.rep.phase # "RolledBack"
                   /\ s.rep.phase = "RollingBack" => W.op = "RollBack" /\ s.rep.by = W.by
             /\ W.op = "Release" => s.rep = st[W.d].rep \/ st[W.d].rep.by = W.by
             /\ W.op = "Release" => s.rep.by # W.by
<1>. DEFINE w == W
            s == st[w.d]
            n == TargetPatched(w)
<1>1. w \in Write /\ w.d \in Deployments BY PendingGood
<1>2. w.by \in Deployments BY <1>1 DEF Write
<1>3. s \in Status BY <1>1 DEF IInv, Consistent, TypeOK
<1>4. s.rep \in Replacement BY <1>3 DEF Status
<1>5. w.op = "RollBack" => s.rep.target = NoDep
  BY PendingGood DEF IInv, RollbackAgreed, Pending, Reps
<1>. HIDE DEF w
<1>6. CASE w.op = "Release"
  <2>1. n = Released(w.d, w.by) BY <1>6 DEF TargetPatched
  <2>2. CASE s.rep.by # w.by BY <1>3, <1>6, <2>1, <2>2 DEF Released, w
  <2>3. CASE s.rep.by = w.by
    <3>1. /\ n \in Status /\ n.rep = NoReplacement
          /\ n.phase = s.phase /\ n.obs = s.obs
      BY <1>3, <2>1, <2>3, NoReplacementType DEF Released, Status
    <3>2. /\ NoReplacement.target = NoDep /\ NoReplacement.by = NoDep
          /\ NoReplacement.phase = "None"
      BY DEF NoReplacement
    <3>. HIDE DEF n, s
    <3>. QED BY <1>2, <1>6, <2>3, <3>1, <3>2, ConstantsAssumption DEF n, s, w
  <2>. QED BY <2>2, <2>3
<1>7. CASE w.op = "Mark"
  <2>. DEFINE rep == [phase |-> "Draining", target |-> NoDep, by |-> w.by, gen |-> 0]
  <2>1. rep \in Replacement
    BY <1>2 DEF Replacement, ReplacementPhases, HandoffPhases
  <2>2. n = [s EXCEPT !.rep = rep] BY <1>7 DEF TargetPatched
  <2>3. rep.target = NoDep /\ rep.phase = "Draining" OBVIOUS
  <2>. HIDE DEF rep, s
  <2>4. n \in Status /\ n.rep = rep /\ n.phase = s.phase /\ n.obs = s.obs
    BY <1>3, <2>1, <2>2 DEF Status
  <2>. HIDE DEF n
  <2>. QED BY <1>7, <2>3, <2>4 DEF n, s, w
<1>8. CASE w.op = "RollBack"
  <2>. DEFINE rep == [s.rep EXCEPT !.phase = "RollingBack", !.by = w.by]
  <2>. HIDE DEF s
  <2>1. /\ rep \in Replacement
        /\ rep.phase = "RollingBack" /\ rep.by = w.by /\ rep.target = s.rep.target
    BY <1>2, <1>4 DEF Replacement, ReplacementPhases, HandoffPhases
  <2>2. n = [s EXCEPT !.rep.phase = "RollingBack", !.rep.by = w.by]
    BY <1>8 DEF TargetPatched, s
  <2>3. n = [s EXCEPT !.rep = rep]
    BY <1>3, <1>4, <2>2 DEF Status, Replacement
  <2>. HIDE DEF rep, n
  <2>4. n \in Status /\ n.rep = rep /\ n.phase = s.phase /\ n.obs = s.obs
    BY <1>3, <2>1, <2>3 DEF Status
  <2>. QED BY <1>5, <1>8, <2>1, <2>4 DEF n, s, w
<1>. QED BY <1>6, <1>7, <1>8 DEF w

LEMMA WriteTargetRollbacks ==
  ASSUME IInv, WriteTarget
  PROVE  RollbackAgreed'
<1>. DEFINE n == TargetPatched(W)
<1>1. /\ todo # <<>> /\ W.op \in {"Release", "Mark", "RollBack"}
      /\ Advance
  BY DEF WriteTarget, Issue, Advance
<1>2. W.d \in Deployments /\ W = todo[1] /\ 1 \in 1 .. Len(todo) BY <1>1, PendingGood
<1>3. \/ st' = st
      \/ st' = [st EXCEPT ![W.d] = n] /\ todo' = Tail(todo)
  BY DEF WriteTarget
<1>4. st \in [Deployments -> Status] BY DEF IInv, Consistent, TypeOK
<1>5. \/ n.rep = st[W.d].rep
      \/ /\ n.rep.target = NoDep
         /\ n.rep.phase = "RollingBack" => W.op = "RollBack" /\ n.rep.by = W.by
  BY <1>1, TargetPatchedKnown
<1>. HIDE DEF n
<1>6. CASE \A x \in Deployments : st'[x].rep = st[x].rep
  BY <1>1, <1>6, OwnReps, RollbacksKept
<1>7. CASE /\ st' = [st EXCEPT ![W.d] = n] /\ todo' = Tail(todo)
           /\ n.rep.target = NoDep
           /\ n.rep.phase = "RollingBack" => W.op = "RollBack" /\ n.rep.by = W.by
  <2>1. \A k \in 1 .. Len(todo') : \E i \in 1 .. Len(todo) : todo'[k] = todo[i]
    BY <1>1, AdvanceKeeps
  <2>2. ASSUME NEW x \in Deployments, NEW p \in Reps(x)'
        PROVE  p \in Reps(x) \/ (x = W.d /\ p = n.rep)
    <3>1. CASE p = st'[x].rep
      <4>1. st'[x] = IF x = W.d THEN n ELSE st[x] BY <1>4, <1>7
      <4>. QED BY <3>1, <4>1 DEF Reps
    <3>2. CASE \E k \in 1 .. Len(todo') :
                 todo'[k].op = "PatchStatus" /\ todo'[k].d = x /\ p = todo'[k].new.rep
      BY <2>1, <3>2, SMTT(60) DEF Reps, Pending
    <3>. QED BY <2>2, <3>1, <3>2 DEF Reps, Pending
  <2>3. ASSUME NEW t \in Deployments, NEW r \in Deployments,
               NEW p \in Reps(t)', NEW q \in Reps(r)'
        PROVE  Agree(t, p, r, q)
    <3>1. p \in Reps(t) \/ (t = W.d /\ p = n.rep) BY <2>2, <2>3
    <3>2. q \in Reps(r) \/ q.target = NoDep BY <1>7, <2>2, <2>3
    <3>3. CASE q.target = NoDep BY <3>3, ConstantsAssumption DEF Agree
    <3>4. CASE p \in Reps(t) /\ q \in Reps(r) BY <3>4 DEF IInv, RollbackAgreed
    <3>5. CASE t = W.d /\ p = n.rep /\ q \in Reps(r)
      <4>1. W.op = "RollBack" =>
              \A o \in Reps(W.by) : o.target = W.d => o.phase \notin {"Draining", "Activating"}
        BY <1>2 DEF IInv, RollbackAgreed, Pending
      <4>. QED BY <1>7, <3>5, <4>1 DEF Agree
    <3>. QED BY <3>1, <3>2, <3>3, <3>4, <3>5
  <2>4. ASSUME NEW k \in 1 .. Len(todo'), todo'[k].op = "RollBack"
        PROVE  /\ \A p \in Reps(todo[k].d)' : p.target = NoDep
               /\ \A q \in Reps(todo[k].by)' :
                    q.target = todo'[k].d => q.phase \notin {"Draining", "Activating"}
    <3>1. PICK i \in 1 .. Len(todo) : todo'[k] = todo[i] BY <2>1
    <3>2. todo'[k].d \in Deployments /\ todo'[k].by \in Deployments
      <4>1. todo'[k] \in Write BY <1>1, AdvanceKeeps, SMTT(60)
      <4>. QED BY <2>4, <4>1 DEF Write
    <3>3. /\ \A p \in Reps(todo[i].d) : p.target = NoDep
          /\ \A q \in Reps(todo[i].by) :
               q.target = todo[i].d => q.phase \notin {"Draining", "Activating"}
      BY <2>4, <3>1 DEF IInv, RollbackAgreed, Pending
    <3>4. \A p \in Reps(todo[k].d)' : p \in Reps(todo[i].d) \/ p.target = NoDep
      BY <1>7, <2>2, <3>1, <3>2
    <3>5. \A q \in Reps(todo[k].by)' : q \in Reps(todo[i].by) \/ q.target = NoDep
      BY <1>7, <2>2, <3>1, <3>2
    <3>. QED BY <3>1, <3>2, <3>3, <3>4, <3>5, ConstantsAssumption
  <2>. QED BY <2>3, <2>4 DEF RollbackAgreed, Pending
<1>8. n.rep = st[W.d].rep => \A x \in Deployments : st'[x].rep = st[x].rep
  BY <1>2, <1>3, <1>4
<1>. QED BY <1>3, <1>5, <1>6, <1>7, <1>8

(* The status of the target as markReplacementTarget, the rollback request *)
(* or releaseReplacementTarget leave it.                                   *)
LEMMA WriteTargetStatus ==
  ASSUME IInv, WriteTarget
  PROVE  /\ st' \in [Deployments -> Status]
         /\ \A x \in Deployments :
              /\ st'[x].phase = st[x].phase /\ st'[x].obs = st[x].obs
              /\ x # W.d => st'[x] = st[x]
              /\ \/ st'[x].rep = st[x].rep
                 \/ /\ st'[x].rep.target = NoDep /\ st'[x].rep.phase # "RolledBack"
                    /\ W.op = "Release" => st[x].rep.by = W.by
         /\ W.op = "Release" /\ W.d \in objects => st'[W.d].rep.by # W.by
<1>. DEFINE n == TargetPatched(W)
<1>1. todo # <<>> /\ W.op \in {"Release", "Mark", "RollBack"} BY DEF WriteTarget, Issue
<1>2. W.d \in Deployments BY <1>1, PendingGood
<1>3. /\ n \in Status /\ n.phase = st[W.d].phase /\ n.obs = st[W.d].obs
      /\ n.rep = st[W.d].rep \/ (n.rep.target = NoDep /\ n.rep.phase # "RolledBack")
      /\ W.op = "Release" => n.rep = st[W.d].rep \/ st[W.d].rep.by = W.by
      /\ W.op = "Release" => n.rep.by # W.by
  BY <1>1, TargetPatchedKnown
<1>4. st \in [Deployments -> Status] BY DEF IInv, Consistent, TypeOK
<1>5. IF W.d \in objects THEN st' = [st EXCEPT ![W.d] = n] ELSE st' = st
  BY DEF WriteTarget
<1>. HIDE DEF n
<1>6. CASE W.d \notin objects BY <1>4, <1>5, <1>6
<1>7. CASE W.d \in objects
  <2>1. st' \in [Deployments -> Status] BY <1>2, <1>3, <1>4, <1>5, <1>7
  <2>2. st'[W.d] = n /\ \A x \in Deployments : x # W.d => st'[x] = st[x]
    BY <1>2, <1>4, <1>5, <1>7
  <2>. QED BY <1>2, <1>3, <2>1, <2>2
<1>. QED BY <1>6, <1>7

LEMMA ConsistentNext ==
  ASSUME TypeOK', Fitting', RollbackAgreed', \A x \in Deployments : Sound(x, st'[x])
  PROVE  Consistent'
<1>1. \A x \in Deployments : st'[x].rep \in Reps(x)' BY DEF Reps
<1>2. \A t, r \in Deployments : Agree(t, st'[t].rep, r, st'[r].rep)
  BY <1>1 DEF RollbackAgreed
<1>. QED BY <1>2 DEF Consistent, Fitting, AlwaysFit, Sound, Matches, FailureClosed,
     Closed, OneRole, Agree

LEMMA WriteTargetIInv ==
  ASSUME IInv, WriteTarget
  PROVE  IInv'
<1>1. /\ todo # <<>> /\ W.op \in {"Release", "Mark", "RollBack"} /\ Advance
      /\ UNCHANGED <<objects, spec, gen, wl, terminating, svc, cache, nodes, edits, faults>>
  BY DEF WriteTarget, Issue, Advance
<1>2. W \in Write /\ W.d \in Deployments /\ W = todo[1] /\ 1 \in 1 .. Len(todo)
  BY <1>1, PendingGood
<1>3. W.by \in Deployments BY <1>1, <1>2 DEF Write
<1>4. TypeOK' BY <1>1, WriteTargetStatus, AdvanceKeeps DEF IInv, Consistent, TypeOK
<1>5. Fitting' BY <1>1 DEF IInv, Consistent, Fitting, AlwaysFit
<1>6. RollbackAgreed' BY WriteTargetRollbacks
<1>7. ASSUME NEW x \in Deployments PROVE Sound(x, st'[x])
  <2>1. Sound(x, st[x]) BY DEF IInv, Consistent
  <2>2. st'[x].phase = st[x].phase /\ st'[x].obs = st[x].obs BY WriteTargetStatus
  <2>3. CASE st'[x].rep = st[x].rep
    BY <2>1, <2>2, <2>3 DEF Sound, Matches, FailureClosed, OneRole
  <2>4. CASE st'[x].rep.target = NoDep /\ st'[x].rep.phase # "RolledBack"
    BY <2>4, ConstantsAssumption DEF Sound, Matches, FailureClosed, Closed, OneRole
  <2>. QED BY <2>3, <2>4, WriteTargetStatus
<1>8. Consistent' BY <1>4, <1>5, <1>6, <1>7, ConsistentNext
<1>9. \/ todo' = <<>> /\ st' = st
      \/ todo' = Tail(todo)
  BY DEF WriteTarget
<1>10. ServicesAgreed'
  BY <1>1, <1>9, WriteTargetStatus, ServicesKept
<1>11. RestoredInOrder'
  <2>1. CASE todo' = <<>> /\ st' = st
    BY <1>1, <2>1, RestoredKept DEF RuntimeExists
  <2>2. CASE todo' = Tail(todo)
    <3>1. ASSUME NEW x \in Deployments, st[x].rep.phase = "RolledBack",
                 NEW j \in 1 .. Len(todo), Pending(j, "PatchStatus"), todo[j].d = x
          PROVE  st'[x].rep.phase = "RolledBack"
      <4>1. W.op \in {"Mark", "RollBack"} => x # W.d
        BY <1>2, <3>1 DEF IInv, Apart, Pending
      <4>2. W.op = "Release" => st[x].rep.by # W.by
        BY <1>3, <3>1, ConstantsAssumption DEF IInv, Consistent, Sound, OneRole
      <4>. QED BY <1>1, <3>1, <4>1, <4>2, WriteTargetStatus
    <3>2. \A x \in Deployments : st'[x].phase = st[x].phase /\ (x # W.d => st'[x] = st[x])
      BY WriteTargetStatus
    <3>3. W.op = "Release" /\ W.d \in objects => st'[W.d].rep.by # W.by
      BY WriteTargetStatus
    <3>. QED BY <1>1, <2>2, <3>1, <3>2, <3>3, RestoredShifts
  <2>. QED BY <1>9, <2>1, <2>2
<1>. QED BY <1>1, <1>6, <1>8, <1>10, <1>11, AdvanceKeeps DEF IInv

LEMMA WriteStatusIInv ==
  ASSUME IInv, WriteStatus
  PROVE  IInv'
<1>1. /\ todo # <<>> /\ W.op = "PatchStatus" /\ Advance
      /\ UNCHANGED <<objects, spec, gen, wl, terminating, svc, cache, nodes, edits, faults>>
  BY DEF WriteStatus, Issue, Advance
<1>2. /\ W \in GoodWrite /\ W \in Write /\ W.d \in Deployments
      /\ W = todo[1] /\ 1 \in 1 .. Len(todo)
  BY <1>1, PendingGood
<1>3. W.new \in Status /\ Sound(W.d, W.new) BY <1>1, <1>2 DEF GoodWrite, Write
<1>4. st \in [Deployments -> Status] BY DEF IInv, Consistent, TypeOK
<1>5. Fitting' BY <1>1 DEF IInv, Consistent, Fitting, AlwaysFit
<1>6. CASE W.d \notin objects
  <2>1. todo' = <<>> /\ st' = st BY <1>6 DEF WriteStatus
  <2>2. TypeOK' BY <1>1, <2>1, AdvanceKeeps DEF IInv, Consistent, TypeOK
  <2>. QED BY <1>1, <1>5, <2>1, <2>2, StepIInv DEF RuntimeExists
<1>7. CASE W.d \in objects
  <2>1. st' = [st EXCEPT ![W.d] = W.new] /\ todo' = Tail(todo) BY <1>7 DEF WriteStatus
  <2>2. /\ st' \in [Deployments -> Status] /\ st'[W.d] = W.new
        /\ \A x \in Deployments : x # W.d => st'[x] = st[x]
    BY <1>2, <1>3, <1>4, <2>1
  <2>3. TypeOK' BY <1>1, <2>2, AdvanceKeeps DEF IInv, Consistent, TypeOK
  <2>4. \A x \in Deployments : Sound(x, st'[x])
    BY <1>3, <2>2 DEF IInv, Consistent
  <2>5. RollbackAgreed'
    <3>1. W.new.rep \in Reps(W.d) BY <1>1, <1>2 DEF Reps, Pending
    <3>2. \A x \in Deployments : st'[x].rep \in Reps(x) BY <2>2, <3>1 DEF Reps
    <3>. QED BY <1>1, <3>2, RollbacksKept
  <2>6. Consistent' BY <1>5, <2>3, <2>4, <2>5, ConsistentNext
  <2>7. \A k \in 1 .. Len(todo') : todo'[k] = todo[k + 1] /\ k + 1 \in 1 .. Len(todo) /\ k + 1 # 1
    BY <1>1, <2>1, Shifted, SMTT(60)
  <2>8. \A k \in 1 .. Len(todo') : todo'[k].op \notin {"Attach", "PatchStatus"}
    BY <1>1, <1>2, <2>7 DEF IInv, Once, ServicesAgreed, Pending
  <2>9. ServicesAgreed'
    <3>1. W.new.phase = "Draining" => W.d \notin svc
      <4>1. [op |-> "Detach", d |-> W.d].op # "PatchStatus" OBVIOUS
      <4>. QED BY <1>1, <1>2, <4>1 DEF IInv, ServicesAgreed, Pending
    <3>2. DrainingDetached'
      <4>1. objects \subseteq Deployments BY DEF IInv, Consistent, TypeOK
      <4>. QED BY <1>1, <2>2, <3>1, <4>1 DEF IInv, ServicesAgreed, DrainingDetached
    <3>. QED BY <2>8, <3>2 DEF ServicesAgreed, Pending
  <2>10. RestoredInOrder' BY <2>8 DEF RestoredInOrder, Restores, Pending
  <2>. QED BY <1>1, <2>5, <2>6, <2>9, <2>10, AdvanceKeeps DEF IInv
<1>. QED BY <1>6, <1>7

-----------------------------------------------------------------------------
(* The environment writes no status but the drain clock.                   *)
LEMMA OutsideIInv ==
  ASSUME IInv, TypeOK', Fitting', UNCHANGED <<st, todo>>,
         svc' \subseteq svc, objects' \subseteq objects,
         \A x \in Deployments : wl[x] = "None" => wl'[x] = "None"
  PROVE  IInv'
<1>1. \A x \in Deployments : ~RuntimeExists(x) => ~RuntimeExists(x)' BY DEF RuntimeExists
<1>. QED BY <1>1, StepIInv

LEMMA WorkloadChangesIInv ==
  ASSUME IInv, NEW d \in Deployments, NEW from \in Workload \ {"None"}, NEW to \in Workload,
         WorkloadChanges(d, from, to), faults' \in Nat
  PROVE  IInv'
<1>1. UNCHANGED <<objects, spec, gen, st, terminating, svc, cache, nodes, todo, edits>>
  BY DEF WorkloadChanges
<1>2. wl \in [Deployments -> Workload] BY DEF IInv, Consistent, TypeOK
<1>3. /\ wl' \in [Deployments -> Workload]
      /\ \A x \in Deployments : wl[x] = "None" => wl'[x] = "None"
  BY <1>2 DEF WorkloadChanges
<1>4. TypeOK' BY <1>1, <1>3 DEF IInv, Consistent, TypeOK
<1>5. Fitting' BY <1>1 DEF IInv, Consistent, Fitting, AlwaysFit
<1>. QED BY <1>1, <1>3, <1>4, <1>5, OutsideIInv

LEMMA EditIInv ==
  ASSUME IInv, NEW d \in Deployments, Edit(d)
  PROVE  IInv'
<1>1. UNCHANGED <<objects, st, wl, terminating, svc, cache, nodes, todo, faults>>
  BY DEF Edit
<1>2. /\ spec \in [Deployments -> SpecBody] /\ gen \in [Deployments -> Nat] /\ edits \in Nat
      /\ Fitting
  BY DEF IInv, Consistent, TypeOK, Fitting
<1>3. PICK body \in SpecBodies : spec' = [spec EXCEPT ![d] = body] BY DEF Edit
<1>4. body \in SpecBody BY ConstantsAssumption
<1>5. spec' \in [Deployments -> SpecBody] BY <1>2, <1>3, <1>4
<1>6. gen' \in [Deployments -> Nat] /\ edits' \in Nat BY <1>2, SMTT(60) DEF Edit
<1>7. TypeOK' BY <1>1, <1>5, <1>6 DEF IInv, Consistent, TypeOK
<1>8. ASSUME AlwaysFit, NEW x \in Deployments PROVE spec'[x].preflight = "Fit"
  <2>1. spec'[x] = IF x = d THEN body ELSE spec[x] BY <1>2, <1>3
  <2>2. body.preflight = "Fit" BY <1>8 DEF AlwaysFit
  <2>. QED BY <1>2, <1>8, <2>1, <2>2 DEF Fitting
<1>9. Fitting' BY <1>1, <1>2, <1>8 DEF Fitting, AlwaysFit
<1>. QED BY <1>1, <1>7, <1>9, OutsideIInv

LEMMA NodeChangesIInv ==
  ASSUME IInv, NEW n \in Nodes, NodeChanges(n)
  PROVE  IInv'
<1>1. UNCHANGED <<objects, spec, gen, st, wl, terminating, svc, cache, todo, edits>>
  BY DEF NodeChanges
<1>2. nodes \in [Nodes -> NodeState] /\ faults \in Nat /\ Fitting
  BY DEF IInv, Consistent, TypeOK, Fitting
<1>3. PICK state \in NodeStates : nodes' = [nodes EXCEPT ![n] = state] BY DEF NodeChanges
<1>4. nodes' \in [Nodes -> NodeState] BY <1>2, <1>3, ConstantsAssumption
<1>5. faults' \in Nat BY <1>2, SMTT(60) DEF NodeChanges, Fault
<1>6. TypeOK' BY <1>1, <1>4, <1>5 DEF IInv, Consistent, TypeOK
<1>7. ASSUME AlwaysFit, NEW m \in Nodes PROVE nodes'[m] \in {"Fit", "Down"}
  <2>1. nodes'[m] = IF m = n THEN state ELSE nodes[m] BY <1>2, <1>3
  <2>2. state \in {"Fit", "Down"} BY <1>7 DEF AlwaysFit
  <2>. QED BY <1>2, <1>7, <2>1, <2>2 DEF Fitting
<1>8. Fitting' BY <1>1, <1>2, <1>7 DEF Fitting, AlwaysFit
<1>. QED BY <1>1, <1>6, <1>8, OutsideIInv

LEMMA EnvironmentIInv ==
  ASSUME IInv, NEW d \in Deployments,
         \/ Edit(d) \/ Remove(d)
         \/ WorkloadReady(d) \/ WorkloadStalls(d) \/ WorkloadRecovers(d)
         \/ WorkloadUnready(d) \/ WorkloadGone(d)
         \/ CacheReady(d) \/ CacheFault(d)
  PROVE  IInv'
<1>1. /\ wl \in [Deployments -> Workload] /\ cache \in [Deployments -> CachePhase]
      /\ terminating \subseteq Deployments /\ objects \subseteq Deployments
      /\ svc \subseteq Deployments /\ faults \in Nat /\ Fitting
  BY DEF IInv, Consistent, TypeOK, Fitting
<1>2. {"None", "Starting", "Ready", "Stalled"} \subseteq Workload /\ "Ready" \in CachePhase
  BY DEF Workload, CachePhase
<1>3. CASE Remove(d)
  <2>1. /\ objects' \subseteq objects /\ svc' \subseteq svc /\ faults' \in Nat
        /\ terminating' \subseteq Deployments
        /\ UNCHANGED <<spec, gen, st, wl, cache, nodes, todo, edits>>
    BY <1>1, <1>3, SMTT(60) DEF Remove, Fault
  <2>2. TypeOK' BY <1>1, <2>1 DEF IInv, Consistent, TypeOK
  <2>3. Fitting' BY <1>1, <2>1 DEF Fitting, AlwaysFit
  <2>. QED BY <2>1, <2>2, <2>3, OutsideIInv
<1>4. CASE WorkloadReady(d)
  BY <1>1, <1>2, <1>4, WorkloadChangesIInv DEF WorkloadReady
<1>5. CASE WorkloadStalls(d)
  BY <1>1, <1>2, <1>5, WorkloadChangesIInv, SMTT(60) DEF WorkloadStalls, Fault
<1>6. CASE WorkloadRecovers(d)
  BY <1>1, <1>2, <1>6, WorkloadChangesIInv DEF WorkloadRecovers
<1>7. CASE WorkloadUnready(d)
  BY <1>1, <1>2, <1>7, WorkloadChangesIInv, SMTT(60) DEF WorkloadUnready, Fault
<1>8. CASE WorkloadGone(d)
  <2>1. /\ UNCHANGED <<objects, spec, gen, st, svc, cache, nodes, todo, edits, faults>>
        /\ terminating' \subseteq Deployments
        /\ wl' \in [Deployments -> Workload]
        /\ \A x \in Deployments : wl[x] = "None" => wl'[x] = "None"
    BY <1>1, <1>2, <1>8 DEF WorkloadGone
  <2>2. TypeOK' BY <2>1 DEF IInv, Consistent, TypeOK
  <2>3. Fitting' BY <1>1, <2>1 DEF Fitting, AlwaysFit
  <2>. QED BY <2>1, <2>2, <2>3, OutsideIInv
<1>9. CASE CacheReady(d) \/ CacheFault(d)
  <2>1. /\ UNCHANGED <<objects, spec, gen, st, wl, terminating, svc, nodes, todo, edits>>
        /\ faults' \in Nat
    BY <1>1, <1>9, SMTT(60) DEF CacheReady, CacheFault, Fault
  <2>2. cache' \in [Deployments -> CachePhase]
    BY <1>1, <1>2, <1>9, ConstantsAssumption DEF CacheReady, CacheFault
  <2>3. TypeOK' BY <2>1, <2>2 DEF IInv, Consistent, TypeOK
  <2>4. Fitting' BY <1>1, <2>1 DEF Fitting, AlwaysFit
  <2>. QED BY <2>1, <2>3, <2>4, OutsideIInv
<1>. QED BY <1>3, <1>4, <1>5, <1>6, <1>7, <1>8, <1>9, EditIInv

LEMMA DrainElapsesStatus ==
  ASSUME IInv, NEW d \in Deployments, DrainElapses(d)
  PROVE  /\ st' \in [Deployments -> Status]
         /\ \A x \in Deployments : /\ st'[x].phase = st[x].phase
                                   /\ st'[x].rep = st[x].rep
                                   /\ st'[x].obs = st[x].obs
<1>. DEFINE n == [st[d] EXCEPT !.drain = "Elapsed"]
<1>1. st \in [Deployments -> Status] BY DEF IInv, Consistent, TypeOK
<1>2. st[d] \in Status BY <1>1
<1>3. n \in Status /\ n.phase = st[d].phase /\ n.rep = st[d].rep /\ n.obs = st[d].obs
  BY <1>2 DEF Status
<1>4. st' = [st EXCEPT ![d] = n] BY DEF DrainElapses
<1>. HIDE DEF n
<1>. QED BY <1>1, <1>3, <1>4

LEMMA DrainElapsesIInv ==
  ASSUME IInv, NEW d \in Deployments, DrainElapses(d)
  PROVE  IInv'
<1>1. UNCHANGED <<objects, spec, gen, wl, terminating, svc, cache, nodes, todo, edits, faults>>
  BY DEF DrainElapses
<1>2. TypeOK' BY <1>1, DrainElapsesStatus DEF IInv, Consistent, TypeOK
<1>3. Fitting' BY <1>1 DEF IInv, Consistent, Fitting, AlwaysFit
<1>4. \A x \in Deployments : ~RuntimeExists(x) => ~RuntimeExists(x)'
  BY <1>1 DEF RuntimeExists
<1>. QED BY <1>1, <1>2, <1>3, <1>4, DrainElapsesStatus, StepIInv

LEMMA ReconcileErrorIInv ==
  ASSUME IInv, ReconcileError
  PROVE  IInv'
<1>1. /\ UNCHANGED <<objects, spec, gen, st, wl, terminating, svc, cache, nodes, edits>>
      /\ todo # <<>> /\ todo' = <<>>
  BY DEF ReconcileError, cluster
<1>2. faults' \in Nat BY SMTT(60) DEF ReconcileError, Fault, IInv, Consistent, TypeOK
<1>3. todo' \in Seq(Write) BY <1>1, SMTT(60)
<1>4. TypeOK' BY <1>1, <1>2, <1>3 DEF IInv, Consistent, TypeOK
<1>5. Fitting' BY <1>1 DEF IInv, Consistent, Fitting, AlwaysFit
<1>. QED BY <1>1, <1>4, <1>5, StepIInv DEF RuntimeExists

LEMMA NextIInv == IInv /\ [Next]_vars => IInv'
<1>. SUFFICES ASSUME IInv, [Next]_vars PROVE IInv'
  OBVIOUS
<1>1. CASE \E d \in Deployments : Reconcile(d) BY <1>1, ReconcileIInv
<1>2. CASE IssueWrite
  BY <1>2, WriteServiceIInv, WriteWorkloadIInv, WriteCacheIInv, WriteTargetIInv,
     WriteStatusIInv DEF IssueWrite
<1>3. CASE ReconcileError BY <1>3, ReconcileErrorIInv
<1>4. CASE \E d \in Deployments :
             \/ Edit(d) \/ Remove(d)
             \/ WorkloadReady(d) \/ WorkloadStalls(d) \/ WorkloadRecovers(d)
             \/ WorkloadUnready(d) \/ WorkloadGone(d)
             \/ DrainElapses(d) \/ CacheReady(d) \/ CacheFault(d)
  BY <1>4, EnvironmentIInv, DrainElapsesIInv
<1>5. CASE \E n \in Nodes : NodeChanges(n) BY <1>5, NodeChangesIInv
<1>6. CASE UNCHANGED vars
  <2>1. UNCHANGED <<objects, spec, gen, st, wl, terminating, svc, cache, nodes, todo, edits, faults>>
    BY <1>6 DEF vars, cluster
  <2>2. TypeOK' /\ Fitting' BY <2>1 DEF IInv, Consistent, TypeOK, Fitting, AlwaysFit
  <2>. QED BY <2>1, <2>2, OutsideIInv
<1>. QED BY <1>1, <1>2, <1>3, <1>4, <1>5, <1>6 DEF Next

-----------------------------------------------------------------------------
(* Every status and every pending write keeps its shape, whatever the      *)
(* reconciles of the deployments, the faults and the users do.             *)
THEOREM TypeCorrect == Spec => []TypeOK
<1>1. IInv => TypeOK BY DEF IInv, Consistent
<1>. QED BY <1>1, InitIInv, NextIInv, PTL DEF Spec

(* Any number of deployments, slots, edits and faults: a requester that    *)
(* waits for its target or activates on its slot does so for the spec the  *)
(* target was selected for (requestGeneration in status.replacement).      *)
THEOREM RequestGenerationRespected == Spec => []TransactionMatchesSpec
<1>1. IInv => TransactionMatchesSpec
  BY DEF IInv, Consistent, Sound, Matches, TransactionMatchesSpec
<1>. QED BY <1>1, InitIInv, NextIInv, PTL DEF Spec

(* The Service of a draining deployment selects no pods: ensureService has *)
(* detached it before the status says Draining, for every reason to drain  *)
(* (deactivation, displacement, rollback) and whatever part of a plan was  *)
(* lost, and nothing attaches it again while the deployment drains.        *)
THEOREM DrainingServesNothing == Spec => []DrainingDetached
<1>1. IInv => DrainingDetached BY DEF IInv, ServicesAgreed
<1>. QED BY <1>1, InitIInv, NextIInv, PTL DEF Spec

(* Where no spec and no node is refused by ValidateRuntimeNode, a          *)
(* deployment that Failed holds no slot for a handoff: a capacity error, a *)
(* stalled runtime or a lost target begins a rollback instead, and the     *)
(* rollback fails the deployment only when it ends.                        *)
THEOREM FailureFreesHandoff ==
  ASSUME AlwaysFit
  PROVE  Spec => []FailedEndsTransaction
<1>1. IInv => FailedEndsTransaction
  BY DEF IInv, Consistent, TypeOK, Sound, FailureClosed, Closed, FailedEndsTransaction,
     ReservesHandoff
<1>. QED BY <1>1, InitIInv, NextIInv, PTL DEF Spec

(* A step that is not a patch of a status leaves every replacement alone.  *)
LEMMA OnlyPatchesChangeReps ==
  ASSUME IInv, Next, ~WriteTarget, ~WriteStatus
  PROVE  \A x \in Deployments : st'[x].rep = st[x].rep
<1>1. CASE \E d \in Deployments : Reconcile(d) BY <1>1 DEF Reconcile, cluster
<1>2. CASE IssueWrite
  BY <1>2 DEF IssueWrite, WriteService, WriteWorkload, WriteCache
<1>3. CASE ReconcileError BY <1>3 DEF ReconcileError, cluster
<1>4. CASE \E d \in Deployments :
             \/ Edit(d) \/ Remove(d)
             \/ WorkloadReady(d) \/ WorkloadStalls(d) \/ WorkloadRecovers(d)
             \/ WorkloadUnready(d) \/ WorkloadGone(d)
             \/ CacheReady(d) \/ CacheFault(d)
  BY <1>4 DEF Edit, Remove, WorkloadReady, WorkloadStalls, WorkloadRecovers, WorkloadUnready,
     WorkloadChanges, WorkloadGone, CacheReady, CacheFault
<1>5. CASE \E d \in Deployments : DrainElapses(d) BY <1>5, DrainElapsesStatus
<1>6. CASE \E n \in Nodes : NodeChanges(n) BY <1>6 DEF NodeChanges
<1>. QED BY <1>1, <1>2, <1>3, <1>4, <1>5, <1>6 DEF Next

(* finishReplacementRollback reports RolledBack only once the displaced    *)
(* deployment is Active and released and the own runtime is gone, although *)
(* other steps come between the reconcile that read this and the patch     *)
(* that reports it.                                                        *)
THEOREM RolledBackMeansRestored == Spec => RolledBackRestored
<1>. DEFINE A == \A d \in objects :
                   st'[d].rep.phase = "RolledBack" /\ st[d].rep.phase # "RolledBack"
                     => LET t == st[d].rep.target
                        IN  /\ ~RuntimeExists(d)
                            /\ t \in objects => st[t].phase = "Active" /\ st[t].rep.by # d
<1>1. ASSUME IInv, [Next]_vars PROVE [A]_vars
  <2>. SUFFICES ASSUME Next, NEW d \in objects,
                       st'[d].rep.phase = "RolledBack", st[d].rep.phase # "RolledBack"
                PROVE  LET t == st[d].rep.target
                       IN  /\ ~RuntimeExists(d)
                           /\ t \in objects => st[t].phase = "Active" /\ st[t].rep.by # d
    BY <1>1
  <2>1. d \in Deployments BY <1>1 DEF IInv, Consistent, TypeOK
  <2>2. ~WriteTarget BY <1>1, <2>1, WriteTargetStatus
  <2>3. WriteStatus BY <1>1, <2>1, <2>2, OnlyPatchesChangeReps
  <2>4. todo # <<>> /\ W.op = "PatchStatus" BY <2>3 DEF WriteStatus, Issue
  <2>5. W = todo[1] /\ 1 \in 1 .. Len(todo) /\ W.d \in Deployments
    BY <1>1, <2>4, PendingGood
  <2>6. d = W.d /\ W.new.rep.phase = "RolledBack"
    <3>1. st' = st \/ st' = [st EXCEPT ![W.d] = W.new] BY <2>3 DEF WriteStatus
    <3>2. st \in [Deployments -> Status] BY <1>1 DEF IInv, Consistent, TypeOK
    <3>. QED BY <2>1, <2>5, <3>1, <3>2
  <2>7. Restores(1) BY <2>4, <2>5, <2>6 DEF Restores, Pending
  <2>8. RestoreKnown(d, 1) BY <1>1, <2>5, <2>6, <2>7 DEF IInv, RestoredInOrder
  <2>9. \A release, request : ~ReleasedLast(todo, 1, release, request) BY SMTT(60) DEF ReleasedLast
  <2>. QED BY <2>8, <2>9 DEF RestoreKnown
<1>. QED BY <1>1, InitIInv, NextIInv, PTL DEF Spec, RolledBackRestored

=============================================================================
