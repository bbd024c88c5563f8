------------------------ MODULE ModelDeploymentPlans ------------------------
(***************************************************************************)
(* What a reconcile of ModelDeploymentLifecycle may plan, for every value  *)
(* of its constants.  Good lists what is known of each write at the moment *)
(* the plan is made, Planned of the plan as a whole; there is one lemma    *)
(* per function of the reconciler, and ReconcilePlanGood sums them up.     *)
(* ModelDeploymentLifecycleProofs uses nothing else about the reconciler.  *)
(***************************************************************************)
EXTENDS ModelDeploymentLifecycle, TLAPS

(* A leaf that names no prover is one for Zenon.                          *)
USE Zenon

(* No spec and no node is refused by ValidateRuntimeNode for its labels,   *)
(* taints or compute; a node may still go down.                            *)
AlwaysFit ==
  /\ NodeStates \subseteq {"Fit", "Down"}
  /\ \A body \in SpecBodies : body.preflight = "Fit"
  /\ \A f \in InitialSpecs : \A d \in Deployments : f[d].preflight = "Fit"

Matches(s) ==
  /\ s.rep.target # NoDep /\ s.rep.phase \in {"Draining", "Activating"}
  /\ s.phase \in {"WaitingForGPU", "Activating"}
  => s.rep.gen = s.obs

(* A replacement with which a deployment may be Failed.                    *)
Closed(rep) ==
  rep.target # NoDep => /\ rep.phase # "RollingBack"
                        /\ AlwaysFit => rep.phase \notin HandoffPhases

FailureClosed(s) == s.phase = "Failed" => Closed(s.rep)

(* A deployment is displaced or displaces another, never itself; only one  *)
(* that displaces another reports a rollback.                              *)
OneRole(d, rep) ==
  /\ rep.target # d
  /\ rep.by # NoDep => rep.target = NoDep /\ rep.phase # "RolledBack"

Sound(d, s) == Matches(s) /\ FailureClosed(s) /\ OneRole(d, s.rep)

(* The replacement p of t and q of r: t is not asked back while r goes     *)
(* forward.                                                                *)
Agree(t, p, r, q) ==
  p.by = r /\ p.phase = "RollingBack" /\ q.target = t
    => q.phase \notin {"Draining", "Activating"}

(* What a reconcile may rely on when it starts.                            *)
Consistent ==
  /\ TypeOK
  /\ \A d \in Deployments : Sound(d, st[d])
  /\ \A t, r \in Deployments : Agree(t, st[t].rep, r, st[r].rep)
  /\ AlwaysFit => /\ \A d \in Deployments : spec[d].preflight = "Fit"
                  /\ \A n \in Nodes : nodes[n] \in {"Fit", "Down"}

(* A plan writes the own status once at most.                              *)
Once(s) ==
  \A i, j \in 1 .. Len(s) :
    s[i].op = "PatchStatus" /\ s[j].op = "PatchStatus" => i = j

-----------------------------------------------------------------------------
(* The writes of a plan for d, in the state in which it is made.           *)

(* The conditions under which RollbackResumes reports RolledBack.          *)
Restorable(d) ==
  LET t == AfterParticipant(d).rep.target
  IN  /\ RollbackReads(d)
      /\ t \in objects /\ WantsActive(t)
      /\ ~RuntimeExists(d)
      /\ ~OwnedByOther(t, d)
      /\ st[t].phase = "Active"

RepGood(d, rep) ==
  /\ OneRole(d, rep)
  /\ \A r \in Deployments : Agree(d, rep, r, st[r].rep)
  /\ \A t \in Deployments : Agree(t, st[t].rep, d, rep)
  /\ st[d].rep.phase = "RollingBack" /\ st[d].rep.target # NoDep /\ rep.target # NoDep
       => rep.phase \notin {"Draining", "Activating"}
  /\ rep.phase = "RolledBack" => st[d].rep.phase = "RolledBack" \/ Restorable(d)

DrainingKnown(d, s) ==
  s.phase = "Draining" => ServiceShouldDetach(d) /\ ~Terminal(d)

Good(d) ==
  {w \in Write :
     /\ w.op # "Attach"
     /\ w.op = "PatchStatus" =>
          w.d = d /\ Sound(d, w.new) /\ RepGood(d, w.new.rep) /\ DrainingKnown(d, w.new)
     /\ w.op = "Mark" => w.d # d
     /\ w.op = "RollBack" =>
          /\ w.by = d /\ w.d # d
          /\ st[w.d].rep.target = NoDep
          /\ st[d].rep.phase = "RollingBack" /\ st[d].rep.target = w.d}

Plain(d) == {w \in Good(d) : w.op # "PatchStatus"}

Update(d) == {s \in Seq(Good(d)) : Once(s)}

(* A plan begins with what ensureService found to do.                      *)
Begins(d, p) ==
  /\ p \in Seq(Good(d) \cup {[op |-> "Attach", d |-> d]})
  /\ \A k \in 1 .. Len(p) : p[k].op = "Attach" => k = 1 /\ ~ServiceShouldDetach(d)
  /\ \/ Terminal(d) \/ ~ServiceShouldDetach(d) \/ d \notin svc
     \/ Len(p) > 0 /\ p[1] = [op |-> "Detach", d |-> d]

Begun(d, p) == Begins(d, p) /\ \A k \in 1 .. Len(p) : p[k].op # "PatchStatus"
Planned(d, p) == Begins(d, p) /\ Once(p)

LEMMA PlainConcat ==
  ASSUME NEW d, NEW s \in Seq(Plain(d)), NEW t \in Seq(Plain(d))
  PROVE  s \o t \in Seq(Plain(d))
BY SMTT(60)

LEMMA PlainEmpty ==
  ASSUME NEW d
  PROVE  <<>> \in Seq(Plain(d))
BY SMTT(60)

LEMMA PlainIsGood ==
  ASSUME NEW d
  PROVE  /\ Seq(Plain(d)) \subseteq Seq(Good(d))
         /\ \A s \in Seq(Plain(d)) : \A k \in 1 .. Len(s) : s[k].op # "PatchStatus"
<1>1. Plain(d) \subseteq Good(d) BY DEF Plain
<1>2. \A s \in Seq(Plain(d)) : \A k \in 1 .. Len(s) : s[k] \in Plain(d) BY SMTT(60)
<1>. QED BY <1>1, <1>2, SMTT(60) DEF Plain

LEMMA UpdateConcat ==
  ASSUME NEW d, NEW s \in Seq(Plain(d)), NEW u \in Update(d)
  PROVE  s \o u \in Update(d)
<1>1. s \in Seq(Good(d)) /\ \A k \in 1 .. Len(s) : s[k].op # "PatchStatus"
  BY PlainIsGood
<1>2. u \in Seq(Good(d)) /\ Once(u) BY DEF Update
<1>3. s \o u \in Seq(Good(d)) BY <1>1, <1>2, SMTT(60)
<1>4. Once(s \o u)
  <2>1. Len(s \o u) = Len(s) + Len(u) /\ Len(s) \in Nat /\ Len(u) \in Nat
    BY <1>1, <1>2, SMTT(60)
  <2>2. \A i \in 1 .. Len(s \o u) :
          \/ (s \o u)[i].op # "PatchStatus"
          \/ i - Len(s) \in 1 .. Len(u) /\ (s \o u)[i] = u[i - Len(s)]
    BY <1>1, <1>2, <2>1, SMTT(60)
  <2>. QED BY <1>2, <2>1, <2>2, SMTT(60) DEF Once
<1>. QED BY <1>3, <1>4 DEF Update

LEMMA PlainGood ==
  ASSUME NEW op \in {"Detach", "Apply", "Delete", "CreateCache"},
         NEW d \in Deployments
  PROVE  <<[op |-> op, d |-> d]>> \in Seq(Plain(d))
<1>1. [op |-> op, d |-> d] \in Plain(d)
  BY DEF Plain, Good, Write
<1>. QED BY <1>1, SMTT(60)

LEMMA TargetGood ==
  ASSUME NEW op \in {"Release", "Mark"}, NEW d,
         NEW t \in Deployments, NEW r \in Deployments, op = "Mark" => t # d
  PROVE  <<[op |-> op, d |-> t, by |-> r]>> \in Seq(Plain(d))
<1>1. [op |-> op, d |-> t, by |-> r] \in Plain(d)
  BY DEF Plain, Good, Write
<1>. QED BY <1>1, SMTT(60)

LEMMA PatchGood ==
  ASSUME NEW d \in Deployments, NEW s \in Status, Sound(d, s), RepGood(d, s.rep),
         DrainingKnown(d, s)
  PROVE  <<[op |-> "PatchStatus", d |-> d, new |-> s]>> \in Update(d)
<1>1. [op |-> "PatchStatus", d |-> d, new |-> s] \in Good(d)
  BY DEF Good, Write
<1>. QED BY <1>1, SMTT(60) DEF Update, Once

LEMMA EnsureServiceBegun ==
  ASSUME NEW d \in Deployments
  PROVE  Begun(d, EnsureService(d))
<1>1. [op |-> "Detach", d |-> d] \in Good(d)
  BY DEF Good, Write
<1>. DEFINE e == EnsureService(d)
<1>2. \/ e = <<>> /\ (~ServiceShouldDetach(d) \/ d \notin svc)
      \/ e = <<[op |-> "Detach", d |-> d]>>
      \/ e = <<[op |-> "Attach", d |-> d]>> /\ ~ServiceShouldDetach(d)
  BY DEF EnsureService
<1>. HIDE DEF e
<1>. DEFINE S == Good(d) \cup {[op |-> "Attach", d |-> d]}
<1>0. ASSUME e \in Seq(S),
             \A k \in 1 .. Len(e) :
               /\ e[k].op # "PatchStatus"
               /\ e[k].op = "Attach" => k = 1 /\ ~ServiceShouldDetach(d),
             \/ ~ServiceShouldDetach(d) \/ d \notin svc
             \/ Len(e) > 0 /\ e[1] = [op |-> "Detach", d |-> d]
      PROVE  Begun(d, e)
  BY <1>0 DEF Begun, Begins
<1>. HIDE DEF S
<1>3. CASE e = <<>> /\ (~ServiceShouldDetach(d) \/ d \notin svc)
  <2>1. e \in Seq(S) /\ Len(e) = 0 BY <1>3, SMTT(60)
  <2>2. \A k \in 1 .. Len(e) : FALSE BY <2>1, SMTT(60)
  <2>. QED BY <1>0, <1>3, <2>1, <2>2 DEF e
<1>4. ASSUME NEW w \in S, e = <<w>>, w.op # "PatchStatus",
             w.op = "Attach" => ~ServiceShouldDetach(d),
             ~ServiceShouldDetach(d) \/ w = [op |-> "Detach", d |-> d]
      PROVE  Begun(d, e)
  <2>1. e \in Seq(S) /\ Len(e) = 1 /\ Len(e) > 0 /\ e[1] = w BY <1>4, SMTT(60)
  <2>2. \A k \in 1 .. Len(e) : k = 1 /\ e[k] = w BY <2>1, SMTT(60)
  <2>3. \A k \in 1 .. Len(e) :
          /\ e[k].op # "PatchStatus"
          /\ e[k].op = "Attach" => k = 1 /\ ~ServiceShouldDetach(d)
    BY <1>4, <2>2
  <2>4. \/ ~ServiceShouldDetach(d) \/ d \notin svc
        \/ Len(e) > 0 /\ e[1] = [op |-> "Detach", d |-> d]
    BY <1>4, <2>1
  <2>. QED BY <1>0, <2>1, <2>3, <2>4
<1>5. /\ [op |-> "Detach", d |-> d].op \notin {"Attach", "PatchStatus"}
      /\ [op |-> "Attach", d |-> d].op # "PatchStatus"
  OBVIOUS
<1>6. CASE e = <<[op |-> "Detach", d |-> d]>>
  <2>. DEFINE w == [op |-> "Detach", d |-> d]
  <2>1. w \in S /\ e = <<w>> /\ w.op # "PatchStatus" /\ w.op # "Attach"
    BY <1>5, <1>6, <1>1 DEF S
  <2>. HIDE DEF w
  <2>2. w = [op |-> "Detach", d |-> d] BY DEF w
  <2>. QED BY <1>4, <2>1, <2>2 DEF e
<1>7. CASE e = <<[op |-> "Attach", d |-> d]>> /\ ~ServiceShouldDetach(d)
  <2>. DEFINE w == [op |-> "Attach", d |-> d]
  <2>1. w \in S /\ e = <<w>> /\ w.op # "PatchStatus"
    BY <1>5, <1>7 DEF S
  <2>. HIDE DEF w
  <2>. QED BY <1>4, <1>7, <2>1 DEF e
<1>. QED BY <1>2, <1>3, <1>6, <1>7 DEF e

LEMMA TerminalPlanned ==
  ASSUME NEW d, Terminal(d), NEW u \in Update(d)
  PROVE  Planned(d, u)
<1>1. u \in Seq(Good(d)) /\ Once(u) BY DEF Update
<1>2. \A k \in 1 .. Len(u) : u[k].op # "Attach" BY <1>1, SMTT(60) DEF Good
<1>. QED BY <1>1, <1>2, SMTT(60) DEF Planned, Begins

LEMMA BeginsConcat ==
  ASSUME NEW d, NEW p, Begins(d, p), NEW s \in Seq(Good(d))
  PROVE  /\ Begins(d, p \o s)
         /\ Len(p) \in Nat /\ Len(s) \in Nat /\ Len(p \o s) = Len(p) + Len(s)
         /\ \A k \in 1 .. Len(p) : (p \o s)[k] = p[k]
         /\ \A k \in Len(p) + 1 .. Len(p) + Len(s) : (p \o s)[k] = s[k - Len(p)]
<1>. DEFINE G == Good(d) \cup {[op |-> "Attach", d |-> d]}
            q == p \o s
<1>1. p \in Seq(G) /\ s \in Seq(G) BY SMTT(60) DEF Begins
<1>2. /\ q \in Seq(G) /\ Len(p) \in Nat /\ Len(s) \in Nat /\ Len(q) = Len(p) + Len(s)
      /\ \A k \in 1 .. Len(p) : q[k] = p[k]
      /\ \A k \in Len(p) + 1 .. Len(p) + Len(s) : q[k] = s[k - Len(p)]
  BY <1>1, SMTT(60)
<1>3. \A k \in 1 .. Len(s) : s[k].op # "Attach" BY SMTT(60) DEF Good
<1>. HIDE DEF q
<1>4. \A k \in 1 .. Len(q) : q[k].op = "Attach" => k = 1 /\ ~ServiceShouldDetach(d)
  <2>1. \A k \in 1 .. Len(q) : q[k].op = "Attach" => k \in 1 .. Len(p)
    BY <1>2, <1>3, SMTT(60)
  <2>. QED BY <1>2, <2>1 DEF Begins
<1>5. \/ Terminal(d) \/ ~ServiceShouldDetach(d) \/ d \notin svc
      \/ Len(q) > 0 /\ q[1] = [op |-> "Detach", d |-> d]
  BY <1>2, SMTT(60) DEF Begins
<1>6. Begins(d, q) BY <1>2, <1>4, <1>5 DEF Begins
<1>. QED BY <1>2, <1>6 DEF q

LEMMA BegunConcat ==
  ASSUME NEW d, NEW p, Begun(d, p), NEW s \in Seq(Plain(d))
  PROVE  Begun(d, p \o s)
<1>1. s \in Seq(Good(d)) /\ \A k \in 1 .. Len(s) : s[k].op # "PatchStatus"
  BY PlainIsGood
<1>. DEFINE q == p \o s
<1>2. /\ Begins(d, q)
      /\ Len(p) \in Nat /\ Len(s) \in Nat /\ Len(q) = Len(p) + Len(s)
      /\ \A k \in 1 .. Len(p) : q[k] = p[k]
      /\ \A k \in Len(p) + 1 .. Len(p) + Len(s) : q[k] = s[k - Len(p)]
  BY <1>1, BeginsConcat, SMTT(60) DEF Begun
<1>. HIDE DEF q
<1>3. \A k \in 1 .. Len(q) : q[k].op # "PatchStatus"
  BY <1>1, <1>2, SMTT(60) DEF Begun
<1>. QED BY <1>2, <1>3 DEF Begun, q

LEMMA PlannedConcat ==
  ASSUME NEW d, NEW p, Begun(d, p), NEW u \in Update(d)
  PROVE  Planned(d, p \o u)
<1>1. u \in Seq(Good(d)) /\ Once(u) BY DEF Update
<1>. DEFINE q == p \o u
<1>2. /\ Begins(d, q)
      /\ Len(p) \in Nat /\ Len(u) \in Nat /\ Len(q) = Len(p) + Len(u)
      /\ \A k \in 1 .. Len(p) : q[k] = p[k]
      /\ \A k \in Len(p) + 1 .. Len(p) + Len(u) : q[k] = u[k - Len(p)]
  BY <1>1, BeginsConcat, SMTT(60) DEF Begun
<1>. HIDE DEF q
<1>3. \A k \in 1 .. Len(q) :
        q[k].op = "PatchStatus" =>
          k - Len(p) \in 1 .. Len(u) /\ u[k - Len(p)].op = "PatchStatus"
  BY <1>2, SMTT(60) DEF Begun
<1>4. Once(q) BY <1>1, <1>2, <1>3, SMTT(60) DEF Once
<1>. QED BY <1>2, <1>4 DEF Planned, q

LEMMA PlannedMore ==
  ASSUME NEW d, NEW p, Planned(d, p), NEW s \in Seq(Plain(d))
  PROVE  Planned(d, p \o s)
<1>1. s \in Seq(Good(d)) /\ \A k \in 1 .. Len(s) : s[k].op # "PatchStatus"
  BY PlainIsGood
<1>. DEFINE q == p \o s
<1>2. /\ Begins(d, q)
      /\ Len(p) \in Nat /\ Len(s) \in Nat /\ Len(q) = Len(p) + Len(s)
      /\ \A k \in 1 .. Len(p) : q[k] = p[k]
      /\ \A k \in Len(p) + 1 .. Len(p) + Len(s) : q[k] = s[k - Len(p)]
  BY <1>1, BeginsConcat, SMTT(60) DEF Planned
<1>. HIDE DEF q
<1>3. \A k \in 1 .. Len(q) :
        q[k].op = "PatchStatus" => k \in 1 .. Len(p) /\ p[k].op = "PatchStatus"
  BY <1>1, <1>2, SMTT(60)
<1>4. Once(q) BY <1>2, <1>3 DEF Once, Planned
<1>. QED BY <1>2, <1>4 DEF Planned, q

-----------------------------------------------------------------------------
(* The in-memory statuses are statuses, and what is known of them.         *)

LEMMA NoReplacementType == NoReplacement \in Replacement
BY DEF NoReplacement, Replacement, ReplacementPhases, HandoffPhases

LEMMA ValidatedType ==
  ASSUME TypeOK, NEW d \in Deployments
  PROVE  Validated(d) \in Status
<1>1. st[d] \in Status BY DEF TypeOK
<1>. QED BY <1>1, NoReplacementType DEF Validated, Status, Phases

LEMMA AfterParticipantType ==
  ASSUME TypeOK, NEW d \in Deployments
  PROVE  AfterParticipant(d) \in Status
<1>1. Validated(d) \in Status BY ValidatedType
<1>. QED BY <1>1, NoReplacementType
     DEF AfterParticipant, Status, Replacement, ReplacementPhases, HandoffPhases

LEMMA AfterRequesterType ==
  ASSUME TypeOK, NEW d \in Deployments
  PROVE  AfterRequester(d) \in Status
<1>1. AfterParticipant(d) \in Status BY AfterParticipantType
<1>. QED BY <1>1, NoReplacementType
     DEF AfterRequester, Status, Replacement, ReplacementPhases, HandoffPhases

LEMMA ActivationStatusType ==
  ASSUME TypeOK, NEW d \in Deployments
  PROVE  ActivationStatus(d) \in Status
<1>1. AfterRequester(d) \in Status BY AfterRequesterType
<1>. QED BY <1>1 DEF ActivationStatus, Status

LEMMA NoReplacementGood ==
  ASSUME NEW d \in Deployments
  PROVE  RepGood(d, NoReplacement)
BY ConstantsAssumption DEF RepGood, OneRole, Agree, NoReplacement

LEMMA OwnRepGood ==
  ASSUME Consistent, NEW d \in Deployments
  PROVE  RepGood(d, st[d].rep)
<1>1. OneRole(d, st[d].rep) BY DEF Consistent, Sound
<1>. QED BY <1>1 DEF Consistent, RepGood

(* Another phase of the same replacement.                                  *)
LEMMA PhaseGood ==
  ASSUME Consistent, NEW d \in Deployments, NEW rep \in Replacement, RepGood(d, rep),
         NEW phase \in ReplacementPhases,
         phase = "RollingBack" => rep.target # NoDep,
         phase \in {"Draining", "Activating"} =>
           rep.target = NoDep \/ rep.phase \in {"Draining", "Activating"},
         phase = "RolledBack" => Restorable(d) /\ rep.target # NoDep
  PROVE  /\ [rep EXCEPT !.phase = phase] \in Replacement
         /\ RepGood(d, [rep EXCEPT !.phase = phase])
<1>. DEFINE n == [rep EXCEPT !.phase = phase]
<1>1. /\ n \in Replacement
      /\ n.phase = phase /\ n.target = rep.target /\ n.by = rep.by
  BY DEF Replacement
<1>. HIDE DEF n
<1>2. OneRole(d, n) BY <1>1 DEF RepGood, OneRole
<1>3. ASSUME NEW r \in Deployments PROVE Agree(d, n, r, st[r].rep)
  <2>1. phase = "RollingBack" => rep.by = NoDep BY DEF RepGood, OneRole
  <2>. QED BY <1>1, <2>1, ConstantsAssumption DEF Agree
<1>4. ASSUME NEW t \in Deployments PROVE Agree(t, st[t].rep, d, n)
  <2>1. Agree(t, st[t].rep, d, rep) BY DEF RepGood
  <2>. QED BY <1>1, <2>1, ConstantsAssumption DEF Agree
<1>5. RepGood(d, n) BY <1>1, <1>2, <1>3, <1>4 DEF RepGood
<1>. QED BY <1>1, <1>5 DEF n

LEMMA ValidatedKnown ==
  ASSUME Consistent, NEW d \in Deployments
  PROVE  LET v == Validated(d)
         IN  /\ v \in Status
             /\ v.rep = st[d].rep \/ (v.rep = NoReplacement /\ st[d].phase = "Failed")
             /\ RepGood(d, v.rep)
             /\ v.phase = "Draining" => ServiceShouldDetach(d) /\ ~Terminal(d)
             /\ st[d].phase = "Draining" => ServiceShouldDetach(d)
             /\ ~Terminal(d) => spec[d].valid /\ FailureClosed(v)
<1>. DEFINE v == Validated(d)
<1>1. v \in Status /\ st[d] \in Status BY ValidatedType DEF Consistent, TypeOK
<1>2. /\ v.rep = st[d].rep \/ (v.rep = NoReplacement /\ st[d].phase = "Failed")
      /\ st[d].phase = "Draining" => v.phase \in {"Draining", "Failed"}
      /\ ~spec[d].valid => v.phase = "Failed" /\ ~v.cacheFailed
      /\ spec[d].valid => \/ v.phase = "Pending"
                          \/ v.phase = st[d].phase /\ v.rep = st[d].rep
  BY <1>1 DEF Validated, Status
<1>3. RepGood(d, v.rep) BY <1>2, OwnRepGood, NoReplacementGood
<1>4. ServiceShouldDetach(d) <=> \/ ~WantsActive(d)
                                 \/ v.phase \in {"Draining", "Deactivating", "Failed"}
                                 \/ v.rep.by # NoDep /\ v.rep.phase # "RollingBack"
  BY DEF ServiceShouldDetach
<1>5. Terminal(d) <=> v.phase = "Failed" /\ ~v.cacheFailed BY DEF Terminal
<1>. HIDE DEF v
<1>6. spec[d].valid => FailureClosed(v)
  <2>1. FailureClosed(st[d]) BY DEF Consistent, Sound
  <2>. QED BY <1>2, <2>1 DEF FailureClosed
<1>7. /\ v \in Status
      /\ v.rep = st[d].rep \/ (v.rep = NoReplacement /\ st[d].phase = "Failed")
      /\ RepGood(d, v.rep)
      /\ v.phase = "Draining" => ServiceShouldDetach(d) /\ ~Terminal(d)
      /\ st[d].phase = "Draining" => ServiceShouldDetach(d)
      /\ ~Terminal(d) => spec[d].valid /\ FailureClosed(v)
  BY <1>1, <1>2, <1>3, <1>4, <1>5, <1>6
<1>. QED BY <1>7 DEF v

(* A requester past the participant's stage still has the replacement of   *)
(* its status.                                                             *)
LEMMA AfterParticipantKnown ==
  ASSUME Consistent, NEW d \in Deployments
  PROVE  LET p == AfterParticipant(d)
         IN  /\ p \in Status
             /\ p.phase = Validated(d).phase
             /\ RepGood(d, p.rep)
             /\ p.rep.target # NoDep => p.rep = st[d].rep /\ p.rep = Validated(d).rep
<1>. DEFINE v == Validated(d)
            p == AfterParticipant(d)
            rep == [v.rep EXCEPT !.phase = "RollingBack"]
<1>1. v \in Status /\ p \in Status /\ v.rep \in Replacement
  BY AfterParticipantType, ValidatedType DEF Consistent, Status
<1>2. (v.rep = st[d].rep \/ v.rep = NoReplacement) /\ RepGood(d, v.rep)
  BY ValidatedKnown
<1>3. \/ p = v
      \/ p = [v EXCEPT !.rep = NoReplacement]
      \/ /\ v.rep.by \in Deployments
         /\ st[v.rep.by].rep.phase = "RollingBack"
         /\ p = [v EXCEPT !.rep.phase = "RollingBack", !.drain = "Nil"]
  <2>1. v.rep.by \in Deployments \cup {NoDep} BY <1>1 DEF Replacement
  <2>. HIDE DEF v, p
  <2>. QED BY <2>1 DEF AfterParticipant, v, p
<1>. HIDE DEF v, p
<1>4. CASE p = v BY <1>1, <1>2, <1>4, SMTT(60) DEF v, p, NoReplacement
<1>5. CASE p = [v EXCEPT !.rep = NoReplacement]
  <2>1. p.rep = NoReplacement /\ p.phase = v.phase BY <1>1, <1>5 DEF Status
  <2>. QED BY <1>1, <2>1, NoReplacementGood, SMTT(60) DEF v, p, NoReplacement
<1>6. CASE /\ v.rep.by \in Deployments
           /\ st[v.rep.by].rep.phase = "RollingBack"
           /\ p = [v EXCEPT !.rep.phase = "RollingBack", !.drain = "Nil"]
  <2>1. p.rep = rep /\ p.phase = v.phase
    BY <1>1, <1>6 DEF Status, Replacement
  <2>2. /\ rep.phase = "RollingBack" /\ rep.target = v.rep.target /\ rep.by = v.rep.by
    BY <1>1 DEF Replacement
  <2>3. v.rep.target = NoDep
    BY <1>2, <1>6, ConstantsAssumption DEF RepGood, OneRole
  <2>. HIDE DEF rep
  <2>4. RepGood(d, rep)
    BY <1>2, <1>6, <2>2, <2>3, ConstantsAssumption DEF RepGood, OneRole, Agree
  <2>. QED BY <1>1, <2>1, <2>2, <2>3, <2>4 DEF v, p
<1>. QED BY <1>3, <1>4, <1>5, <1>6

LEMMA AfterRequesterKnown ==
  ASSUME Consistent, NEW d \in Deployments
  PROVE  /\ AfterRequester(d) \in Status
         /\ RepGood(d, AfterRequester(d).rep)
<1>. DEFINE p == AfterParticipant(d)
            rep == [p.rep EXCEPT !.phase = "Activating"]
<1>1. p \in Status /\ p.rep \in Replacement /\ RepGood(d, p.rep)
  BY AfterParticipantKnown DEF Status
<1>2. \/ AfterRequester(d) = p
      \/ AfterRequester(d) = [p EXCEPT !.rep = NoReplacement]
      \/ p.rep.phase = "Draining" /\ AfterRequester(d) = [p EXCEPT !.rep.phase = "Activating"]
  BY DEF AfterRequester
<1>. HIDE DEF p
<1>3. p.rep.phase = "Draining" => RepGood(d, rep)
  BY <1>1, PhaseGood DEF ReplacementPhases, HandoffPhases
<1>4. [p EXCEPT !.rep = NoReplacement].rep = NoReplacement
  BY <1>1 DEF Status
<1>5. [p EXCEPT !.rep.phase = "Activating"].rep = rep
  BY <1>1 DEF Status
<1>6. AfterRequester(d) \in Status BY AfterRequesterType DEF Consistent
<1>. QED BY <1>1, <1>2, <1>3, <1>4, <1>5, <1>6, NoReplacementGood

-----------------------------------------------------------------------------
(* The writes each helper plans are good.                                  *)

(* What makes a status good once Observed has stamped the generation.      *)
Current(d, s) ==
  \/ s.phase \notin {"WaitingForGPU", "Activating"}
  \/ s.rep.phase \notin {"Draining", "Activating"}
  \/ s.rep.target = NoDep
  \/ s.rep.gen = gen[d]

Fine(d, s) ==
  /\ s \in Status
  /\ Current(d, s)
  /\ FailureClosed(s)
  /\ RepGood(d, s.rep)
  /\ DrainingKnown(d, s)

(* Most statuses written are in a phase that says enough.                  *)
LEMMA FineByPhase ==
  ASSUME NEW d, NEW s \in Status, RepGood(d, s.rep),
         s.phase \notin {"WaitingForGPU", "Activating", "Failed", "Draining"}
  PROVE  Fine(d, s)
BY DEF Fine, Current, FailureClosed, DrainingKnown

LEMMA UpdateEmpty ==
  ASSUME NEW d
  PROVE  <<>> \in Update(d)
BY SMTT(60) DEF Update, Once

LEMMA DetachServiceGood ==
  ASSUME NEW d \in Deployments
  PROVE  DetachService(d) \in Seq(Plain(d))
BY PlainGood, PlainEmpty DEF DetachService

LEMMA DeleteWorkloadGood ==
  ASSUME NEW d \in Deployments
  PROVE  DeleteWorkload(d) \in Seq(Plain(d))
<1>1. (IF d \in terminating THEN <<>> ELSE <<[op |-> "Delete", d |-> d]>>)
        \in Seq(Plain(d))
  BY PlainGood, PlainEmpty
<1>. QED BY <1>1, DetachServiceGood, PlainConcat, PlainEmpty DEF DeleteWorkload

LEMMA ObservedType ==
  ASSUME TypeOK, NEW d \in Deployments, NEW s \in Status
  PROVE  Observed(d, s) \in Status
<1>1. gen[d] \in Nat BY DEF TypeOK
<1>2. (s.cacheFailed /\ s.phase = "Failed") \in BOOLEAN BY DEF Status
<1>. QED BY <1>1, <1>2 DEF Observed, Status

LEMMA PatchStatusGood ==
  ASSUME Consistent, NEW d \in Deployments, NEW s, Fine(d, s)
  PROVE  PatchStatus(d, s) \in Update(d)
<1>. DEFINE n == Observed(d, s)
<1>1. s \in Status BY DEF Fine
<1>2. n \in Status BY <1>1, ObservedType DEF Consistent
<1>3. n.phase = s.phase /\ n.rep = s.rep /\ n.obs = gen[d]
  BY <1>1 DEF Observed, Status
<1>. HIDE DEF n
<1>4. Sound(d, n) /\ RepGood(d, n.rep) /\ DrainingKnown(d, n)
  BY <1>3 DEF Sound, Matches, Fine, Current, FailureClosed, RepGood, DrainingKnown
<1>. QED BY <1>2, <1>4, PatchGood, UpdateEmpty DEF PatchStatus, n

LEMMA FailGood ==
  ASSUME Consistent, NEW d \in Deployments, NEW s \in Status, RepGood(d, s.rep),
         Closed(s.rep)
  PROVE  PatchStatus(d, Fail(s)) \in Update(d)
<1>1. Fail(s) \in Status /\ Fail(s).phase = "Failed" /\ Fail(s).rep = s.rep
  BY DEF Fail, Status, Phases
<1>2. Fine(d, Fail(s))
  BY <1>1 DEF Fine, Current, FailureClosed, DrainingKnown
<1>. QED BY <1>2, PatchStatusGood

LEMMA FailDeploymentGood ==
  ASSUME Consistent, NEW d \in Deployments, NEW s \in Status, RepGood(d, s.rep),
         Closed(s.rep)
  PROVE  FailDeployment(d, s) \in Update(d)
BY FailGood, DetachServiceGood, UpdateConcat DEF FailDeployment

LEMMA TearDownAndFailGood ==
  ASSUME Consistent, NEW d \in Deployments, NEW s \in Status, RepGood(d, s.rep),
         Closed(s.rep)
  PROVE  TearDownAndFail(d, s) \in Update(d)
<1>1. (IF RuntimeExists(d) THEN <<>> ELSE DetachService(d)) \in Seq(Plain(d))
  BY DetachServiceGood, PlainEmpty
<1>. QED BY <1>1, FailGood, DeleteWorkloadGood, PlainConcat, UpdateConcat DEF TearDownAndFail

LEMMA ReleaseGood ==
  ASSUME Consistent, NEW d, NEW t, NEW r \in Deployments
  PROVE  Release(t, r) \in Seq(Plain(d))
<1>1. t \in objects => t \in Deployments BY DEF Consistent, TypeOK
<1>. QED BY <1>1, TargetGood, PlainEmpty DEF Release

LEMMA MarkTargetGood ==
  ASSUME Consistent, NEW t \in Deployments, NEW d \in Deployments, t # d
  PROVE  MarkTarget(t, d) \in Seq(Plain(d))
<1>1. (IF st[t].rep.target # NoDep THEN Release(st[t].rep.target, t) ELSE <<>>)
        \in Seq(Plain(d))
  BY ReleaseGood, PlainEmpty
<1>. QED BY <1>1, TargetGood, PlainConcat DEF MarkTarget

LEMMA BeginRollbackGood ==
  ASSUME Consistent, NEW d \in Deployments, NEW s \in Status, RepGood(d, s.rep),
         s.rep.target # NoDep
  PROVE  BeginRollback(d, s) \in Update(d)
<1>. DEFINE n == [s EXCEPT !.rep.phase = "RollingBack", !.phase = "Deactivating"]
            rep == [s.rep EXCEPT !.phase = "RollingBack"]
<1>1. s.rep \in Replacement BY DEF Status
<1>2. rep \in Replacement /\ RepGood(d, rep)
  BY <1>1, PhaseGood DEF ReplacementPhases, HandoffPhases
<1>3. n \in Status /\ n.phase = "Deactivating" /\ n.rep = rep
  BY <1>1, <1>2 DEF Status, Phases, Replacement, ReplacementPhases, HandoffPhases
<1>. HIDE DEF n, rep
<1>4. PatchStatus(d, n) \in Update(d) BY <1>2, <1>3, FineByPhase, PatchStatusGood
<1>. QED BY <1>4, DeleteWorkloadGood, UpdateConcat DEF BeginRollback, n

LEMMA EndTransactionGood ==
  ASSUME Consistent, NEW d \in Deployments, NEW s \in Status, RepGood(d, s.rep),
         NEW outcome \in {"RolledBack", "RollbackFailed"},
         outcome = "RolledBack" => Restorable(d) /\ s.rep.target # NoDep
  PROVE  EndTransaction(d, s, outcome) \in Update(d)
<1>. DEFINE n == [s EXCEPT !.rep.phase = outcome, !.node = NoNode]
            rep == [s.rep EXCEPT !.phase = outcome]
<1>1. s.rep \in Replacement BY DEF Status
<1>2. rep \in Replacement /\ RepGood(d, rep)
  BY <1>1, PhaseGood DEF ReplacementPhases, HandoffPhases
<1>3. rep.phase = outcome BY <1>1 DEF Replacement
<1>4. n \in Status /\ n.rep = rep
  BY <1>1 DEF Status, Replacement, ReplacementPhases
<1>. HIDE DEF n, rep
<1>5. Closed(n.rep) BY <1>3, <1>4 DEF Closed, HandoffPhases
<1>. QED BY <1>2, <1>4, <1>5, FailDeploymentGood DEF EndTransaction, n

LEMMA DeactivationGood ==
  ASSUME Consistent, NEW d \in Deployments, NEW s \in Status, RepGood(d, s.rep),
         ServiceShouldDetach(d), ~Terminal(d), NEW drained \in BOOLEAN
  PROVE  Deactivation(d, s, drained) \in Update(d)
<1>. DEFINE started == IF s.drain = "Nil" THEN "Running" ELSE s.drain
            next == IF drained \/ started = "Elapsed" THEN "Deactivating" ELSE "Draining"
            n1 == [s EXCEPT !.drain = started, !.phase = next]
            n2 == [s EXCEPT !.drain = "Running", !.phase = "Draining"]
            n3 == [s EXCEPT !.drain = "Nil", !.phase = "Cached", !.node = NoNode]
<1>1. started \in {"Nil", "Running", "Elapsed"} BY DEF Status
<1>2. next \in {"Deactivating", "Draining"} OBVIOUS
<1>3. n1 \in Status /\ n1.phase = next /\ n1.rep = s.rep
  <2>. HIDE DEF started, next
  <2>. QED BY <1>1, <1>2 DEF Status, Phases
<1>4. n2 \in Status /\ n2.phase = "Draining" /\ n2.rep = s.rep
  BY DEF Status, Phases
<1>5. n3 \in Status /\ n3.phase = "Cached" /\ n3.rep = s.rep
  BY DEF Status, Phases
<1>6. ASSUME NEW n \in Status, n.rep = s.rep,
             n.phase \in {"Deactivating", "Draining", "Cached"}
      PROVE  PatchStatus(d, n) \in Update(d)
  <2>1. Fine(d, n) BY <1>6 DEF Fine, Current, FailureClosed, DrainingKnown
  <2>. QED BY <2>1, PatchStatusGood
<1>7. /\ PatchStatus(d, n1) \in Update(d)
      /\ PatchStatus(d, n2) \in Update(d)
      /\ PatchStatus(d, n3) \in Update(d)
      /\ s.phase = "Deactivating" => PatchStatus(d, s) \in Update(d)
  <2>. HIDE DEF started, next, n1, n2, n3
  <2>. QED BY <1>2, <1>3, <1>4, <1>5, <1>6
<1>. QED BY <1>7, DeleteWorkloadGood, UpdateConcat DEF Deactivation

-----------------------------------------------------------------------------
(* Every decision of a reconcile plans good writes.                        *)

LEMMA ReconcileFailedGood ==
  ASSUME Consistent, NEW d \in Deployments, ReconcileFailed(d)
  PROVE  Planned(d, todo')
<1>. DEFINE s == Validated(d)
            release == s.blocked /\ s.rep.target # NoDep
            n == [s EXCEPT !.node = NoNode,
                           !.rep = IF release THEN NoReplacement ELSE @]
            w1 == IF release THEN Release(s.rep.target, d) ELSE <<>>
            w2 == IF d \in svc THEN <<[op |-> "Detach", d |-> d]>> ELSE <<>>
            w3 == IF RuntimeExists(d) /\ d \notin terminating
                    THEN <<[op |-> "Delete", d |-> d]>> ELSE <<>>
<1>1. /\ s \in Status /\ s.phase = "Failed" /\ RepGood(d, s.rep)
      /\ Terminal(d)
  BY ValidatedKnown DEF ReconcileFailed, Terminal
<1>2. /\ n \in Status /\ n.phase = "Failed"
      /\ n.rep = IF release THEN NoReplacement ELSE s.rep
  <2>. HIDE DEF s
  <2>. QED BY <1>1, NoReplacementType DEF Status
<1>3. ~s.blocked => s.rep = st[d].rep /\ st[d].phase = "Failed"
  <2>1. st[d] \in Status BY DEF Consistent, TypeOK
  <2>. QED BY <1>1, <2>1 DEF Validated, Status
<1>4. ~release => Closed(s.rep)
  <2>1. FailureClosed(st[d]) BY DEF Consistent, Sound
  <2>. HIDE DEF s
  <2>. QED BY <1>3, <2>1 DEF FailureClosed, Closed
<1>5. PatchStatus(d, n) \in Update(d)
  <2>1. Closed(NoReplacement) BY DEF Closed, NoReplacement
  <2>2. Fine(d, n)
    <3>. HIDE DEF s, n
    <3>. QED BY <1>1, <1>2, <1>4, <2>1, NoReplacementGood
             DEF Fine, Current, FailureClosed, DrainingKnown
  <2>. HIDE DEF s, n
  <2>. QED BY <2>2, PatchStatusGood
<1>6. w1 \in Seq(Plain(d))
  <2>. HIDE DEF s
  <2>. QED BY ReleaseGood, PlainEmpty
<1>7. w2 \in Seq(Plain(d)) /\ w3 \in Seq(Plain(d))
  BY PlainGood, PlainEmpty
<1>8. todo' = w1 \o w2 \o w3 \o PatchStatus(d, n)
  BY DEF ReconcileFailed
<1>. HIDE DEF n, w1, w2, w3
<1>9. todo' \in Update(d) BY <1>5, <1>6, <1>7, <1>8, PlainConcat, UpdateConcat
<1>. QED BY <1>1, <1>9, TerminalPlanned

LEMMA ReconcileCacheCreatedGood ==
  ASSUME Consistent, NEW d \in Deployments, ReconcileCacheCreated(d)
  PROVE  Planned(d, todo')
<1>. DEFINE n == [Validated(d) EXCEPT !.phase = "Pending"]
<1>1. n \in Status /\ n.phase = "Pending" /\ n.rep = Validated(d).rep
  BY ValidatedKnown DEF Status, Phases
<1>2. RepGood(d, Validated(d).rep) BY ValidatedKnown
<1>3. PatchStatus(d, n) \in Update(d)
  <2>. HIDE DEF n
  <2>. QED BY <1>1, <1>2, FineByPhase, PatchStatusGood
<1>4. <<[op |-> "CreateCache", d |-> d]>> \in Seq(Plain(d)) BY PlainGood
<1>. QED BY <1>3, <1>4, EnsureServiceBegun, BegunConcat, PlannedConcat
     DEF ReconcileCacheCreated

LEMMA ReconcileCacheNotReadyGood ==
  ASSUME Consistent, NEW d \in Deployments, ReconcileCacheNotReady(d)
  PROVE  Planned(d, todo')
<1>. DEFINE s == Validated(d)
            requester == s.rep.target # NoDep
            given == [s EXCEPT !.node = NoNode,
                               !.rep = IF requester THEN NoReplacement ELSE @]
            n == [given EXCEPT !.phase = cache[d], !.cacheFailed = cache[d] = "Failed"]
            w1 == IF requester THEN Release(s.rep.target, d) ELSE <<>>
            w2 == IF cache[d] = "Failed" /\ ~RuntimeExists(d)
                    THEN DetachService(d) ELSE <<>>
<1>1. /\ given \in Status
      /\ given.rep.target = NoDep /\ RepGood(d, given.rep)
  <2>1. s \in Status /\ RepGood(d, s.rep) BY ValidatedKnown
  <2>. HIDE DEF s
  <2>2. /\ given \in Status
        /\ given.rep = IF requester THEN NoReplacement ELSE s.rep
    BY <2>1, NoReplacementType DEF Status
  <2>3. NoReplacement.target = NoDep BY DEF NoReplacement
  <2>. HIDE DEF given
  <2>. QED BY <2>1, <2>2, <2>3, NoReplacementGood
<1>2. cache[d] \in {"Pending", "Downloading", "Failed"}
  BY DEF ReconcileCacheNotReady
<1>3. n \in Status /\ n.phase \in {"Pending", "Downloading", "Failed"} /\ n.rep = given.rep
  <2>. HIDE DEF given
  <2>. QED BY <1>1, <1>2 DEF Status, Phases
<1>4. PatchStatus(d, n) \in Update(d)
  <2>. HIDE DEF n, given
  <2>1. Fine(d, n)
    BY <1>1, <1>3 DEF Fine, Current, FailureClosed, Closed, DrainingKnown
  <2>. QED BY <2>1, PatchStatusGood
<1>5. w1 \in Seq(Plain(d))
  <2>. HIDE DEF s
  <2>. QED BY ReleaseGood, PlainEmpty
<1>6. w2 \in Seq(Plain(d)) BY DetachServiceGood, PlainEmpty
<1>7. todo' = EnsureService(d) \o w1 \o DeleteWorkload(d) \o w2 \o PatchStatus(d, n)
  BY DEF ReconcileCacheNotReady
<1>. HIDE DEF n, w1, w2
<1>. QED BY <1>4, <1>5, <1>6, <1>7, EnsureServiceBegun, DeleteWorkloadGood, BegunConcat, PlannedConcat

(* A displaced deployment that is not asked back has its Service detached. *)
LEMMA ParticipantKnown ==
  ASSUME Consistent, NEW d \in Deployments, ParticipantHandled(d), CacheServes(d)
  PROVE  LET s == Validated(d)
         IN  /\ s \in Status /\ s.rep \in Replacement /\ RepGood(d, s.rep)
             /\ s.rep.by \in Deployments /\ s.rep.target = NoDep
             /\ ~Terminal(d)
             /\ st[s.rep.by].rep.phase \in {"Draining", "Activating"}
                  => ServiceShouldDetach(d)
<1>. DEFINE s == Validated(d)
<1>1. s \in Status /\ s.rep \in Replacement /\ RepGood(d, s.rep)
  BY ValidatedKnown DEF Status
<1>2. s.rep.by \in Deployments /\ st[s.rep.by].rep.target = d
  BY <1>1 DEF ParticipantHandled, ClaimLapsed, Replacement
<1>3. s.rep.target = NoDep
  BY <1>1, <1>2, ConstantsAssumption DEF RepGood, OneRole
<1>4. ServiceShouldDetach(d) \/ s.rep.phase = "RollingBack"
  BY <1>2, ConstantsAssumption DEF ServiceShouldDetach
<1>5. st[s.rep.by].rep.phase \in {"Draining", "Activating"} => s.rep.phase # "RollingBack"
  <2>. HIDE DEF s
  <2>. QED BY <1>1, <1>2 DEF RepGood, Agree
<1>. QED BY <1>1, <1>2, <1>3, <1>4, <1>5 DEF CacheServes

LEMMA ParticipantDrainGood ==
  ASSUME Consistent, NEW d \in Deployments, ParticipantDrain(d)
  PROVE  Planned(d, todo')
<1>. DEFINE s == Validated(d)
            requested == st[s.rep.by].rep.phase
            phase == IF requested = "Draining" THEN "Draining" ELSE s.rep.phase
            rep == [s.rep EXCEPT !.phase = phase]
            n == [s EXCEPT !.rep.phase = IF requested = "Draining" THEN "Draining" ELSE @]
<1>1. /\ s \in Status /\ s.rep \in Replacement /\ RepGood(d, s.rep)
      /\ s.rep.target = NoDep
      /\ ~Terminal(d) /\ ServiceShouldDetach(d)
  BY ParticipantKnown DEF ParticipantDrain
<1>2. rep \in Replacement /\ RepGood(d, rep)
  <2>1. requested = "Draining" => rep = [s.rep EXCEPT !.phase = "Draining"]
    OBVIOUS
  <2>2. requested # "Draining" => rep = s.rep
    <3>. HIDE DEF s, requested
    <3>. QED BY <1>1 DEF Replacement
  <2>. HIDE DEF s, requested
  <2>3. "Draining" \in ReplacementPhases BY DEF ReplacementPhases, HandoffPhases
  <2>4. /\ [s.rep EXCEPT !.phase = "Draining"] \in Replacement
        /\ RepGood(d, [s.rep EXCEPT !.phase = "Draining"])
    BY <1>1, <2>3, PhaseGood
  <2>. HIDE DEF rep
  <2>. QED BY <1>1, <2>1, <2>2, <2>4
<1>3. n \in Status /\ n.rep = rep
  <2>. HIDE DEF s, requested
  <2>. QED BY <1>1, <1>2 DEF Status
<1>4. PICK drained \in BOOLEAN : todo' = EnsureService(d) \o Deactivation(d, n, drained)
  BY DEF ParticipantDrain
<1>. HIDE DEF n, rep
<1>. QED BY <1>1, <1>2, <1>3, <1>4, EnsureServiceBegun, DeactivationGood, PlannedConcat

LEMMA ParticipantDisplacedGood ==
  ASSUME Consistent, NEW d \in Deployments, ParticipantDisplaced(d)
  PROVE  Planned(d, todo')
<1>. DEFINE s == Validated(d)
            rep == [s.rep EXCEPT !.phase = "Displaced"]
            n1 == [s EXCEPT !.rep.phase = "Displaced", !.phase = "Cached"]
            n2 == [s EXCEPT !.rep.phase = "Displaced", !.phase = "WaitingForGPU",
                            !.node = NoNode]
<1>1. s \in Status /\ s.rep \in Replacement /\ RepGood(d, s.rep)
  BY ParticipantKnown DEF ParticipantDisplaced
<1>2. rep \in Replacement /\ RepGood(d, rep) /\ rep.phase = "Displaced"
  <2>. HIDE DEF s
  <2>1. "Displaced" \in ReplacementPhases BY DEF ReplacementPhases
  <2>2. rep.phase = "Displaced" BY <1>1 DEF Replacement
  <2>. QED BY <1>1, <2>1, <2>2, PhaseGood
<1>3. /\ n1 \in Status /\ n1.rep = rep /\ n1.phase = "Cached"
      /\ n2 \in Status /\ n2.rep = rep /\ n2.phase = "WaitingForGPU"
  <2>. HIDE DEF s
  <2>. QED BY <1>1 DEF Status, Phases, Replacement, ReplacementPhases
<1>4. Fine(d, n1) /\ Fine(d, n2)
  <2>. HIDE DEF n1, n2, rep
  <2>. QED BY <1>2, <1>3 DEF Fine, Current, FailureClosed, DrainingKnown
<1>5. PatchStatus(d, n1) \in Update(d) /\ PatchStatus(d, n2) \in Update(d)
  <2>. HIDE DEF n1, n2
  <2>. QED BY <1>4, PatchStatusGood
<1>6. \/ todo' = EnsureService(d) \o PatchStatus(d, n1)
      \/ todo' = EnsureService(d) \o PatchStatus(d, n2)
  BY DEF ParticipantDisplaced
<1>. HIDE DEF n1, n2
<1>. QED BY <1>5, <1>6, EnsureServiceBegun, PlannedConcat

(* A requester that is handled has a target and a good replacement.        *)
LEMMA RequesterKnown ==
  ASSUME Consistent, NEW d \in Deployments, RequesterReads(d)
  PROVE  LET s == AfterParticipant(d)
         IN  /\ s \in Status /\ RepGood(d, s.rep)
             /\ s.rep.target # NoDep /\ s.rep = st[d].rep
             /\ FailureClosed(s) /\ DrainingKnown(d, s)
<1>. DEFINE s == AfterParticipant(d)
            v == Validated(d)
<1>1. s \in Status /\ RepGood(d, s.rep) /\ s.phase = v.phase
  BY AfterParticipantKnown
<1>2. s.rep.target # NoDep /\ ~Terminal(d)
  BY DEF RequesterReads, RequesterHandled, CacheServes
<1>3. s.rep = st[d].rep /\ s.rep = v.rep BY <1>2, AfterParticipantKnown
<1>4. FailureClosed(v) /\ DrainingKnown(d, v)
  BY <1>2, ValidatedKnown DEF DrainingKnown
<1>. HIDE DEF s, v
<1>5. FailureClosed(s) /\ DrainingKnown(d, s)
  BY <1>1, <1>3, <1>4 DEF FailureClosed, DrainingKnown
<1>. QED BY <1>1, <1>2, <1>3, <1>5 DEF s

LEMMA RequesterCancelGood ==
  ASSUME Consistent, NEW d \in Deployments, RequesterCancel(d)
  PROVE  Planned(d, todo')
<1>. DEFINE s == AfterParticipant(d)
            n == [s EXCEPT !.rep = NoReplacement, !.node = NoNode,
                           !.phase = "WaitingForGPU"]
<1>1. n \in Status /\ n.rep = NoReplacement /\ n.phase = "WaitingForGPU"
  BY AfterParticipantKnown, NoReplacementType DEF Status, Phases
<1>2. PatchStatus(d, n) \in Update(d)
  <2>. HIDE DEF n
  <2>1. Fine(d, n)
    BY <1>1, NoReplacementGood, SMTT(60)
       DEF Fine, Current, FailureClosed, DrainingKnown, NoReplacement
  <2>. QED BY <2>1, PatchStatusGood
<1>3. todo' = EnsureService(d) \o Release(s.rep.target, d) \o PatchStatus(d, n)
  BY DEF RequesterCancel
<1>4. Release(s.rep.target, d) \in Seq(Plain(d)) BY ReleaseGood
<1>. HIDE DEF s, n
<1>. QED BY <1>2, <1>3, <1>4, EnsureServiceBegun, BegunConcat, PlannedConcat

LEMMA RequesterWithdrawGood ==
  ASSUME Consistent, NEW d \in Deployments, RequesterWithdraw(d)
  PROVE  Planned(d, todo')
<1>1. BeginRollback(d, AfterParticipant(d)) \in Update(d)
  BY RequesterKnown, BeginRollbackGood DEF RequesterWithdraw
<1>. QED BY <1>1, EnsureServiceBegun, PlannedConcat DEF RequesterWithdraw

LEMMA RequesterTargetLostGood ==
  ASSUME Consistent, NEW d \in Deployments, RequesterTargetLost(d)
  PROVE  Planned(d, todo')
<1>. DEFINE s == AfterParticipant(d)
            t == s.rep.target
            w == IF TargetLost(d, t) THEN <<>> ELSE Release(t, d)
<1>1. w \in Seq(Plain(d)) BY ReleaseGood, PlainEmpty
<1>2. EndTransaction(d, s, "RollbackFailed") \in Update(d)
  BY RequesterKnown, EndTransactionGood DEF RequesterTargetLost
<1>3. todo' = EnsureService(d) \o w \o EndTransaction(d, s, "RollbackFailed")
  BY DEF RequesterTargetLost
<1>. HIDE DEF s, t, w
<1>. QED BY <1>1, <1>2, <1>3, EnsureServiceBegun, BegunConcat, PlannedConcat

(* Not withdrawn, so the recorded generation is the current one.           *)
LEMMA RequesterWaitGood ==
  ASSUME Consistent, NEW d \in Deployments, RequesterWait(d)
  PROVE  Planned(d, todo')
<1>. DEFINE s == AfterParticipant(d)
            t == s.rep.target
            n == [s EXCEPT !.phase = "WaitingForGPU"]
            w == IF TargetMarkable(t) THEN MarkTarget(t, d) ELSE <<>>
<1>1. s \in Status /\ RepGood(d, s.rep) BY AfterParticipantKnown
<1>2. t \in Deployments /\ t # d
  <2>1. t \in Deployments BY DEF RequesterWait, TargetLost, Consistent, TypeOK
  <2>. QED BY <1>1, <2>1 DEF RepGood, OneRole
<1>3. n \in Status /\ n.rep = s.rep /\ n.phase = "WaitingForGPU"
  <2>. HIDE DEF s
  <2>. QED BY <1>1 DEF Status, Phases
<1>4. s.rep.gen = gen[d] BY DEF RequesterWait, RequestWithdrawn
<1>5. PatchStatus(d, n) \in Update(d)
  <2>. HIDE DEF s, n
  <2>1. Fine(d, n)
    BY <1>1, <1>3, <1>4 DEF Fine, Current, FailureClosed, DrainingKnown
  <2>. QED BY <2>1, PatchStatusGood
<1>6. w \in Seq(Plain(d))
  <2>. HIDE DEF t
  <2>. QED BY <1>2, MarkTargetGood, PlainEmpty
<1>7. todo' = EnsureService(d) \o w \o PatchStatus(d, n) BY DEF RequesterWait
<1>. HIDE DEF n, w
<1>. QED BY <1>5, <1>6, <1>7, EnsureServiceBegun, BegunConcat, PlannedConcat

LEMMA RollbackTargetGoneGood ==
  ASSUME Consistent, NEW d \in Deployments, RollbackTargetGone(d)
  PROVE  Planned(d, todo')
<1>. DEFINE s == AfterParticipant(d)
<1>1. EndTransaction(d, s, "RollbackFailed") \in Update(d)
  BY RequesterKnown, EndTransactionGood DEF RollbackTargetGone, RollbackReads
<1>2. Release(s.rep.target, d) \in Seq(Plain(d)) BY ReleaseGood
<1>3. todo' = EnsureService(d) \o Release(s.rep.target, d)
                \o EndTransaction(d, s, "RollbackFailed")
  BY DEF RollbackTargetGone
<1>. HIDE DEF s
<1>. QED BY <1>1, <1>2, <1>3, EnsureServiceBegun, BegunConcat, PlannedConcat

LEMMA RollbackStopsRuntimeGood ==
  ASSUME Consistent, NEW d \in Deployments, RollbackStopsRuntime(d)
  PROVE  Planned(d, todo')
<1>. DEFINE s == AfterParticipant(d)
<1>1. RequesterReads(d) /\ s.rep.phase = "RollingBack"
  BY DEF RollbackStopsRuntime, RollbackReads
<1>2. PatchStatus(d, s) \in Update(d)
  <2>1. Fine(d, s) BY <1>1, RequesterKnown DEF Fine, Current
  <2>. HIDE DEF s
  <2>. QED BY <2>1, PatchStatusGood
<1>3. todo' = EnsureService(d) \o DeleteWorkload(d) \o PatchStatus(d, s)
  BY DEF RollbackStopsRuntime
<1>. HIDE DEF s
<1>. QED BY <1>2, <1>3, EnsureServiceBegun, DeleteWorkloadGood, BegunConcat, PlannedConcat

LEMMA RollbackResumesGood ==
  ASSUME Consistent, NEW d \in Deployments, RollbackResumes(d)
  PROVE  Planned(d, todo')
<1>. DEFINE s == AfterParticipant(d)
            t == s.rep.target
            n == [s EXCEPT !.phase = "Deactivating"]
            request == IF st[t].rep.phase = "RollingBack" THEN <<>>
                       ELSE <<[op |-> "RollBack", d |-> t, by |-> d]>>
            release == <<[op |-> "Release", d |-> t, by |-> d]>>
            failed == EndTransaction(d, s, "RollbackFailed")
            restored == EndTransaction(d, s, "RolledBack")
<1>1. t \in Deployments BY DEF RollbackResumes, Consistent, TypeOK
<1>2. /\ s \in Status /\ RepGood(d, s.rep)
      /\ s.rep.phase = "RollingBack" /\ s.rep = st[d].rep /\ s.rep.target # NoDep
  BY RequesterKnown DEF RollbackResumes, RollbackReads
<1>3. PatchStatus(d, n) \in Update(d)
  <2>1. n \in Status /\ n.phase = "Deactivating" /\ n.rep = s.rep
    <3>. HIDE DEF s
    <3>. QED BY <1>2 DEF Status, Phases
  <2>. HIDE DEF n, s
  <2>. QED BY <1>2, <2>1, FineByPhase, PatchStatusGood
<1>4. release \in Seq(Plain(d))
  <2>. HIDE DEF t
  <2>. QED BY <1>1, TargetGood
<1>5. failed \in Update(d)
  BY <1>2, EndTransactionGood
<1>6. ~OwnedByOther(t, d) => request \in Seq(Plain(d))
  <2>1. t # d /\ st[d].rep.phase = "RollingBack" /\ st[d].rep.target = t
    BY <1>2 DEF RepGood, OneRole
  <2>2. st[t].rep.by = d => st[t].rep.target = NoDep
    <3>1. OneRole(t, st[t].rep) BY <1>1 DEF Consistent, Sound
    <3>. HIDE DEF t
    <3>. QED BY <3>1, ConstantsAssumption DEF OneRole
  <2>3. ~OwnedByOther(t, d) => st[t].rep.target = NoDep
    <3>. HIDE DEF t
    <3>. QED BY <2>2, SMTT(60) DEF OwnedByOther, NoReplacement
  <2>. HIDE DEF t
  <2>4. ~OwnedByOther(t, d) => [op |-> "RollBack", d |-> t, by |-> d] \in Plain(d)
    BY <1>1, <2>1, <2>3 DEF Plain, Good, Write
  <2>. QED BY <2>4, PlainEmpty, SMTT(60)
<1>7. ~OwnedByOther(t, d) /\ st[t].phase = "Active" => restored \in Update(d)
  <2>1. ~OwnedByOther(t, d) /\ st[t].phase = "Active" => Restorable(d)
    BY DEF Restorable, RollbackResumes
  <2>. HIDE DEF s, t
  <2>. QED BY <1>2, <2>1, EndTransactionGood
<1>8. \/ todo' = EnsureService(d) \o failed
      \/ /\ ~OwnedByOther(t, d) /\ st[t].phase = "Active"
         /\ todo' = EnsureService(d) \o (request \o release \o restored)
      \/ /\ ~OwnedByOther(t, d)
         /\ todo' = EnsureService(d) \o (request \o release \o failed)
      \/ /\ ~OwnedByOther(t, d)
         /\ todo' = EnsureService(d) \o (request \o PatchStatus(d, n))
  <2>. HIDE DEF request, release, failed, restored, n
  <2>. QED BY DEF RollbackResumes, request, release, failed, restored, n
<1>. HIDE DEF n, request, release, failed, restored, t
<1>9. ~OwnedByOther(t, d) =>
        /\ request \o release \in Seq(Plain(d))
        /\ request \o PatchStatus(d, n) \in Update(d)
  BY <1>3, <1>4, <1>6, PlainConcat, UpdateConcat
<1>10. ~OwnedByOther(t, d) =>
        /\ request \o release \o failed \in Update(d)
        /\ st[t].phase = "Active" => request \o release \o restored \in Update(d)
  BY <1>5, <1>7, <1>9, PlainConcat, UpdateConcat
<1>. QED BY <1>5, <1>8, <1>9, <1>10, EnsureServiceBegun, PlannedConcat

LEMMA ReconcileInactiveGood ==
  ASSUME Consistent, NEW d \in Deployments, ReconcileInactive(d)
  PROVE  Planned(d, todo')
<1>. DEFINE t == AfterParticipant(d).rep.target
            w == IF t # NoDep THEN Release(t, d) ELSE <<>>
<1>1. w \in Seq(Plain(d))
  <2>. HIDE DEF t
  <2>. QED BY ReleaseGood, PlainEmpty
<1>2. PICK drained \in BOOLEAN :
        todo' = EnsureService(d) \o w \o Deactivation(d, AfterRequester(d), drained)
  BY DEF ReconcileInactive
<1>3. ServiceShouldDetach(d) /\ ~Terminal(d)
  BY DEF ReconcileInactive, ServiceShouldDetach, Proceeds, CacheServes
<1>4. Deactivation(d, AfterRequester(d), drained) \in Update(d)
  BY <1>3, AfterRequesterKnown, DeactivationGood
<1>. HIDE DEF w
<1>. QED BY <1>1, <1>2, <1>4, EnsureServiceBegun, BegunConcat, PlannedConcat

(* Past the requester's stage an open handoff is Activating and current.   *)
LEMMA ActivationCurrent ==
  ASSUME Consistent, NEW d \in Deployments, Activates(d)
  PROVE  LET s == ActivationStatus(d)
         IN  /\ s \in Status /\ RepGood(d, s.rep)
             /\ s.rep.target = NoDep \/ s.rep.phase \notin {"Draining", "RollingBack"}
             /\ InHandoff(s) => s.rep.gen = gen[d]
             /\ ~InHandoff(s) => Closed(s.rep)
             /\ st[d].rep.target # NoDep => st[d].rep.phase # "RollingBack"
<1>. DEFINE p == AfterParticipant(d)
            s == ActivationStatus(d)
<1>1. p \in Status /\ s \in Status /\ p.rep \in Replacement
  BY AfterParticipantType, ActivationStatusType DEF Consistent, Status
<1>2. WantsActive(d) /\ ~RequesterHandled(d) BY DEF Activates, Proceeds
<1>3. s.rep = AfterRequester(d).rep
  BY AfterRequesterKnown DEF ActivationStatus, Status
<1>4. RepGood(d, s.rep) BY <1>3, AfterRequesterKnown
<1>5. /\ s.rep.target = NoDep \/ s.rep.phase \notin {"Draining", "RollingBack"}
      /\ InHandoff(s) => s.rep.gen = gen[d]
  <2>1. CASE p.rep.target = NoDep
    BY <1>1, <1>3, <2>1 DEF AfterRequester, InHandoff
  <2>2. CASE p.rep.target # NoDep /\ p.rep.phase = "Draining"
    <3>1. s.rep.phase = "Activating" /\ s.rep.gen = p.rep.gen
      BY <1>1, <1>2, <1>3, <2>2 DEF AfterRequester, Status, Replacement
    <3>2. p.rep.gen = gen[d] BY <1>2, <2>2 DEF RequesterHandled, RequestWithdrawn
    <3>. QED BY <1>1, <3>1, <3>2
  <2>3. CASE p.rep.target # NoDep /\ p.rep.phase # "Draining"
    <3>1. s.rep = p.rep BY <1>2, <1>3, <2>3 DEF AfterRequester
    <3>2. /\ p.rep.phase = "Activating" => p.rep.gen = gen[d]
          /\ p.rep.phase # "RollingBack"
      BY <1>2, <2>3 DEF RequesterHandled, RequestWithdrawn
    <3>. QED BY <1>1, <2>3, <3>1, <3>2 DEF InHandoff
  <2>. QED BY <2>1, <2>2, <2>3
<1>6. ~InHandoff(s) => Closed(s.rep)
  <2>. HIDE DEF s
  <2>. QED BY <1>5 DEF InHandoff, Closed, HandoffPhases
<1>7. st[d].rep.target # NoDep => st[d].rep.phase # "RollingBack"
  <2>. SUFFICES ASSUME st[d].rep.target # NoDep, st[d].rep.phase = "RollingBack"
                PROVE  FALSE
    OBVIOUS
  <2>1. st[d].phase # "Failed"
    <3>1. FailureClosed(st[d]) BY DEF Consistent, Sound
    <3>. QED BY <3>1 DEF FailureClosed, Closed
  <2>2. Validated(d).rep = st[d].rep BY <2>1, ValidatedKnown
  <2>3. st[d].rep.by = NoDep
    <3>1. OneRole(d, st[d].rep) BY DEF Consistent, Sound
    <3>. QED BY <3>1 DEF OneRole
  <2>4. p.rep = st[d].rep BY <2>2, <2>3 DEF AfterParticipant
  <2>. QED BY <1>2, <2>4 DEF RequesterHandled
<1>. QED BY <1>1, <1>4, <1>5, <1>6, <1>7

LEMMA CapacityRefusedGood ==
  ASSUME Consistent, NEW d \in Deployments, CapacityRefused(d)
  PROVE  Planned(d, todo')
<1>. DEFINE s == ActivationStatus(d)
            u == [s EXCEPT !.node = NoNode]
            n == [u EXCEPT !.phase = "WaitingForGPU"]
            queued == DeleteWorkload(d) \o PatchStatus(d, n)
<1>1. /\ s \in Status /\ RepGood(d, s.rep)
      /\ s.rep.target = NoDep \/ s.rep.phase \notin {"Draining", "RollingBack"}
      /\ ~InHandoff(s) => Closed(s.rep)
  BY ActivationCurrent DEF CapacityRefused
<1>2. /\ u \in Status /\ u.rep = s.rep
      /\ n \in Status /\ n.rep = s.rep /\ n.phase = "WaitingForGPU"
  <2>. HIDE DEF s
  <2>. QED BY <1>1 DEF Status, Phases
<1>. HIDE DEF s, u, n
<1>3. ~InHandoff(s) => queued \in Update(d)
  <2>1. ~InHandoff(s) => Fine(d, n)
    BY <1>1, <1>2 DEF Fine, Current, InHandoff, FailureClosed, DrainingKnown
  <2>. QED BY <2>1, PatchStatusGood, DeleteWorkloadGood, PlainConcat, UpdateConcat
<1>4. \/ InHandoff(s) /\ todo' = EnsureService(d) \o BeginRollback(d, s)
      \/ ~InHandoff(s) /\ todo' = EnsureService(d) \o queued
      \/ ~InHandoff(s) /\ todo' = EnsureService(d) \o TearDownAndFail(d, u)
  <2>. HIDE DEF queued
  <2>. QED BY DEF CapacityRefused, queued, s, u, n
<1>5. InHandoff(s) => BeginRollback(d, s) \in Update(d)
  BY <1>1, BeginRollbackGood DEF InHandoff
<1>6. ~InHandoff(s) => TearDownAndFail(d, u) \in Update(d)
  BY <1>1, <1>2, TearDownAndFailGood
<1>. HIDE DEF queued
<1>. QED BY <1>3, <1>4, <1>5, <1>6, EnsureServiceBegun, PlannedConcat

LEMMA StartReplacementGood ==
  ASSUME Consistent, NEW d \in Deployments, StartReplacement(d)
  PROVE  Planned(d, todo')
<1>. DEFINE s == ActivationStatus(d)
            u == [s EXCEPT !.node = NoNode]
            rep(t) == [phase |-> "Draining", target |-> t, by |-> NoDep, gen |-> gen[d]]
            n(t) == [s EXCEPT !.phase = "WaitingForGPU", !.node = st[t].node,
                      !.rep = [phase |-> "Draining", target |-> t, by |-> NoDep,
                               gen |-> gen[d]]]
<1>1. /\ s \in Status /\ RepGood(d, s.rep)
      /\ Closed(s.rep)
      /\ st[d].rep.target # NoDep => st[d].rep.phase # "RollingBack"
  BY ActivationCurrent DEF StartReplacement
<1>2. CASE todo' = EnsureService(d) \o TearDownAndFail(d, u)
  <2>1. u \in Status /\ u.rep = s.rep
    <3>. HIDE DEF s
    <3>. QED BY <1>1 DEF Status
  <2>. HIDE DEF u, s
  <2>2. TearDownAndFail(d, u) \in Update(d) BY <1>1, <2>1, TearDownAndFailGood
  <2>. QED BY <1>2, <2>2, EnsureServiceBegun, PlannedConcat
<1>3. ASSUME NEW t \in FirstCandidates(d),
             todo' = EnsureService(d) \o DeleteWorkload(d) \o PatchStatus(d, n(t))
                       \o MarkTarget(t, d)
      PROVE  Planned(d, todo')
  <2>1. /\ t \in Deployments /\ t # d
        /\ CandidateAvailable(st[t].rep)
    BY DEF FirstCandidates, Candidates, Consistent, TypeOK
  <2>2. st[t] \in Status /\ gen[d] \in Nat BY <2>1 DEF Consistent, TypeOK
  <2>3. rep(t) \in Replacement
    BY <2>1, <2>2 DEF Replacement, ReplacementPhases, HandoffPhases
  <2>4. RepGood(d, rep(t))
    <3>1. st[t].rep.by = NoDep BY <2>1, SMTT(60) DEF CandidateAvailable, NoReplacement
    <3>2. /\ rep(t).phase = "Draining" /\ rep(t).target = t
          /\ rep(t).by = NoDep
      OBVIOUS
    <3>. HIDE DEF rep
    <3>3. OneRole(d, rep(t)) BY <2>1, <3>2 DEF OneRole
    <3>4. \A r \in Deployments : Agree(d, rep(t), r, st[r].rep) BY <3>2 DEF Agree
    <3>5. \A x \in Deployments : Agree(x, st[x].rep, d, rep(t))
      BY <3>1, <3>2, ConstantsAssumption DEF Agree
    <3>. QED BY <1>1, <3>2, <3>3, <3>4, <3>5 DEF RepGood
  <2>5. n(t) \in Status /\ n(t).rep = rep(t) /\ n(t).phase = "WaitingForGPU"
    <3>. HIDE DEF s
    <3>. QED BY <1>1, <2>2, <2>3 DEF Status, Phases
  <2>6. rep(t).gen = gen[d] OBVIOUS
  <2>7. PatchStatus(d, n(t)) \in Update(d)
    <3>. HIDE DEF n, rep
    <3>1. Fine(d, n(t))
      BY <2>4, <2>5, <2>6 DEF Fine, Current, FailureClosed, DrainingKnown
    <3>. QED BY <3>1, PatchStatusGood
  <2>8. MarkTarget(t, d) \in Seq(Plain(d)) BY <2>1, MarkTargetGood
  <2>. HIDE DEF n
  <2>. QED BY <1>3, <2>7, <2>8, EnsureServiceBegun, DeleteWorkloadGood, BegunConcat,
              PlannedConcat, PlannedMore
<1>. QED BY <1>2, <1>3 DEF StartReplacement

LEMMA NodeRefusedGood ==
  ASSUME Consistent, NEW d \in Deployments, NodeRefused(d)
  PROVE  Planned(d, todo')
<1>. DEFINE s == ActivationStatus(d)
            n == [s EXCEPT !.node = NoNode, !.phase = "WaitingForCapacity"]
<1>1. s \in Status /\ RepGood(d, s.rep)
  BY ActivationCurrent DEF NodeRefused
<1>2. n \in Status /\ n.phase = "WaitingForCapacity" /\ n.rep = s.rep
  <2>. HIDE DEF s
  <2>. QED BY <1>1 DEF Status, Phases
<1>3. PatchStatus(d, n) \in Update(d)
  <2>. HIDE DEF n, s
  <2>. QED BY <1>1, <1>2, FineByPhase, PatchStatusGood
<1>4. todo' = EnsureService(d) \o DeleteWorkload(d) \o PatchStatus(d, n)
  BY DEF NodeRefused
<1>. HIDE DEF n
<1>. QED BY <1>3, <1>4, EnsureServiceBegun, DeleteWorkloadGood, BegunConcat, PlannedConcat

(* A node and a spec that always fit are never refused here.               *)
LEMMA PreflightRefusedGood ==
  ASSUME Consistent, NEW d \in Deployments, PreflightRefused(d)
  PROVE  Planned(d, todo')
<1>. DEFINE p == ActivationStatus(d)
            s == [p EXCEPT !.node = NoNode]
            n == [s EXCEPT !.phase = "WaitingForCapacity"]
            queued == DeleteWorkload(d) \o PatchStatus(d, n)
<1>1. /\ p \in Status /\ RepGood(d, p.rep)
      /\ p.rep.target = NoDep \/ p.rep.phase # "RollingBack"
  BY ActivationCurrent DEF PreflightRefused, Admitted
<1>2. ~AlwaysFit
  <2>1. CacheNode[d] \in Nodes BY ConstantsAssumption
  <2>. QED BY <2>1 DEF PreflightRefused, Preflight, Consistent
<1>3. /\ s \in Status /\ s.rep = p.rep
      /\ n \in Status /\ n.rep = p.rep /\ n.phase = "WaitingForCapacity"
  <2>. HIDE DEF p
  <2>. QED BY <1>1 DEF Status, Phases
<1>4. \/ todo' = EnsureService(d) \o queued
      \/ todo' = EnsureService(d) \o TearDownAndFail(d, s)
  BY DEF PreflightRefused
<1>. HIDE DEF p, s, n
<1>5. queued \in Update(d)
  BY <1>1, <1>3, FineByPhase, PatchStatusGood, DeleteWorkloadGood, PlainConcat, UpdateConcat
<1>6. TearDownAndFail(d, s) \in Update(d)
  <2>1. Closed(s.rep) BY <1>1, <1>2, <1>3 DEF Closed
  <2>. QED BY <1>1, <1>3, <2>1, TearDownAndFailGood
<1>. HIDE DEF queued
<1>. QED BY <1>4, <1>5, <1>6, EnsureServiceBegun, PlannedConcat

LEMMA ActivateRuntimeGood ==
  ASSUME Consistent, NEW d \in Deployments, ActivateRuntime(d)
  PROVE  Planned(d, todo')
<1>. DEFINE p == ActivationStatus(d)
            s == [p EXCEPT !.node = CacheNode[d]]
            starting == PatchStatus(d, [s EXCEPT !.phase = "Activating"])
            apply == <<[op |-> "Apply", d |-> d]>>
            ready == [s EXCEPT !.phase = "Active",
                       !.rep.phase = IF InHandoff(s) THEN "Succeeded" ELSE @]
<1>1. /\ p \in Status /\ RepGood(d, p.rep) /\ p.rep \in Replacement
      /\ p.rep.target = NoDep \/ p.rep.phase \notin {"Draining", "RollingBack"}
      /\ InHandoff(p) => p.rep.gen = gen[d]
      /\ ~InHandoff(p) => Closed(p.rep)
  BY ActivationCurrent DEF ActivateRuntime, Admitted, Status
<1>2. CacheNode[d] \in Nodes BY ConstantsAssumption
<1>3. s \in Status /\ s.rep = p.rep /\ (InHandoff(s) <=> InHandoff(p))
  <2>. HIDE DEF p
  <2>. QED BY <1>1, <1>2 DEF Status, InHandoff
<1>. HIDE DEF p, s
<1>4. starting \in Update(d)
  <2>. DEFINE n == [s EXCEPT !.phase = "Activating"]
  <2>1. n \in Status /\ n.rep = p.rep /\ n.phase = "Activating"
    BY <1>3 DEF Status, Phases
  <2>. HIDE DEF n
  <2>2. Fine(d, n)
    BY <1>1, <2>1 DEF Fine, Current, InHandoff, FailureClosed, DrainingKnown
  <2>3. PatchStatus(d, n) \in Update(d) BY <2>2, PatchStatusGood
  <2>. QED BY <2>3 DEF n
<1>5. PatchStatus(d, ready) \in Update(d)
  <2>. DEFINE rep == [p.rep EXCEPT !.phase = "Succeeded"]
  <2>1. ready \in Status /\ ready.phase = "Active"
    BY <1>3, ZenonT(30) DEF Status, Phases, Replacement, ReplacementPhases
  <2>2. ready.rep = IF InHandoff(s) THEN rep ELSE p.rep
    BY <1>1, <1>3 DEF Status, Replacement
  <2>3. RepGood(d, rep)
    <3>1. "Succeeded" \in ReplacementPhases BY DEF ReplacementPhases
    <3>. QED BY <1>1, <3>1, PhaseGood
  <2>. HIDE DEF ready, rep
  <2>4. RepGood(d, ready.rep) BY <1>1, <2>2, <2>3
  <2>. QED BY <2>1, <2>4, FineByPhase, PatchStatusGood
<1>6. apply \in Seq(Plain(d)) BY PlainGood
<1>7. wl[d] \in {"None", "Starting", "Ready", "Stalled"} BY DEF Consistent, TypeOK, Workload
<1>8. \/ todo' = EnsureService(d) \o (apply \o starting)
      \/ todo' = EnsureService(d) \o starting
      \/ todo' = EnsureService(d) \o PatchStatus(d, ready)
      \/ InHandoff(s) /\ todo' = EnsureService(d) \o BeginRollback(d, s)
      \/ ~InHandoff(s) /\ todo' = EnsureService(d) \o FailDeployment(d, s)
  BY <1>7 DEF ActivateRuntime, s, p
<1>. HIDE DEF starting, apply, ready
<1>9. apply \o starting \in Update(d) BY <1>4, <1>6, PlainConcat, UpdateConcat
<1>10. InHandoff(s) => BeginRollback(d, s) \in Update(d)
  BY <1>1, <1>3, BeginRollbackGood DEF InHandoff
<1>11. ~InHandoff(s) => FailDeployment(d, s) \in Update(d)
  BY <1>1, <1>3, FailDeploymentGood
<1>12. \A w \in Update(d) : Planned(d, EnsureService(d) \o w)
  BY EnsureServiceBegun, PlannedConcat
<1>. QED BY <1>4, <1>5, <1>8, <1>9, <1>10, <1>11, <1>12

LEMMA ReconcilePlanGood ==
  ASSUME Consistent, NEW d \in Deployments, ReconcilePlan(d)
  PROVE  Planned(d, todo')
BY ReconcileFailedGood, ReconcileCacheCreatedGood, ReconcileCacheNotReadyGood,
   ParticipantDrainGood, ParticipantDisplacedGood, RequesterCancelGood,
   RequesterWithdrawGood, RequesterTargetLostGood, RequesterWaitGood,
   RollbackTargetGoneGood, RollbackStopsRuntimeGood, RollbackResumesGood,
   ReconcileInactiveGood, CapacityRefusedGood, StartReplacementGood,
   NodeRefusedGood, PreflightRefusedGood, ActivateRuntimeGood
   DEF ReconcilePlan

=============================================================================
