-------------------------- MODULE ModelCacheProofs --------------------------
(***************************************************************************)
(* Proofs about ModelCacheController for every value of its constants.     *)
(* Fresh reads (~Lagging) are a hypothesis of the theorems that need them; *)
(* with lagging ones the statements are false.                             *)
(***************************************************************************)
EXTENDS ModelCacheController, SumLemmas

(* A leaf that names no prover is one for Zenon.                           *)
USE Zenon

-----------------------------------------------------------------------------
(* The planner.                                                            *)

Saturated(x) == IF x > MaxInt64 THEN MaxInt64 ELSE x

(* The saturating additions of ReservedBytesByNode, in whatever order they *)
(* are done, stop at the largest int64 and nowhere else.                   *)
LEMMA SaturatingFold ==
  ASSUME NEW f, NEW S, IsFiniteSet(S), \A x \in S : f[x] \in Nat
  PROVE  FoldFunctionOnSet(AddSaturating, 0, f, S) = Saturated(SumFunctionOnSet(f, S))
<1> DEFINE Fn(g) == g = [s \in SUBSET S |->
                           IF s = {} THEN 0
                           ELSE AddSaturating(f[Pick(s)], g[s \ {Pick(s)}])]
           h == [s \in SUBSET S |-> Saturated(SumFunctionOnSet(f, s))]
<1>1. \A s \in SUBSET S : IsFiniteSet(s) /\ SumFunctionOnSet(f, s) \in Nat
  <2>. TAKE s \in SUBSET S
  <2>1. IsFiniteSet(s) BY FS_Subset
  <2>. QED BY <2>1, SumNat
<1>2. ASSUME NEW s \in SUBSET S
      PROVE  h[s] = IF s = {} THEN 0 ELSE AddSaturating(f[Pick(s)], h[s \ {Pick(s)}])
  <2>1. CASE s = {}
    BY <2>1, SumEmpty, PlannerAssumption, SMTT(60) DEF Saturated
  <2>2. CASE s # {}
    <3>. DEFINE u == s \ {Pick(s)}
                a == f[Pick(s)]
                t == SumFunctionOnSet(f, u)
    <3>1. Pick(s) \in s BY <2>2, PickIsElement
    <3>2. u \in SUBSET S /\ a \in Nat BY <3>1
    <3>3. t \in Nat BY <1>1, <3>2
    <3>4. SumFunctionOnSet(f, s) = a + t BY <1>1, <2>2, SumFirst
    <3>5. h[s] = Saturated(a + t) /\ h[u] = Saturated(t) BY <3>2, <3>4
    <3>. HIDE DEF a, t, h
    <3>6. Saturated(a + t) = AddSaturating(a, Saturated(t))
      BY <3>2, <3>3, PlannerAssumption, SMTT(60) DEF Saturated, AddSaturating
    <3>. QED BY <2>2, <3>5, <3>6 DEF a
  <2>. QED BY <2>1, <2>2
<1>3. Fn(h)
  <2>. HIDE DEF h
  <2>1. h = [s \in SUBSET S |-> h[s]] BY DEF h
  <2>. QED BY <1>2, <2>1
<1>4. ASSUME NEW g, Fn(g) PROVE g[S] = h[S]
  <2>. DEFINE Bad == {s \in SUBSET S : g[s] # h[s]}
  <2>1. SUFFICES ASSUME Bad # {} PROVE FALSE
    OBVIOUS
  <2>2. PICK s \in Bad : \A u \in SUBSET S : u \subseteq s /\ u # s => u \notin Bad
    <3>1. Bad \subseteq SUBSET S OBVIOUS
    <3>. HIDE DEF Bad
    <3>. QED BY <2>1, <3>1, SmallestSubset, SMTT(60)
  <2>3. g[s] = IF s = {} THEN 0 ELSE AddSaturating(f[Pick(s)], g[s \ {Pick(s)}])
    BY <1>4
  <2>. HIDE DEF h
  <2>4. s # {} BY <1>2, <2>2, <2>3
  <2>5. Pick(s) \in s BY <2>4, PickIsElement
  <2>6. g[s \ {Pick(s)}] = h[s \ {Pick(s)}] BY <2>2, <2>5
  <2>. QED BY <1>2, <2>2, <2>3, <2>4, <2>6
<1>5. FoldFunctionOnSet(AddSaturating, 0, f, S) = (CHOOSE g : Fn(g))[S]
  BY DEF FoldFunctionOnSet, MapThenFoldSet, Pick
<1>. HIDE DEF Fn, h
<1>6. Fn(CHOOSE g : Fn(g)) BY <1>3
<1>. QED BY <1>4, <1>5, <1>6 DEF h

Reserved(k) == [d \in Caches |-> ReservedSize(k[d])]
Reservers(k, c, n) == {d \in Caches \ {c} : Reserves(k[d]) /\ k[d].st.node = n}

LEMMA ReservedSum ==
  ASSUME NEW k \in [Caches -> CacheObject], NEW c, NEW n
  PROVE  /\ IsFiniteSet(Reservers(k, c, n)) /\ Reservers(k, c, n) \subseteq Caches
         /\ \A d \in Caches : Reserved(k)[d] \in Nat /\ k[d].st.size \in Nat
                             /\ k[d].st.size <= Reserved(k)[d]
         /\ SumFunctionOnSet(Reserved(k), Reservers(k, c, n)) \in Nat
         /\ ReservedBytesByNode(k, c, n)
              = Saturated(SumFunctionOnSet(Reserved(k), Reservers(k, c, n)))
<1>1. Reservers(k, c, n) \subseteq Caches BY DEF Reservers
<1>2. IsFiniteSet(Reservers(k, c, n)) BY <1>1, FS_Subset, PlannerAssumption
<1>3. ASSUME NEW d \in Caches
      PROVE  Reserved(k)[d] \in Nat /\ k[d].st.size \in Nat /\ k[d].st.size <= Reserved(k)[d]
  <2>1. k[d].st.size \in Nat /\ k[d].spec.size \in Nat BY DEF CacheObject, Status, Spec_
  <2>2. Reserved(k)[d] = IF k[d].st.size > 0 THEN k[d].st.size ELSE k[d].spec.size
    BY DEF Reserved, ReservedSize
  <2>. QED BY <2>1, <2>2, SMTT(60)
<1>4. \A d \in Reservers(k, c, n) : Reserved(k)[d] \in Nat BY <1>1, <1>3
<1>5. SumFunctionOnSet(Reserved(k), Reservers(k, c, n)) \in Nat
  BY <1>2, <1>4, SumNat
<1>6. ReservedBytesByNode(k, c, n)
        = FoldFunctionOnSet(AddSaturating, 0, Reserved(k), Reservers(k, c, n))
  BY DEF ReservedBytesByNode, Reserved, Reservers
<1>. QED BY <1>1, <1>2, <1>3, <1>4, <1>5, <1>6, SaturatingFold

LEMMA FreeType ==
  ASSUME NEW k \in [Caches -> CacheObject], NEW c, NEW n \in Nodes
  PROVE  Free(k, c, n) \in Int
<1>1. Capacity[n] \in Nat BY PlannerAssumption, SMTT(60)
<1>2. ReservedBytesByNode(k, c, n) \in Nat
  <2>. DEFINE t == SumFunctionOnSet(Reserved(k), Reservers(k, c, n))
  <2>1. t \in Nat /\ ReservedBytesByNode(k, c, n) = Saturated(t) BY ReservedSum
  <2>. HIDE DEF t
  <2>. QED BY <2>1, PlannerAssumption DEF Saturated
<1>. QED BY <1>1, <1>2, SMTT(60) DEF Free

Score(k, c, n) == IF HasExistingPlacement(k, c, n) THEN 1 ELSE 0

LEMMA RanksByScore ==
  ASSUME NEW k, NEW c, NEW m, NEW n
  PROVE  /\ Score(k, c, m) \in Nat
         /\ RanksBefore(k, c, m, n) <=>
              \/ Score(k, c, m) > Score(k, c, n)
              \/ /\ Score(k, c, m) = Score(k, c, n)
                 /\ \/ Free(k, c, m) > Free(k, c, n)
                    \/ Free(k, c, m) = Free(k, c, n) /\ NodeRank[m] <= NodeRank[n]
<1>1. 1 > 0 /\ ~(0 > 1) /\ ~(1 > 1) /\ ~(0 > 0) /\ 1 # 0 /\ 0 \in Nat /\ 1 \in Nat BY SMTT(60)
<1>2. CASE HasExistingPlacement(k, c, m) /\ HasExistingPlacement(k, c, n)
  BY <1>1, <1>2 DEF Score, RanksBefore
<1>3. CASE HasExistingPlacement(k, c, m) /\ ~HasExistingPlacement(k, c, n)
  BY <1>1, <1>3 DEF Score, RanksBefore
<1>4. CASE ~HasExistingPlacement(k, c, m) /\ HasExistingPlacement(k, c, n)
  BY <1>1, <1>4 DEF Score, RanksBefore
<1>5. CASE ~HasExistingPlacement(k, c, m) /\ ~HasExistingPlacement(k, c, n)
  <2>1. HasExistingPlacement(k, c, m) = HasExistingPlacement(k, c, n)
    BY <1>5 DEF HasExistingPlacement
  <2>2. Score(k, c, m) = 0 /\ Score(k, c, n) = 0 BY <1>5 DEF Score
  <2>. QED BY <1>1, <1>5, <2>1, <2>2 DEF RanksBefore
<1>. QED BY <1>2, <1>3, <1>4, <1>5

LEMMA RankOrder ==
  ASSUME NEW k \in [Caches -> CacheObject], NEW c,
         NEW l \in Nodes, NEW m \in Nodes, NEW n \in Nodes
  PROVE  /\ RanksBefore(k, c, m, n) \/ RanksBefore(k, c, n, m)
         /\ RanksBefore(k, c, l, m) /\ RanksBefore(k, c, m, n) => RanksBefore(k, c, l, n)
<1>1. /\ Score(k, c, l) \in Nat /\ Score(k, c, m) \in Nat /\ Score(k, c, n) \in Nat
      /\ Free(k, c, l) \in Int /\ Free(k, c, m) \in Int /\ Free(k, c, n) \in Int
      /\ NodeRank[l] \in Nat /\ NodeRank[m] \in Nat /\ NodeRank[n] \in Nat
  BY RanksByScore, FreeType, PlannerAssumption
<1>2. RanksBefore(k, c, m, n) \/ RanksBefore(k, c, n, m)
  BY <1>1, RanksByScore, SMTT(60)
<1>3. RanksBefore(k, c, l, m) /\ RanksBefore(k, c, m, n) => RanksBefore(k, c, l, n)
  BY <1>1, RanksByScore, SMTT(60)
<1>. QED BY <1>2, <1>3

(* rankNodes sorts: of some nodes one comes first.                         *)
LEMMA BestRanked ==
  ASSUME NEW k \in [Caches -> CacheObject], NEW c, NEW S \in SUBSET Nodes, S # {}
  PROVE  \E n \in S : \A m \in S : RanksBefore(k, c, n, m)
<1>. DEFINE First(T) == \E n \in T : \A m \in T : RanksBefore(k, c, n, m)
            Bad == {T \in SUBSET S : T # {} /\ ~First(T)}
<1>1. SUFFICES ASSUME Bad # {} PROVE FALSE
  OBVIOUS
<1>2. IsFiniteSet(S) BY FS_Subset, PlannerAssumption
<1>3. PICK T \in Bad : \A U \in SUBSET S : U \subseteq T /\ U # T => U \notin Bad
  <2>1. Bad \subseteq SUBSET S OBVIOUS
  <2>. HIDE DEF Bad
  <2>. QED BY <1>1, <1>2, <2>1, SmallestSubset, SMTT(60)
<1>4. PICK a \in T : TRUE OBVIOUS
<1>5. a \in Nodes /\ T \subseteq Nodes BY <1>4
<1>6. RanksBefore(k, c, a, a) BY <1>5, RankOrder
<1>7. CASE T = {a} BY <1>6, <1>7
<1>8. CASE T # {a}
  <2>1. T \ {a} # {} /\ T \ {a} \in SUBSET S /\ T \ {a} # T BY <1>4, <1>8
  <2>2. PICK x \in T \ {a} : \A y \in T \ {a} : RanksBefore(k, c, x, y)
    BY <1>3, <2>1
  <2>3. CASE RanksBefore(k, c, x, a) BY <2>2, <2>3
  <2>4. CASE RanksBefore(k, c, a, x)
    <3>1. \A y \in T \ {a} : RanksBefore(k, c, a, y)
      BY <1>5, <2>2, <2>4, RankOrder
    <3>. QED BY <1>4, <1>6, <3>1
  <2>. QED BY <1>5, <2>2, <2>3, <2>4, RankOrder
<1>. QED BY <1>7, <1>8

LEMMA PlanChosen ==
  ASSUME NEW k \in [Caches -> CacheObject], NEW c, NEW ns, PlanResult(k, c, ns) = "Placed"
  PROVE  \E n \in RankNodes(k, c, ns) :
           Plan(k, c, ns) = [node |-> n, uid |-> ns[n].uid, path |-> k[c].spec.path,
                             size |-> k[c].spec.size]
<1>. DEFINE ranked == RankNodes(k, c, ns)
            best == CHOOSE n \in ranked : \A m \in ranked : RanksBefore(k, c, n, m)
<1>1. ranked # {} BY DEF PlanResult
<1>2. ranked \in SUBSET Nodes BY DEF RankNodes, Candidates, FilterNodes
<1>3. best \in ranked BY <1>1, <1>2, BestRanked
<1>. QED BY <1>3 DEF Plan

-----------------------------------------------------------------------------
(* The statuses a reconcile writes.                                        *)

SameArtifact(s, t) ==
  /\ s.node = t.node /\ s.uid = t.uid /\ s.path = t.path /\ s.size = t.size
  /\ s.hash = t.hash

PlaceType == [node: Nodes, uid: Nat, path: Paths, size: Nat]

LEMMA HashIsSome == NoHash \notin Hash
<1>. SUFFICES ASSUME NoHash \in Hash PROVE FALSE
  OBVIOUS
<1>1. DOMAIN NoHash = {"rev", "path", "node", "uid", "size"} BY DEF Hash
<1>2. DOMAIN NoHash = {"rev"} BY DEF NoHash
<1>3. "path" \in DOMAIN NoHash /\ "path" # "rev" BY <1>1
<1>. QED BY <1>2, <1>3

LEMMA JobIsSome ==
  ASSUME NEW j \in Job
  PROVE  j # NoJob
<1>1. j.state \in {"Running", "Complete", "Failed"} BY DEF Job
<1>2. NoJob.state = "None" BY DEF NoJob
<1>. QED BY <1>1, <1>2

LEMMA PlaceIsSome ==
  ASSUME NEW n \in Nodes, NEW p
  PROVE  <<n, p>> # Nowhere
<1>1. n # NoNode BY PlannerAssumption
<1>. QED BY <1>1 DEF Nowhere

LEMMA GenStatus ==
  ASSUME NEW s \in Status, NEW g \in Nat
  PROVE  LET t == [s EXCEPT !.conds.gen = g]
         IN  /\ t \in Status /\ SameArtifact(t, s) /\ t.phase = s.phase
             /\ t.conds.placed = s.conds.placed /\ t.conds.downloaded = s.conds.downloaded
BY DEF Status, Conditions, SameArtifact

LEMMA PendingStatus ==
  ASSUME NEW o \in CacheObject, NEW r \in PendingReasons
  PROVE  LET t == SetPending(o, r)
         IN  /\ t \in Status /\ SameArtifact(t, o.st) /\ t.phase = "Pending"
             /\ t.conds.placed = Nowhere
             /\ t.conds.downloaded => o.st.conds.downloaded \/ o.st.phase = "Ready"
             /\ o.st.conds.downloaded => t.conds.downloaded
BY DEF CacheObject, SetPending, Status, Conditions, SameArtifact, CachePhases, Reasons, Place,
       Nowhere

LEMMA FailStatus ==
  ASSUME NEW s \in Status, NEW r \in {"SpecInvalid", "IdentityChanged", "DownloadFailed"}
  PROVE  LET t == Fail(s, r)
         IN  /\ t \in Status /\ SameArtifact(t, s) /\ t.phase = "Failed"
             /\ t.conds.downloaded => s.conds.downloaded /\ r # "SpecInvalid"
BY DEF Fail, Status, Conditions, SameArtifact, CachePhases, Reasons, Place, Nowhere

LEMMA ExpectedHashType ==
  ASSUME NEW o \in CacheObject, o.st.node \in Nodes, o.st.path \in Paths
  PROVE  LET h == ExpectedHash(o)
         IN  /\ h \in Hash
             /\ h.node = o.st.node /\ h.uid = o.st.uid /\ h.path = o.st.path
             /\ h.size = o.spec.size
BY DEF CacheObject, ExpectedHash, CacheInputHash, Status, Spec_, Hash

LEMMA ReadyStatus ==
  ASSUME NEW o \in CacheObject, o.st.node \in Nodes, o.st.path \in Paths
  PROVE  LET t == SetReady(o)
         IN  /\ t \in Status /\ t.phase = "Ready" /\ t.conds.downloaded
             /\ t.node = o.st.node /\ t.uid = o.st.uid /\ t.path = o.st.path
             /\ t.size = o.spec.size /\ t.hash = ExpectedHash(o)
<1>1. ExpectedHash(o) \in Hash BY ExpectedHashType
<1>2. o.st \in Status /\ o.spec.size \in Nat BY DEF CacheObject, Spec_
<1>3. <<o.st.node, o.st.path>> \in Place BY DEF Place
<1>. QED BY <1>1, <1>2, <1>3 DEF SetReady, Status, Conditions, CachePhases, Reasons

LEMMA RecordedStatus ==
  ASSUME NEW pl \in PlaceType
  PROVE  LET t == RecordPlacement(pl)
         IN  /\ t \in Status /\ t.phase = "Pending" /\ t.hash = NoHash
             /\ t.node = pl.node /\ t.uid = pl.uid /\ t.path = pl.path /\ t.size = pl.size
             /\ t.conds.placed # Nowhere /\ ~t.conds.downloaded
<1>1. pl.node \in Nodes /\ pl.uid \in Nat /\ pl.path \in Paths /\ pl.size \in Nat
  BY DEF PlaceType
<1>2. <<pl.node, pl.path>> \in Place BY <1>1 DEF Place
<1>3. RecordPlacement(pl) \in Status
  BY <1>1, <1>2 DEF RecordPlacement, Status, Conditions, CachePhases, Reasons
<1>4. RecordPlacement(pl).conds.placed # Nowhere
  BY <1>1, PlaceIsSome DEF RecordPlacement
<1>. QED BY <1>3, <1>4 DEF RecordPlacement

LEMMA ResetStatus ==
  ASSUME NEW o \in CacheObject
  PROVE  LET t == IdentityReset(o)
         IN  /\ t \in Status /\ t.phase = "Pending" /\ ~t.conds.downloaded
             /\ t.conds.placed = Nowhere /\ t.node = o.st.node /\ t.uid = o.st.uid
BY DEF IdentityReset, CacheObject, Status, Conditions, CachePhases, Reasons, Place, Nowhere

LEMMA DoneStatus ==
  ASSUME NEW s \in Status
  PROVE  LET t == [s EXCEPT !.phase = "Ready", !.conds.downloaded = TRUE, !.conds.ready = TRUE,
                            !.conds.reason = "CacheReady"]
         IN  /\ t \in Status /\ SameArtifact(t, s) /\ t.phase = "Ready" /\ t.conds.downloaded
             /\ t.conds.placed = s.conds.placed
BY DEF Status, Conditions, CachePhases, Reasons, SameArtifact

LEMMA RunningStatus ==
  ASSUME NEW s \in Status
  PROVE  LET t == [s EXCEPT !.phase = "Downloading", !.conds.reason = "DownloadRunning"]
         IN  /\ t \in Status /\ SameArtifact(t, s) /\ t.phase = "Downloading"
             /\ t.conds.downloaded = s.conds.downloaded /\ t.conds.placed = s.conds.placed
BY DEF Status, Conditions, CachePhases, Reasons, SameArtifact

LEMMA ProjectedStatus ==
  ASSUME NEW pl \in PlaceType, NEW j \in Job
  PROVE  LET t == ProjectJobStatus(pl, j)
         IN  /\ t \in Status
             /\ t.node = pl.node /\ t.uid = pl.uid /\ t.path = pl.path /\ t.size = pl.size
             /\ t.hash = j.hash
             /\ t.phase = IF j.state = "Complete" THEN "Ready"
                          ELSE IF j.state = "Failed" THEN "Failed" ELSE "Downloading"
             /\ t.conds.downloaded => j.state = "Complete"
             /\ j.state = "Complete" => t.conds.downloaded
             /\ t.conds.placed # Nowhere
<1>. DEFINE s == [RecordPlacement(pl) EXCEPT !.hash = j.hash]
<1>1. j.state \in {"Running", "Complete", "Failed"} /\ j.hash \in Hash BY DEF Job
<1>2. /\ s \in Status /\ s.node = pl.node /\ s.uid = pl.uid /\ s.path = pl.path
      /\ s.size = pl.size /\ s.hash = j.hash
      /\ s.conds.placed # Nowhere /\ ~s.conds.downloaded
  <2>. DEFINE r == RecordPlacement(pl)
  <2>1. /\ r \in Status /\ r.node = pl.node /\ r.uid = pl.uid /\ r.path = pl.path
        /\ r.size = pl.size /\ r.conds.placed # Nowhere /\ ~r.conds.downloaded
    BY RecordedStatus
  <2>2. s = [r EXCEPT !.hash = j.hash] OBVIOUS
  <2>. HIDE DEF r
  <2>. QED BY <1>1, <2>1, <2>2 DEF Status
<1>3. ProjectJobStatus(pl, j) =
        CASE j.state = "Complete" ->
               [s EXCEPT !.phase = "Ready", !.conds.downloaded = TRUE, !.conds.ready = TRUE,
                         !.conds.reason = "CacheReady"]
          [] j.state = "Failed"  -> Fail(s, "DownloadFailed")
          [] j.state = "Running" -> [s EXCEPT !.phase = "Downloading",
                                              !.conds.reason = "DownloadRunning"]
  BY DEF ProjectJobStatus
<1>. HIDE DEF s
<1>4. CASE j.state = "Complete"
  <2>1. ProjectJobStatus(pl, j) =
          [s EXCEPT !.phase = "Ready", !.conds.downloaded = TRUE, !.conds.ready = TRUE,
                    !.conds.reason = "CacheReady"]
    BY <1>3, <1>4
  <2>. DEFINE t == ProjectJobStatus(pl, j)
  <2>2. /\ t \in Status /\ SameArtifact(t, s) /\ t.phase = "Ready" /\ t.conds.downloaded
        /\ t.conds.placed = s.conds.placed
    BY <1>2, <2>1, DoneStatus
  <2>. HIDE DEF t
  <2>. QED BY <1>2, <1>4, <2>2 DEF t, SameArtifact
<1>5. CASE j.state = "Failed"
  <2>1. ProjectJobStatus(pl, j) = Fail(s, "DownloadFailed") BY <1>3, <1>5, SMTT(60)
  <2>2. Fail(s, "DownloadFailed").conds.placed = s.conds.placed
    BY <1>2 DEF Fail, Status, Conditions
  <2>. DEFINE t == Fail(s, "DownloadFailed")
  <2>3. /\ t \in Status /\ SameArtifact(t, s) /\ t.phase = "Failed"
        /\ ~t.conds.downloaded /\ t.conds.placed = s.conds.placed
    BY <1>2, <2>2, FailStatus
  <2>. HIDE DEF t
  <2>4. t.phase = IF j.state = "Complete" THEN "Ready"
                  ELSE IF j.state = "Failed" THEN "Failed" ELSE "Downloading"
    BY <1>5, <2>3
  <2>. QED BY <1>2, <1>5, <2>1, <2>3, <2>4 DEF t, SameArtifact
<1>6. CASE j.state = "Running"
  <2>1. ProjectJobStatus(pl, j) = [s EXCEPT !.phase = "Downloading",
                                            !.conds.reason = "DownloadRunning"]
    BY <1>3, <1>6, SMTT(60)
  <2>. DEFINE t == ProjectJobStatus(pl, j)
  <2>2. /\ t \in Status /\ SameArtifact(t, s) /\ t.phase = "Downloading"
        /\ t.conds.downloaded = s.conds.downloaded /\ t.conds.placed = s.conds.placed
    BY <1>2, <2>1, RunningStatus
  <2>. HIDE DEF t
  <2>3. t.phase = IF j.state = "Complete" THEN "Ready"
                  ELSE IF j.state = "Failed" THEN "Failed" ELSE "Downloading"
    BY <1>6, <2>2
  <2>. QED BY <1>2, <1>6, <2>2, <2>3 DEF t, SameArtifact
<1>. QED BY <1>1, <1>4, <1>5, <1>6

-----------------------------------------------------------------------------
(* The inductive invariant.  The nodes N, the disks D, the Job j and the   *)
(* ModelCaches o that a status is judged against are parameters, so that   *)
(* the lemmas can speak of the states before and after a step.             *)

IsNode(N, n, uid) == N[n].exists /\ N[n].uid = uid

(* A node that registers again gets a UID nobody has recorded.             *)
Recorded(N, uid) == \E n \in Nodes : uid <= N[n].uid

(* What a status says of a finished artifact is one piece: the hash is of  *)
(* the recorded place and size, the files are there as long as the node    *)
(* is, and the Job, if it still exists, is the one that made them.         *)
Finished(s, N, D, j) ==
  /\ s.node # NoNode /\ s.hash # NoHash
  /\ s.hash.node = s.node /\ s.hash.uid = s.uid
  /\ s.hash.path = s.path /\ s.hash.size = s.size
  /\ IsNode(N, s.node, s.uid) => D[s.node][s.path] = s.hash
  /\ j # NoJob => j.state = "Complete" /\ j.hash = s.hash

Sound(s, N, D, j) ==
  /\ s.phase = "Ready" => s.conds.downloaded
  /\ s.phase = "Downloading" => s.node # NoNode /\ s.conds.placed # Nowhere
  /\ s.node # NoNode => Recorded(N, s.uid)
  /\ s.conds.downloaded => Finished(s, N, D, j)

SoundJob(j, N, D) ==
  j # NoJob =>
    /\ Recorded(N, j.hash.uid)
    /\ j.state = "Complete" /\ IsNode(N, j.hash.node, j.hash.uid)
         => D[j.hash.node][j.hash.path] = j.hash

(* A cache with status s has been given its path.                          *)
HoldsPlace(s) ==
  /\ s.node # NoNode
  /\ s.conds.downloaded \/ (s.conds.placed # Nowhere /\ s.phase # "Failed")

Holders(o, n) == {d \in Caches : o[d].exists /\ HoldsPlace(o[d].st) /\ o[d].st.node = n}
Sizes(o) == [d \in Caches |-> o[d].st.size]

(* NoSharedPlacement and CapacityRespected, of the objects o.              *)
Fits(o) ==
  \A n \in Nodes :
    /\ \A c, d \in Holders(o, n) : c # d => o[c].st.path # o[d].st.path
    /\ SumFunctionOnSet(Sizes(o), Holders(o, n)) <= Capacity[n]

(* Cache c may be given the place of s.                                    *)
Room(c, s, o) ==
  HoldsPlace(s) =>
    /\ \A d \in Holders(o, s.node) \ {c} : o[d].st.path # s.path
    /\ SumFunctionOnSet(Sizes(o), Holders(o, s.node) \ {c}) + s.size <= Capacity[s.node]

(* The writes q that a reconcile has still to issue: the status comes last *)
(* and is written over the status that was read; a Job is made first, and  *)
(* only while no artifact is announced.                                    *)
Pending(q, o, N, D, J) ==
  \A k \in 1 .. Len(q) :
    /\ q[k].op = "PatchStatus" =>
         /\ k = Len(q)
         /\ q[k].base = o[q[k].c].st
         /\ Sound(q[k].new, N, D, J[q[k].c])
         /\ Room(q[k].c, q[k].new, o)
    /\ q[k].op = "CreateJob" =>
         /\ k = 1
         /\ SoundJob(q[k].job, N, D)
         /\ ~o[q[k].c].st.conds.downloaded
         /\ \A i \in 1 .. Len(q) :
              q[i].op = "PatchStatus" /\ q[i].c = q[k].c => ~q[i].new.conds.downloaded

IInv ==
  /\ TypeOK
  /\ view = obj
  /\ \A c \in Caches : Sound(obj[c].st, nodes, disk, job[c]) /\ SoundJob(job[c], nodes, disk)
  /\ Fits(obj)
  /\ Pending(todo, obj, nodes, disk, job)

-----------------------------------------------------------------------------
(* What the invariant says of the properties.                              *)

LEMMA HoldsIsHolder ==
  ASSUME NEW c \in Caches, NEW n
  PROVE  Holds(c) /\ obj[c].st.node = n <=> c \in Holders(obj, n)
BY DEF Holds, Holders, HoldsPlace

LEMMA FitsNoSharing ==
  ASSUME TypeOK, Fits(obj)
  PROVE  NoSharedPlacement
<1>. SUFFICES ASSUME NEW c \in Caches, NEW d \in Caches, c # d, Holds(c), Holds(d),
                     obj[c].st.node = obj[d].st.node
              PROVE  obj[c].st.path # obj[d].st.path
  BY DEF NoSharedPlacement
<1>1. obj[c].st.node \in Nodes BY DEF TypeOK, CacheObject, Status, Holds
<1>2. c \in Holders(obj, obj[c].st.node) /\ d \in Holders(obj, obj[c].st.node)
  BY HoldsIsHolder
<1>. QED BY <1>1, <1>2 DEF Fits

LEMMA FitsCapacity ==
  ASSUME Fits(obj)
  PROVE  CapacityRespected
<1>. SUFFICES ASSUME NEW n \in Nodes
              PROVE  SumFunctionOnSet([c \in Caches |-> obj[c].st.size],
                                      {c \in Caches : Holds(c) /\ obj[c].st.node = n})
                       <= Capacity[n]
  BY DEF CapacityRespected
<1>1. {c \in Caches : Holds(c) /\ obj[c].st.node = n} = Holders(obj, n)
  <2>1. Holders(obj, n) \subseteq Caches BY DEF Holders
  <2>. QED BY <2>1, HoldsIsHolder
<1>. QED BY <1>1 DEF Fits, Sizes

LEMMA SoundReady ==
  ASSUME TypeOK, \A c \in Caches : Sound(obj[c].st, nodes, disk, job[c])
  PROVE  ReadyOnDisk
BY DEF Sound, Finished, IsNode, NodeIs, ReadyOnDisk

-----------------------------------------------------------------------------
(* Places.                                                                 *)

LEMMA HoldersFinite ==
  ASSUME NEW o \in [Caches -> CacheObject], NEW n
  PROVE  /\ Holders(o, n) \subseteq Caches
         /\ \A T \in SUBSET Caches : IsFiniteSet(T) /\ SumFunctionOnSet(Sizes(o), T) \in Nat
         /\ \A d \in Caches : Sizes(o)[d] = o[d].st.size /\ Sizes(o)[d] \in Nat
<1>1. \A d \in Caches : Sizes(o)[d] = o[d].st.size /\ Sizes(o)[d] \in Nat
  BY DEF Sizes, CacheObject, Status
<1>2. ASSUME NEW T \in SUBSET Caches
      PROVE  IsFiniteSet(T) /\ SumFunctionOnSet(Sizes(o), T) \in Nat
  <2>1. IsFiniteSet(T) BY FS_Subset, PlannerAssumption
  <2>2. \A d \in T : Sizes(o)[d] \in Nat BY <1>1
  <2>. QED BY <2>1, <2>2, SumNat
<1>. QED BY <1>1, <1>2 DEF Holders

LEMMA SumGrows ==
  ASSUME NEW o \in [Caches -> CacheObject], NEW A, NEW B, A \subseteq B, B \subseteq Caches
  PROVE  SumFunctionOnSet(Sizes(o), A) <= SumFunctionOnSet(Sizes(o), B)
<1>1. IsFiniteSet(B) /\ \A d \in B : Sizes(o)[d] \in Nat
  <2>1. B \in SUBSET Caches OBVIOUS
  <2>. QED BY <2>1, HoldersFinite
<1>. QED BY <1>1, SumSubset

(* A cache that holds a place has room for it.                             *)
LEMMA HeldHasRoom ==
  ASSUME NEW o \in [Caches -> CacheObject], Fits(o), NEW c \in Caches, o[c].exists
  PROVE  Room(c, o[c].st, o)
<1>. DEFINE s == o[c].st
            H == Holders(o, s.node)
<1>. SUFFICES ASSUME HoldsPlace(s)
              PROVE  /\ \A d \in H \ {c} : o[d].st.path # s.path
                     /\ SumFunctionOnSet(Sizes(o), H \ {c}) + s.size <= Capacity[s.node]
  BY DEF Room
<1>1. s.node \in Nodes BY DEF HoldsPlace, CacheObject, Status
<1>2. c \in H BY DEF Holders
<1>3. /\ \A d \in H \ {c} : o[d].st.path # s.path
      /\ SumFunctionOnSet(Sizes(o), H) <= Capacity[s.node]
  BY <1>1, <1>2 DEF Fits
<1>4. H \in SUBSET Caches /\ H \ {c} \in SUBSET Caches BY HoldersFinite
<1>5. IsFiniteSet(H) /\ SumFunctionOnSet(Sizes(o), H \ {c}) \in Nat BY <1>4, HoldersFinite
<1>6. Sizes(o)[c] = s.size /\ \A d \in H : Sizes(o)[d] \in Int
  <2>1. \A d \in Caches : Sizes(o)[d] = o[d].st.size /\ Sizes(o)[d] \in Nat BY HoldersFinite
  <2>. QED BY <1>4, <2>1, SMTT(60)
<1>. HIDE DEF H, s
<1>7. SumFunctionOnSet(Sizes(o), H) = Sizes(o)[c] + SumFunctionOnSet(Sizes(o), H \ {c})
  BY <1>2, <1>5, <1>6, SumRemove, SMTT(60)
<1>8. Sizes(o)[c] \in Nat BY HoldersFinite
<1>. QED BY <1>3, <1>5, <1>6, <1>7, <1>8, SMTT(60)

(* Objects that are edited or go away make room.                           *)
Shrinks(o, p) == \A d \in Caches : p[d].st = o[d].st /\ (p[d].exists => o[d].exists)

LEMMA HoldersShrink ==
  ASSUME NEW o \in [Caches -> CacheObject], NEW p \in [Caches -> CacheObject], Shrinks(o, p)
  PROVE  /\ \A n : Holders(p, n) \subseteq Holders(o, n)
         /\ Sizes(p) = Sizes(o)
BY DEF Shrinks, Holders, Sizes

LEMMA FitsShrinks ==
  ASSUME NEW o \in [Caches -> CacheObject], NEW p \in [Caches -> CacheObject], Shrinks(o, p),
         Fits(o)
  PROVE  Fits(p)
<1>. SUFFICES ASSUME NEW n \in Nodes
              PROVE  /\ \A c, d \in Holders(p, n) : c # d => p[c].st.path # p[d].st.path
                     /\ SumFunctionOnSet(Sizes(p), Holders(p, n)) <= Capacity[n]
  BY DEF Fits
<1>1. Holders(p, n) \subseteq Holders(o, n) /\ Holders(o, n) \subseteq Caches /\ Sizes(p) = Sizes(o)
  BY HoldersShrink, HoldersFinite
<1>2. \A c, d \in Holders(p, n) : c # d => p[c].st.path # p[d].st.path
  BY <1>1 DEF Fits, Shrinks
<1>3. SumFunctionOnSet(Sizes(o), Holders(p, n)) <= SumFunctionOnSet(Sizes(o), Holders(o, n))
  BY <1>1, SumGrows
<1>4. /\ SumFunctionOnSet(Sizes(o), Holders(p, n)) \in Nat
      /\ SumFunctionOnSet(Sizes(o), Holders(o, n)) \in Nat
      /\ Capacity[n] \in Int
  BY <1>1, HoldersFinite, PlannerAssumption, SMTT(60)
<1>5. SumFunctionOnSet(Sizes(o), Holders(o, n)) <= Capacity[n] BY DEF Fits
<1>6. SumFunctionOnSet(Sizes(o), Holders(p, n)) <= Capacity[n] BY <1>3, <1>4, <1>5, SMTT(60)
<1>. QED BY <1>1, <1>2, <1>6

LEMMA RoomShrinks ==
  ASSUME NEW o \in [Caches -> CacheObject], NEW p \in [Caches -> CacheObject], Shrinks(o, p),
         NEW c \in Caches, NEW s \in Status, Room(c, s, o)
  PROVE  Room(c, s, p)
<1>. DEFINE A == Holders(p, s.node) \ {c}
            B == Holders(o, s.node) \ {c}
<1>. SUFFICES ASSUME HoldsPlace(s)
              PROVE  /\ \A d \in A : p[d].st.path # s.path
                     /\ SumFunctionOnSet(Sizes(p), A) + s.size <= Capacity[s.node]
  BY DEF Room
<1>1. s.node \in Nodes /\ s.size \in Nat BY DEF HoldsPlace, Status
<1>2. A \subseteq B /\ B \subseteq Caches /\ Sizes(p) = Sizes(o)
  BY HoldersShrink, HoldersFinite
<1>3. /\ \A d \in B : o[d].st.path # s.path
      /\ SumFunctionOnSet(Sizes(o), B) + s.size <= Capacity[s.node]
  BY DEF Room
<1>4. SumFunctionOnSet(Sizes(o), A) <= SumFunctionOnSet(Sizes(o), B)
  BY <1>2, SumGrows
<1>5. /\ SumFunctionOnSet(Sizes(o), A) \in Nat /\ SumFunctionOnSet(Sizes(o), B) \in Nat
      /\ Capacity[s.node] \in Int
  <2>1. A \in SUBSET Caches /\ B \in SUBSET Caches BY <1>2
  <2>2. Capacity[s.node] \in Int BY <1>1, PlannerAssumption, SMTT(60)
  <2>. QED BY <2>1, <2>2, HoldersFinite
<1>6. \A d \in A : p[d].st.path # s.path BY <1>2, <1>3 DEF Shrinks
<1>. HIDE DEF A, B
<1>7. SumFunctionOnSet(Sizes(o), A) + s.size <= Capacity[s.node]
  BY <1>1, <1>3, <1>4, <1>5, SMTT(60)
<1>. QED BY <1>2, <1>6, <1>7

(* A status for which there is room is written.                            *)
LEMMA FitsWritten ==
  ASSUME NEW o \in [Caches -> CacheObject], Fits(o), NEW c \in Caches, NEW s \in Status,
         Room(c, s, o), NEW p \in [Caches -> CacheObject],
         p[c].st = s, \A d \in Caches \ {c} : p[d] = o[d]
  PROVE  Fits(p)
<1>. SUFFICES ASSUME NEW n \in Nodes
              PROVE  /\ \A b, d \in Holders(p, n) : b # d => p[b].st.path # p[d].st.path
                     /\ SumFunctionOnSet(Sizes(p), Holders(p, n)) <= Capacity[n]
  BY DEF Fits
<1>. DEFINE A == Holders(o, n) \ {c}
<1>1. A \subseteq Caches /\ c \notin A BY DEF Holders
<1>2. \A d \in Caches : d # c => (d \in Holders(p, n) <=> d \in A) BY DEF Holders
<1>3. \A b, d \in A : b # d => p[b].st.path # p[d].st.path
  <2>1. \A d \in A : d \in Holders(o, n) /\ p[d] = o[d] BY <1>1
  <2>. QED BY <2>1 DEF Fits
<1>4. \A d \in A : Sizes(o)[d] \in Nat /\ Sizes(p)[d] = Sizes(o)[d]
  <2>1. \A d \in Caches : Sizes(o)[d] = o[d].st.size /\ Sizes(o)[d] \in Nat BY HoldersFinite
  <2>2. \A d \in Caches : Sizes(p)[d] = p[d].st.size BY HoldersFinite
  <2>. QED BY <1>1, <2>1, <2>2
<1>5. IsFiniteSet(A) /\ SumFunctionOnSet(Sizes(o), A) \in Nat
  <2>1. A \in SUBSET Caches BY <1>1
  <2>. QED BY <2>1, HoldersFinite
<1>6. SumFunctionOnSet(Sizes(p), A) = SumFunctionOnSet(Sizes(o), A)
  <2>. HIDE DEF A
  <2>1. \A d \in A : Sizes(o)[d] \in Int BY <1>4, SMTT(60)
  <2>. QED BY <1>4, <1>5, <2>1, SumSame
<1>7. Capacity[n] \in Int BY PlannerAssumption, SMTT(60)
<1>8. CASE c \in Holders(p, n)
  <2>1. HoldsPlace(s) /\ s.node = n BY <1>8 DEF Holders
  <2>2. /\ \A d \in A : o[d].st.path # s.path
        /\ SumFunctionOnSet(Sizes(o), A) + s.size <= Capacity[n]
    BY <2>1 DEF Room
  <2>3. Holders(p, n) = A \cup {c}
    <3>1. Holders(p, n) \subseteq Caches BY DEF Holders
    <3>. QED BY <1>1, <1>2, <1>8, <3>1
  <2>4. Sizes(p)[c] = s.size /\ Sizes(p)[c] \in Nat
    BY HoldersFinite
  <2>5. \A d \in A : p[d].st.path # s.path BY <1>1, <2>2
  <2>6. \A b, d \in Holders(p, n) : b # d => p[b].st.path # p[d].st.path
    <3>. HIDE DEF A
    <3>. QED BY <1>3, <2>3, <2>5
  <2>7. SumFunctionOnSet(Sizes(p), A \cup {c}) = Sizes(p)[c] + SumFunctionOnSet(Sizes(p), A)
    <3>. HIDE DEF A
    <3>1. \A d \in A : Sizes(p)[d] \in Int BY <1>4, SMTT(60)
    <3>2. Sizes(p)[c] \in Int BY <2>4, SMTT(60)
    <3>. QED BY <1>1, <1>5, <3>1, <3>2, SumAdd
  <2>8. SumFunctionOnSet(Sizes(p), A \cup {c}) <= Capacity[n]
    <3>. HIDE DEF A
    <3>. QED BY <1>5, <1>6, <1>7, <2>2, <2>4, <2>7, SMTT(60)
  <2>. QED BY <2>3, <2>6, <2>8
<1>9. CASE c \notin Holders(p, n)
  <2>1. Holders(p, n) = A
    <3>1. Holders(p, n) \subseteq Caches BY DEF Holders
    <3>. QED BY <1>1, <1>2, <1>9, <3>1
  <2>2. Holders(o, n) \in SUBSET Caches BY HoldersFinite
  <2>3. SumFunctionOnSet(Sizes(o), A) <= SumFunctionOnSet(Sizes(o), Holders(o, n))
    BY <2>2, SumGrows
  <2>4. /\ SumFunctionOnSet(Sizes(o), Holders(o, n)) \in Nat
        /\ SumFunctionOnSet(Sizes(o), Holders(o, n)) <= Capacity[n]
    BY <2>2, HoldersFinite DEF Fits
  <2>5. SumFunctionOnSet(Sizes(p), A) <= Capacity[n]
    <3>. HIDE DEF A
    <3>. QED BY <1>5, <1>6, <1>7, <2>3, <2>4, SMTT(60)
  <2>. QED BY <1>3, <2>1, <2>5
<1>. QED BY <1>8, <1>9

(* What Plan promises: the node is there, nobody else holds the path on    *)
(* it, and what the others hold leaves the size asked for.                 *)
LEMMA PlanHasRoom ==
  ASSUME NEW o \in [Caches -> CacheObject], NEW c \in Caches,
         NEW ns \in [Nodes -> [exists: BOOLEAN, uid: Nat, eligible: BOOLEAN]],
         PlanResult(o, c, ns) = "Placed"
  PROVE  LET pl == Plan(o, c, ns)
         IN  /\ pl \in PlaceType
             /\ IsNode(ns, pl.node, pl.uid)
             /\ pl.path = o[c].spec.path /\ pl.size = o[c].spec.size
             /\ \A d \in Holders(o, pl.node) \ {c} : o[d].st.path # pl.path
             /\ SumFunctionOnSet(Sizes(o), Holders(o, pl.node) \ {c}) + pl.size
                  <= Capacity[pl.node]
<1>. DEFINE size == o[c].spec.size
            path == o[c].spec.path
<1>1. PICK n \in RankNodes(o, c, ns) :
        Plan(o, c, ns) = [node |-> n, uid |-> ns[n].uid, path |-> path, size |-> size]
  BY PlanChosen
<1>2. /\ n \in Nodes /\ ns[n].exists
      /\ n \notin ConflictingNodesForPath(o, c, path)
      /\ Free(o, c, n) >= size
  BY <1>1 DEF RankNodes, Candidates, FilterNodes
<1>3. size \in Nat \ {0} /\ path \in Paths /\ ns[n].uid \in Nat
  BY <1>2 DEF CacheObject, Spec_
<1>4. Plan(o, c, ns) \in PlaceType /\ IsNode(ns, Plan(o, c, ns).node, Plan(o, c, ns).uid)
  <2>. HIDE DEF size, path
  <2>. QED BY <1>1, <1>2, <1>3, SMTT(60) DEF PlaceType, IsNode
<1>. DEFINE A == Holders(o, n) \ {c}
            B == Reservers(o, c, n)
<1>5. A \subseteq B
  BY DEF Holders, HoldsPlace, Reservers, Reserves
<1>6. \A d \in A : o[d].st.path # path
  BY <1>2, <1>5 DEF ConflictingNodesForPath, Reservers
<1>7. SumFunctionOnSet(Sizes(o), A) + size <= Capacity[n]
  <2>. DEFINE t == SumFunctionOnSet(Reserved(o), B)
              a == SumFunctionOnSet(Sizes(o), A)
  <2>1. /\ IsFiniteSet(B) /\ B \subseteq Caches
        /\ \A d \in Caches : Reserved(o)[d] \in Nat /\ o[d].st.size \in Nat
                             /\ o[d].st.size <= Reserved(o)[d]
        /\ t \in Nat /\ ReservedBytesByNode(o, c, n) = Saturated(t)
    BY ReservedSum
  <2>2. \A d \in Caches : Sizes(o)[d] = o[d].st.size BY HoldersFinite
  <2>3. A \in SUBSET Caches /\ IsFiniteSet(A) /\ a \in Nat
    <3>1. A \in SUBSET Caches BY <1>5, <2>1
    <3>. QED BY <3>1, HoldersFinite
  <2>4. a <= SumFunctionOnSet(Reserved(o), A)
    <3>. HIDE DEF A
    <3>1. \A d \in A : Sizes(o)[d] \in Int /\ Reserved(o)[d] \in Int /\ Sizes(o)[d] <= Reserved(o)[d]
      BY <2>1, <2>2, <2>3, SMTT(60)
    <3>. QED BY <2>3, <3>1, SumLessEqual
  <2>5. SumFunctionOnSet(Reserved(o), A) <= t /\ SumFunctionOnSet(Reserved(o), A) \in Nat
    <3>. HIDE DEF A, B
    <3>1. \A d \in B : Reserved(o)[d] \in Nat BY <2>1
    <3>2. \A d \in A : Reserved(o)[d] \in Nat BY <2>1, <2>3
    <3>. QED BY <1>5, <2>1, <2>3, <3>1, <3>2, SumSubset, SumNat
  <2>6. Capacity[n] \in Nat /\ Capacity[n] <= MaxInt64 /\ MaxInt64 \in Nat
    BY <1>2, PlannerAssumption, SMTT(60)
  <2>7. Capacity[n] - Saturated(t) >= size BY <1>2, <2>1 DEF Free
  <2>. HIDE DEF t, a, size
  <2>8. Saturated(t) = t BY <1>3, <2>1, <2>6, <2>7, SMTT(60) DEF Saturated
  <2>9. a + size <= Capacity[n]
    BY <1>3, <2>1, <2>3, <2>4, <2>5, <2>6, <2>7, <2>8, SMTT(60)
  <2>. QED BY <2>9 DEF a
<1>8. /\ Plan(o, c, ns).node = n
      /\ Plan(o, c, ns).path = path /\ Plan(o, c, ns).size = size
  BY <1>1, SMTT(60)
<1>. QED BY <1>4, <1>6, <1>7, <1>8

-----------------------------------------------------------------------------
(* Steps that keep what is recorded.                                       *)

(* Nodes and disks N, D may become N2, D2: no UID is given out twice, and  *)
(* a marker stays on its disk.                                             *)
Later(N, D, N2, D2) ==
  /\ \A uid \in Nat : Recorded(N, uid) => Recorded(N2, uid)
  /\ \A n \in Nodes, uid \in Nat :
       Recorded(N, uid) /\ IsNode(N2, n, uid) =>
         /\ IsNode(N, n, uid)
         /\ \A p \in Paths : D[n][p] # NoHash => D2[n][p] = D[n][p]

LaterJob(j, j2) ==
  j2 # NoJob => /\ j # NoJob /\ j2.hash = j.hash
                /\ j.state = "Complete" => j2.state = "Complete"

LEMMA NodeRecorded ==
  ASSUME NEW N \in [Nodes -> [exists: BOOLEAN, uid: Nat, eligible: BOOLEAN]],
         NEW n \in Nodes, NEW uid, IsNode(N, n, uid)
  PROVE  Recorded(N, uid)
<1>1. uid = N[n].uid /\ N[n].uid \in Nat BY DEF IsNode
<1>2. uid <= N[n].uid BY <1>1, SMTT(60)
<1>. QED BY <1>2 DEF Recorded

LEMMA SoundKept ==
  ASSUME NEW s \in Status, NEW N, NEW D, NEW N2, NEW D2, NEW j, NEW j2,
         Sound(s, N, D, j), Later(N, D, N2, D2), ~s.conds.downloaded \/ LaterJob(j, j2)
  PROVE  Sound(s, N2, D2, j2)
<1>1. s.uid \in Nat /\ s.node \in Nodes \cup {NoNode} /\ s.path \in Paths \cup {NoPath}
      /\ s.hash \in Hash \cup {NoHash}
  BY DEF Status
<1>2. s.node # NoNode => Recorded(N2, s.uid) BY <1>1 DEF Sound, Later
<1>3. ASSUME s.conds.downloaded PROVE Finished(s, N2, D2, j2)
  <2>1. Finished(s, N, D, j) /\ LaterJob(j, j2) /\ s.node # NoNode /\ Recorded(N, s.uid)
    BY <1>3 DEF Sound, Finished
  <2>2. s.path \in Paths /\ s.node \in Nodes
    BY <1>1, <2>1 DEF Finished, Hash
  <2>3. IsNode(N2, s.node, s.uid) => D2[s.node][s.path] = s.hash
    BY <1>1, <2>1, <2>2 DEF Finished, Later
  <2>. QED BY <2>1, <2>3 DEF Finished, LaterJob
<1>. QED BY <1>2, <1>3 DEF Sound

LEMMA SoundJobKept ==
  ASSUME NEW j \in Job \cup {NoJob}, NEW N, NEW D, NEW N2, NEW D2,
         SoundJob(j, N, D), Later(N, D, N2, D2)
  PROVE  SoundJob(j, N2, D2)
<1>1. CASE j = NoJob BY <1>1 DEF SoundJob
<1>2. CASE j # NoJob
  <2>1. j.hash \in Hash BY <1>2 DEF Job
  <2>2. /\ j.hash.uid \in Nat /\ j.hash.node \in Nodes /\ j.hash.path \in Paths
        /\ j.hash # NoHash
    BY <2>1, HashIsSome DEF Hash
  <2>. QED BY <1>2, <2>2 DEF SoundJob, Later
<1>. QED BY <1>1, <1>2

-----------------------------------------------------------------------------
(* What a reconcile decides to write.                                      *)

Downloads(j) == j # NoJob /\ j.state = "Running" /\ ~j.deleting

(* Status s tells of the download that Job j does.                         *)
Tells(s, j) ==
  /\ s.phase = "Downloading"
  /\ s.hash = j.hash /\ s.node = j.hash.node /\ s.path = j.hash.path
  /\ s.conds.placed # Nowhere

(* A status to write: it is true, there is room for it, and it does not    *)
(* drop a download that is under way.                                      *)
Good(c, s) ==
  /\ Sound(s, nodes, disk, job[c])
  /\ Room(c, s, obj)
  /\ obj[c].spec.valid /\ Downloads(job[c]) /\ Tells(obj[c].st, job[c]) => Tells(s, job[c])

(* A Job to make, and the status that tells of it.                         *)
GoodJob(c, j, s) ==
  /\ job[c] = NoJob
  /\ SoundJob(j, nodes, disk)
  /\ obj[c].spec.valid
  /\ ~obj[c].st.conds.downloaded /\ ~s.conds.downloaded
  /\ Tells(s, j)

(* The shapes a reconcile's writes have.                                   *)
Planned(c, q) ==
  \/ q = <<>>
  \/ q = <<DeleteJob(c)>>
  \/ \E s \in Status : q = PatchStatus(c, s) /\ (IInv => Good(c, s))
  \/ \E s \in Status, j \in Job :
       /\ q = <<CreateJob(c, j)>> \o PatchStatus(c, s)
       /\ IInv => Good(c, s) /\ GoodJob(c, j, s)

LEMMA SameSound ==
  ASSUME NEW s, NEW t, NEW N, NEW D, NEW j, Sound(s, N, D, j), SameArtifact(t, s),
         t.phase \notin {"Ready", "Downloading"},
         t.conds.downloaded => s.conds.downloaded \/ s.phase = "Ready"
  PROVE  Sound(t, N, D, j)
BY DEF Sound, Finished, SameArtifact

(* A finished artifact has its place, and no download is under way.        *)
LEMMA FinishedCache ==
  ASSUME IInv, NEW c \in Caches, obj[c].exists,
         obj[c].st.conds.downloaded \/ obj[c].st.phase = "Ready"
  PROVE  /\ obj[c].st.conds.downloaded
         /\ Finished(obj[c].st, nodes, disk, job[c])
         /\ HoldsPlace(obj[c].st)
         /\ Room(c, obj[c].st, obj)
         /\ ~Downloads(job[c])
<1>1. Sound(obj[c].st, nodes, disk, job[c]) BY DEF IInv
<1>2. obj[c].st.conds.downloaded /\ Finished(obj[c].st, nodes, disk, job[c])
  BY <1>1 DEF Sound
<1>3. HoldsPlace(obj[c].st) BY <1>2 DEF Finished, HoldsPlace
<1>4. Room(c, obj[c].st, obj) BY HeldHasRoom DEF IInv, TypeOK
<1>5. ~Downloads(job[c]) BY <1>2 DEF Finished, Downloads
<1>. QED BY <1>2, <1>3, <1>4, <1>5

LEMMA SpecInvalidPlanned ==
  ASSUME TypeOK, NEW c \in Caches, ReconcileSpecInvalid(c)
  PROVE  Planned(c, todo')
<1>. DEFINE s == Fail(view[c].st, "SpecInvalid")
<1>1. view[c].st \in Status BY DEF TypeOK, CacheObject
<1>2. /\ s \in Status /\ SameArtifact(s, view[c].st) /\ s.phase = "Failed"
      /\ ~s.conds.downloaded
  BY <1>1, FailStatus
<1>3. todo' = PatchStatus(c, s) /\ ~view[c].spec.valid BY DEF ReconcileSpecInvalid
<1>. HIDE DEF s
<1>4. ASSUME IInv PROVE Good(c, s)
  <2>1. view = obj /\ Sound(obj[c].st, nodes, disk, job[c]) BY <1>4 DEF IInv
  <2>2. Sound(s, nodes, disk, job[c]) BY <1>2, <2>1, SameSound
  <2>3. Room(c, s, obj) BY <1>2 DEF Room, HoldsPlace
  <2>. QED BY <1>3, <2>1, <2>2, <2>3 DEF Good
<1>. QED BY <1>2, <1>3, <1>4 DEF Planned

LEMMA ReadyPlanned ==
  ASSUME TypeOK, NEW c \in Caches, view[c].exists, ReconcileReady(c)
  PROVE  Planned(c, todo')
<1>. DEFINE o == view[c]
            s == SetReady(o)
<1>1. o \in CacheObject BY DEF TypeOK
<1>2. o.st.node \in Nodes /\ o.st.path \in Paths /\ WasReady(o)
  <2>1. WasReady(o) BY DEF ReconcileReady, ReadyPlacementMatches
  <2>2. o.spec.path \in Paths /\ o.st.node \in Nodes \cup {NoNode}
    BY <1>1 DEF CacheObject, Status, Spec_
  <2>. QED BY <2>1, <2>2 DEF WasReady, RecordedForSpec
<1>3. /\ s \in Status /\ s.phase = "Ready" /\ s.conds.downloaded
      /\ s.node = o.st.node /\ s.uid = o.st.uid /\ s.path = o.st.path
      /\ s.size = o.spec.size /\ s.hash = ExpectedHash(o)
  BY <1>1, <1>2, ReadyStatus
<1>4. todo' = PatchStatus(c, s)
      /\ (o.st.hash = ExpectedHash(o)
          \/ (job[c] # NoJob /\ job[c].hash = ExpectedHash(o) /\ job[c].state = "Complete"))
  BY DEF ReconcileReady, ReadyPlacementMatches
<1>5. /\ ExpectedHash(o).size = o.spec.size /\ ExpectedHash(o) \in Hash
      /\ ExpectedHash(o).node = o.st.node /\ ExpectedHash(o).uid = o.st.uid
      /\ ExpectedHash(o).path = o.st.path
  BY <1>1, <1>2, ExpectedHashType
<1>. HIDE DEF s
<1>6. ASSUME IInv PROVE Good(c, s)
  <2>1. view = obj BY <1>6 DEF IInv
  <2>2. /\ Finished(o.st, nodes, disk, job[c]) /\ Room(c, o.st, obj)
        /\ HoldsPlace(o.st) /\ ~Downloads(job[c]) /\ Sound(o.st, nodes, disk, job[c])
    <3>1. o.st.conds.downloaded \/ o.st.phase = "Ready"
      BY <1>2 DEF WasReady, HasCompletedArtifact
    <3>. QED BY <1>6, <2>1, <3>1, FinishedCache DEF IInv
  <2>3. o.st.hash = ExpectedHash(o) BY <1>4, <2>2 DEF Finished
  <2>4. SameArtifact(s, o.st)
    BY <1>3, <1>5, <2>2, <2>3 DEF Finished, SameArtifact
  <2>5. Finished(s, nodes, disk, job[c]) BY <2>2, <2>4 DEF Finished, SameArtifact
  <2>6. Sound(s, nodes, disk, job[c]) BY <1>3, <2>2, <2>4, <2>5 DEF Sound, SameArtifact
  <2>7. Room(c, s, obj) BY <2>2, <2>4 DEF Room, SameArtifact
  <2>. QED BY <2>2, <2>6, <2>7 DEF Good
<1>. QED BY <1>3, <1>4, <1>6 DEF Planned

(* The next two keep the artifact and say that it is not to be used.       *)
LEMMA NodeLostPlanned ==
  ASSUME TypeOK, NEW c \in Caches, view[c].exists, ReconcileNodeLost(c)
  PROVE  Planned(c, todo')
<1>. DEFINE s == SetPending(view[c], "NodeLost")
<1>1. view[c] \in CacheObject BY DEF TypeOK
<1>2. /\ s \in Status /\ SameArtifact(s, view[c].st) /\ s.phase = "Pending"
      /\ s.conds.downloaded => view[c].st.conds.downloaded \/ view[c].st.phase = "Ready"
      /\ s.conds.placed = Nowhere
  BY <1>1, PendingStatus DEF PendingReasons
<1>3. todo' = PatchStatus(c, s) /\ WasReady(view[c]) BY DEF ReconcileNodeLost, NodeLost
<1>. HIDE DEF s
<1>4. ASSUME IInv PROVE Good(c, s)
  <2>1. view = obj /\ Sound(obj[c].st, nodes, disk, job[c]) BY <1>4 DEF IInv
  <2>2. Room(c, obj[c].st, obj) /\ HoldsPlace(obj[c].st) /\ ~Downloads(job[c])
    <3>1. obj[c].st.conds.downloaded \/ obj[c].st.phase = "Ready"
      BY <1>3, <2>1 DEF WasReady, HasCompletedArtifact
    <3>. QED BY <1>4, <2>1, <3>1, FinishedCache
  <2>3. Sound(s, nodes, disk, job[c]) BY <1>2, <2>1, SameSound
  <2>4. Room(c, s, obj) BY <1>2, <2>1, <2>2 DEF Room, SameArtifact
  <2>. QED BY <2>2, <2>3, <2>4 DEF Good
<1>. QED BY <1>2, <1>3, <1>4 DEF Planned

LEMMA IdentityChangedPlanned ==
  ASSUME TypeOK, NEW c \in Caches, view[c].exists, ReconcileIdentityChanged(c)
  PROVE  Planned(c, todo')
<1>. DEFINE s == Fail(view[c].st, "IdentityChanged")
<1>1. view[c].st \in Status BY DEF TypeOK, CacheObject
<1>2. /\ s \in Status /\ SameArtifact(s, view[c].st) /\ s.phase = "Failed"
      /\ s.conds.downloaded => view[c].st.conds.downloaded
  BY <1>1, FailStatus
<1>3. todo' = PatchStatus(c, s) /\ view[c].st.conds.downloaded
  BY DEF ReconcileIdentityChanged, HasCompletedArtifact
<1>. HIDE DEF s
<1>4. ASSUME IInv PROVE Good(c, s)
  <2>1. view = obj /\ Sound(obj[c].st, nodes, disk, job[c]) BY <1>4 DEF IInv
  <2>2. Room(c, obj[c].st, obj) /\ HoldsPlace(obj[c].st) /\ ~Downloads(job[c])
    BY <1>3, <1>4, <2>1, FinishedCache
  <2>3. Sound(s, nodes, disk, job[c]) BY <1>2, <2>1, SameSound
  <2>4. Room(c, s, obj) BY <1>2, <2>1, <2>2 DEF Room, SameArtifact
  <2>. QED BY <2>2, <2>3, <2>4 DEF Good
<1>. QED BY <1>2, <1>3, <1>4 DEF Planned

(* A status that gives up the place may be written when no download tells  *)
(* of itself.                                                              *)
LEMMA GivesUpPlace ==
  ASSUME IInv, NEW c \in Caches, NEW s \in Status, s.phase = "Pending",
         s.conds.placed = Nowhere, ~s.conds.downloaded,
         s.node = obj[c].st.node, s.uid = obj[c].st.uid,
         ~(Downloads(job[c]) /\ Tells(obj[c].st, job[c]))
  PROVE  Good(c, s)
<1>1. Sound(obj[c].st, nodes, disk, job[c]) BY DEF IInv
<1>2. Sound(s, nodes, disk, job[c]) BY <1>1 DEF Sound
<1>3. Room(c, s, obj) BY DEF Room, HoldsPlace
<1>. QED BY <1>2, <1>3 DEF Good

LEMMA InFlightEditedPlanned ==
  ASSUME TypeOK, NEW c \in Caches, ReconcileInFlightEdited(c)
  PROVE  Planned(c, todo')
<1>1. CASE job[c] # NoJob
  BY <1>1 DEF ReconcileInFlightEdited, DeleteDownloaderJob, Planned
<1>2. CASE job[c] = NoJob
  <2>. DEFINE s == IdentityReset(view[c])
  <2>1. view[c] \in CacheObject BY DEF TypeOK
  <2>2. /\ s \in Status /\ s.phase = "Pending" /\ ~s.conds.downloaded
        /\ s.conds.placed = Nowhere /\ s.node = view[c].st.node /\ s.uid = view[c].st.uid
    BY <2>1, ResetStatus
  <2>3. todo' = PatchStatus(c, s) BY <1>2 DEF ReconcileInFlightEdited
  <2>. HIDE DEF s
  <2>4. ASSUME IInv PROVE Good(c, s)
    <3>1. view = obj BY <2>4 DEF IInv
    <3>2. ~Downloads(job[c]) BY <1>2 DEF Downloads
    <3>. QED BY <2>2, <2>4, <3>1, <3>2, GivesUpPlace
  <2>. QED BY <2>2, <2>3, <2>4 DEF Planned
<1>. QED BY <1>1, <1>2

LEMMA InFlightLostPlanned ==
  ASSUME TypeOK, NEW c \in Caches, ReconcileInFlightLost(c)
  PROVE  Planned(c, todo')
BY DEF ReconcileInFlightLost, DeleteDownloaderJob, Planned

(* Placing starts only when the status tells of no download.               *)
LEMMA PlannableQuiet ==
  ASSUME TypeOK, view = obj, NEW c \in Caches, Plannable(c)
  PROVE  ~(Downloads(job[c]) /\ Tells(obj[c].st, job[c]))
<1>. SUFFICES ASSUME Downloads(job[c]), Tells(obj[c].st, job[c]) PROVE FALSE
  OBVIOUS
<1>1. job[c] \in Job BY DEF TypeOK, Downloads
<1>2. job[c].hash # NoHash BY <1>1, HashIsSome DEF Job
<1>3. InFlight(view[c]) BY <1>2 DEF InFlight, Tells
<1>. QED BY <1>3 DEF Plannable, Downloads

LEMMA PendingPlanned ==
  ASSUME TypeOK, NEW c \in Caches, Plannable(c), NEW r \in PendingReasons,
         todo' = PatchStatus(c, SetPending(view[c], r)), r # "NodeLost"
  PROVE  Planned(c, todo')
<1>. DEFINE s == SetPending(view[c], r)
<1>1. view[c] \in CacheObject BY DEF TypeOK
<1>2. ~view[c].st.conds.downloaded BY DEF Plannable, Unfinished, HasCompletedArtifact
<1>3. /\ s \in Status /\ SameArtifact(s, view[c].st) /\ s.phase = "Pending"
      /\ s.conds.placed = Nowhere
  BY <1>1, PendingStatus
<1>4. ~s.conds.downloaded
  BY <1>1, <1>2 DEF SetPending, CacheObject, Status, Conditions
<1>. HIDE DEF s
<1>5. ASSUME IInv PROVE Good(c, s)
  <2>1. view = obj BY <1>5 DEF IInv
  <2>. QED BY <1>3, <1>4, <1>5, <2>1, PlannableQuiet, GivesUpPlace DEF SameArtifact
<1>. QED BY <1>3, <1>5 DEF Planned, s

LEMMA SecretMissingPlanned ==
  ASSUME TypeOK, NEW c \in Caches, ReconcileSecretMissing(c)
  PROVE  Planned(c, todo')
<1>1. "SecretNotFound" \in PendingReasons /\ "SecretNotFound" # "NodeLost" BY DEF PendingReasons
<1>. QED BY <1>1, PendingPlanned DEF ReconcileSecretMissing

LEMMA UnplacedPlanned ==
  ASSUME TypeOK, NEW c \in Caches, ReconcileUnplaced(c)
  PROVE  Planned(c, todo')
<1>. DEFINE r == PlanResult(view, c, nodes)
<1>1. r \in PendingReasons /\ r # "NodeLost"
  BY DEF ReconcileUnplaced, PlanResult, PendingReasons
<1>2. Plannable(c) /\ todo' = PatchStatus(c, SetPending(view[c], r))
  BY DEF ReconcileUnplaced, ResolvesPlacement
<1>. HIDE DEF r
<1>. QED BY <1>1, <1>2, PendingPlanned

LEMMA PlacePlanned ==
  ASSUME TypeOK, NEW c \in Caches, ReconcilePlace(c)
  PROVE  Planned(c, todo')
<1>. DEFINE pl == Plan(view, c, nodes)
            s == RecordPlacement(pl)
<1>1. /\ pl \in PlaceType /\ IsNode(nodes, pl.node, pl.uid)
      /\ \A d \in Holders(view, pl.node) \ {c} : view[d].st.path # pl.path
      /\ SumFunctionOnSet(Sizes(view), Holders(view, pl.node) \ {c}) + pl.size
           <= Capacity[pl.node]
  BY PlanHasRoom DEF ReconcilePlace, TypeOK
<1>2. todo' = PatchStatus(c, s) /\ Plannable(c)
  BY DEF ReconcilePlace, ResolvesPlacement
<1>. HIDE DEF pl
<1>3. /\ s \in Status /\ s.phase = "Pending"
      /\ s.node = pl.node /\ s.uid = pl.uid /\ s.path = pl.path /\ s.size = pl.size
      /\ ~s.conds.downloaded
  BY <1>1, RecordedStatus
<1>. HIDE DEF s
<1>4. ASSUME IInv PROVE Good(c, s)
  <2>1. view = obj BY <1>4 DEF IInv
  <2>2. Room(c, s, obj) BY <1>1, <1>3, <2>1 DEF Room
  <2>3. Recorded(nodes, pl.uid) BY <1>1, NodeRecorded DEF PlaceType, TypeOK
  <2>4. Sound(s, nodes, disk, job[c]) BY <1>3, <2>3 DEF Sound
  <2>. QED BY <1>2, <2>1, <2>2, <2>4, PlannableQuiet DEF Good
<1>. QED BY <1>2, <1>3, <1>4 DEF Planned

(* A download at place pl: its Job is made, replaced or reported.          *)
LEMMA DownloaderPlanned ==
  ASSUME TypeOK, NEW c \in Caches, NEW pl \in PlaceType, IsNode(nodes, pl.node, pl.uid),
         ~view[c].st.conds.downloaded, view[c].spec.valid,
         IInv => /\ \A d \in Holders(obj, pl.node) \ {c} : obj[d].st.path # pl.path
                 /\ SumFunctionOnSet(Sizes(obj), Holders(obj, pl.node) \ {c}) + pl.size
                      <= Capacity[pl.node],
         todo' = ReconcileDownloaderJob(c, pl)
  PROVE  Planned(c, todo')
<1>. DEFINE desired == BuildCacheDownloaderJob(view[c], pl)
<1>1. /\ desired \in Job /\ desired.state = "Running"
      /\ desired.hash \in Hash /\ desired.hash.node = pl.node /\ desired.hash.uid = pl.uid
      /\ desired.hash.path = pl.path /\ desired.hash.size = pl.size
  <2>1. view[c].token \in Tokens /\ view[c].spec.secretRef \in BOOLEAN
        /\ view[c].spec.rev \in Nat
    BY DEF TypeOK, CacheObject, Spec_
  <2>. QED BY <2>1 DEF BuildCacheDownloaderJob, CacheInputHash, Job, Hash, PlaceType
<1>2. todo' = CASE job[c] = NoJob ->
                     <<CreateJob(c, desired)>> \o PatchStatus(c, ProjectJobStatus(pl, desired))
                [] job[c] # NoJob /\ job[c].deleting -> <<>>
                [] job[c] # NoJob /\ ~job[c].deleting /\ NeedsReplace(c, desired) ->
                     <<DeleteJob(c)>>
                [] OTHER -> PatchStatus(c, ProjectJobStatus(pl, job[c]))
  BY DEF ReconcileDownloaderJob
<1>. HIDE DEF desired
<1>3. Recorded(nodes, pl.uid) BY NodeRecorded DEF PlaceType, TypeOK
<1>4. ASSUME NEW j \in Job, j.hash = desired.hash, IInv, SoundJob(j, nodes, disk),
             job[c] \in {j, NoJob}, job[c] = NoJob => j.state = "Running"
      PROVE  /\ Good(c, ProjectJobStatus(pl, j))
             /\ j.state = "Running" => Tells(ProjectJobStatus(pl, j), j)
  <2>. DEFINE s == ProjectJobStatus(pl, j)
  <2>1. /\ s \in Status
        /\ s.node = pl.node /\ s.uid = pl.uid /\ s.path = pl.path /\ s.size = pl.size
        /\ s.hash = j.hash
        /\ s.phase = IF j.state = "Complete" THEN "Ready"
                     ELSE IF j.state = "Failed" THEN "Failed" ELSE "Downloading"
        /\ s.conds.downloaded => j.state = "Complete"
        /\ j.state = "Complete" => s.conds.downloaded
        /\ s.conds.placed # Nowhere
    BY <1>4, ProjectedStatus
  <2>. HIDE DEF s
  <2>2. pl.node \in Nodes /\ pl.node # NoNode /\ j.hash # NoHash /\ j # NoJob
    BY <1>1, <1>4, HashIsSome, JobIsSome, PlannerAssumption DEF PlaceType
  <2>3. ASSUME s.conds.downloaded PROVE Finished(s, nodes, disk, job[c])
    <3>1. j.state = "Complete" /\ job[c] = j BY <1>4, <2>1, <2>3
    <3>2. disk[pl.node][pl.path] = j.hash
      BY <1>1, <1>4, <2>2, <3>1 DEF SoundJob
    <3>. QED BY <1>1, <1>4, <2>1, <2>2, <3>1, <3>2 DEF Finished
  <2>4. Sound(s, nodes, disk, job[c])
    <3>1. s.phase = "Ready" => s.conds.downloaded BY <2>1
    <3>. QED BY <1>3, <2>1, <2>2, <2>3, <3>1 DEF Sound
  <2>5. Room(c, s, obj) BY <1>4, <2>1 DEF Room
  <2>6. j.state = "Running" => Tells(s, j) BY <1>1, <1>4, <2>1 DEF Tells
  <2>. QED BY <1>4, <2>4, <2>5, <2>6 DEF Good, Downloads, s
<1>5. CASE job[c] = NoJob
  <2>. DEFINE s == ProjectJobStatus(pl, desired)
  <2>1. todo' = <<CreateJob(c, desired)>> \o PatchStatus(c, s) BY <1>2, <1>5
  <2>2. s \in Status /\ ~s.conds.downloaded BY <1>1, ProjectedStatus
  <2>3. SoundJob(desired, nodes, disk) BY <1>1, <1>3 DEF SoundJob
  <2>4. ASSUME IInv PROVE Good(c, s) /\ GoodJob(c, desired, s)
    <3>1. view = obj BY <2>4 DEF IInv
    <3>. QED BY <1>1, <1>4, <1>5, <2>2, <2>3, <2>4, <3>1 DEF GoodJob
  <2>. HIDE DEF s
  <2>. QED BY <1>1, <2>1, <2>2, <2>4 DEF Planned
<1>6. CASE job[c] # NoJob /\ job[c].deleting
  BY <1>2, <1>6 DEF Planned
<1>7. CASE job[c] # NoJob /\ ~job[c].deleting /\ NeedsReplace(c, desired)
  BY <1>2, <1>7 DEF Planned
<1>8. CASE job[c] # NoJob /\ ~job[c].deleting /\ ~NeedsReplace(c, desired)
  <2>. DEFINE s == ProjectJobStatus(pl, job[c])
  <2>1. todo' = PatchStatus(c, s) BY <1>2, <1>8
  <2>2. job[c] \in Job /\ job[c].hash = desired.hash
    BY <1>8 DEF TypeOK, NeedsReplace
  <2>3. s \in Status BY <2>2, ProjectedStatus
  <2>4. ASSUME IInv PROVE Good(c, s)
    <3>1. SoundJob(job[c], nodes, disk) BY <2>4 DEF IInv
    <3>. QED BY <1>4, <1>8, <2>2, <2>4, <3>1
  <2>. HIDE DEF s
  <2>. QED BY <2>1, <2>3, <2>4 DEF Planned
<1>. QED BY <1>5, <1>6, <1>7, <1>8

LEMMA InFlightPlanned ==
  ASSUME TypeOK, NEW c \in Caches, view[c].exists, ReconcileInFlight(c)
  PROVE  Planned(c, todo')
<1>. DEFINE st == view[c].st
            pl == Placement(st)
<1>1. /\ st \in Status /\ st.phase = "Downloading" /\ st.hash # NoHash
      /\ st.hash = ExpectedHash(view[c]) /\ view[c].spec.path = st.path
      /\ IsNode(nodes, st.node, st.uid) /\ ~st.conds.downloaded /\ view[c].spec.valid
      /\ todo' = ReconcileDownloaderJob(c, pl)
  BY DEF ReconcileInFlight, InFlight, InFlightIdentityMatches, RecordedForSpec, Unfinished,
         HasCompletedArtifact, NodeIs, IsNode, TypeOK, CacheObject
<1>2. st.node \in Nodes
  <2>1. st.hash \in Hash BY <1>1 DEF Status
  <2>2. ExpectedHash(view[c]).node = st.node
    BY <1>1 DEF ExpectedHash, CacheInputHash, Status
  <2>. QED BY <1>1, <2>1, <2>2 DEF Hash
<1>3. /\ pl.node = st.node /\ pl.uid = st.uid /\ pl.path = st.path /\ pl.size = st.size
      /\ pl \in PlaceType
  <2>1. st.uid \in Nat /\ st.size \in Nat BY <1>1 DEF Status
  <2>2. st.path \in Paths BY <1>1 DEF TypeOK, CacheObject, Spec_
  <2>. QED BY <1>2, <2>1, <2>2 DEF PlaceType, Placement
<1>. HIDE DEF pl
<1>4. ASSUME IInv
      PROVE  /\ \A d \in Holders(obj, pl.node) \ {c} : obj[d].st.path # pl.path
             /\ SumFunctionOnSet(Sizes(obj), Holders(obj, pl.node) \ {c}) + pl.size
                  <= Capacity[pl.node]
  <2>1. view = obj /\ Sound(st, nodes, disk, job[c]) BY <1>4 DEF IInv
  <2>2. HoldsPlace(st) BY <1>1, <2>1 DEF Sound, HoldsPlace
  <2>3. Room(c, st, obj) BY <1>4, <2>1, HeldHasRoom DEF IInv, TypeOK
  <2>. QED BY <1>3, <2>2, <2>3 DEF Room
<1>5. IsNode(nodes, pl.node, pl.uid) BY <1>1, <1>3
<1>. QED BY <1>1, <1>3, <1>4, <1>5, DownloaderPlanned

LEMMA PlacedPlanned ==
  ASSUME TypeOK, NEW c \in Caches, ReconcilePlaced(c)
  PROVE  Planned(c, todo')
<1>. DEFINE pl == Plan(view, c, nodes)
<1>1. /\ pl \in PlaceType /\ IsNode(nodes, pl.node, pl.uid)
      /\ \A d \in Holders(view, pl.node) \ {c} : view[d].st.path # pl.path
      /\ SumFunctionOnSet(Sizes(view), Holders(view, pl.node) \ {c}) + pl.size
           <= Capacity[pl.node]
  BY PlanHasRoom DEF ReconcilePlaced, TypeOK
<1>2. /\ todo' = ReconcileDownloaderJob(c, pl)
      /\ ~view[c].st.conds.downloaded /\ view[c].spec.valid
  BY DEF ReconcilePlaced, ResolvesPlacement, Plannable, Unfinished, HasCompletedArtifact
<1>. HIDE DEF pl
<1>3. IInv => view = obj BY DEF IInv
<1>. QED BY <1>1, <1>2, <1>3, DownloaderPlanned

LEMMA ReconcilePlanned ==
  ASSUME TypeOK, NEW c \in Caches, view[c].exists, ReconcilePlan(c)
  PROVE  Planned(c, todo')
BY SpecInvalidPlanned, ReadyPlanned, NodeLostPlanned, IdentityChangedPlanned,
   InFlightEditedPlanned, InFlightPlanned, InFlightLostPlanned, SecretMissingPlanned,
   UnplacedPlanned, PlacePlanned, PlacedPlanned
   DEF ReconcilePlan

(* The status of a patch is s at the generation that was read.             *)
Patch(c, t) == [op |-> "PatchStatus", c |-> c, base |-> view[c].st, new |-> t]

(* Planned, with the patch that changes nothing left out.                  *)
Writes(c, q) ==
  \/ q = <<>>
  \/ q = <<DeleteJob(c)>>
  \/ \E t \in Status : q = <<Patch(c, t)>> /\ (IInv => Good(c, t))
  \/ \E j \in Job :
       /\ q = <<CreateJob(c, j)>>
       /\ IInv => GoodJob(c, j, obj[c].st)
  \/ \E t \in Status, j \in Job :
       /\ q = <<CreateJob(c, j), Patch(c, t)>>
       /\ IInv => Good(c, t) /\ GoodJob(c, j, t)

LEMMA GoodGen ==
  ASSUME NEW c, NEW j, NEW s, NEW t, SameArtifact(t, s), t.phase = s.phase,
         t.conds.placed = s.conds.placed, t.conds.downloaded = s.conds.downloaded
  PROVE  /\ Good(c, s) => Good(c, t)
         /\ GoodJob(c, j, s) => GoodJob(c, j, t)
BY DEF Good, GoodJob, Sound, Finished, Room, HoldsPlace, Tells, SameArtifact

LEMMA Concatenated ==
  ASSUME NEW a, NEW b
  PROVE  <<a>> \o <<>> = <<a>> /\ <<a>> \o <<b>> = <<a, b>>
<1>. DEFINE S == {a, b}
            q == <<a>> \o <<b>>
<1>1. <<a>> \in Seq(S) /\ <<b>> \in Seq(S) /\ <<>> \in Seq(S) /\ Len(<<a>>) = 1 /\ Len(<<b>>) = 1
  BY SMTT(60)
<1>2. <<a>> \o <<>> = <<a>> BY <1>1, SMTT(60)
<1>3. q \in Seq(S) /\ Len(q) = 2 /\ q[1] = a /\ q[2] = b BY <1>1, SMTT(60)
<1>. HIDE DEF q
<1>4. q = <<a, b>> BY <1>3, SMTT(60)
<1>. QED BY <1>2, <1>4 DEF q

LEMMA PlannedWrites ==
  ASSUME TypeOK, NEW c \in Caches, NEW q, Planned(c, q)
  PROVE  Writes(c, q)
<1>1. ASSUME NEW s \in Status
      PROVE  \E t \in Status :
               /\ PatchStatus(c, s) = IF t = view[c].st THEN <<>> ELSE <<Patch(c, t)>>
               /\ Good(c, s) => Good(c, t)
               /\ \A j : GoodJob(c, j, s) => GoodJob(c, j, t)
  <2>. DEFINE t == [s EXCEPT !.conds.gen = view[c].gen]
  <2>1. view[c].gen \in Nat BY DEF TypeOK, CacheObject
  <2>2. /\ t \in Status /\ SameArtifact(t, s) /\ t.phase = s.phase
        /\ t.conds.placed = s.conds.placed /\ t.conds.downloaded = s.conds.downloaded
    BY <2>1, GenStatus
  <2>3. PatchStatus(c, s) = IF t = view[c].st THEN <<>> ELSE <<Patch(c, t)>>
    BY DEF PatchStatus, Patch
  <2>. HIDE DEF t
  <2>. QED BY <2>2, <2>3, GoodGen
<1>2. ASSUME NEW s \in Status, q = PatchStatus(c, s), IInv => Good(c, s)
      PROVE  Writes(c, q)
  <2>1. PICK t \in Status :
          /\ PatchStatus(c, s) = IF t = view[c].st THEN <<>> ELSE <<Patch(c, t)>>
          /\ Good(c, s) => Good(c, t)
    BY <1>1
  <2>. QED BY <1>2, <2>1 DEF Writes
<1>3. ASSUME NEW s \in Status, NEW j \in Job, q = <<CreateJob(c, j)>> \o PatchStatus(c, s),
             IInv => Good(c, s) /\ GoodJob(c, j, s)
      PROVE  Writes(c, q)
  <2>1. PICK t \in Status :
          /\ PatchStatus(c, s) = IF t = view[c].st THEN <<>> ELSE <<Patch(c, t)>>
          /\ Good(c, s) => Good(c, t)
          /\ GoodJob(c, j, s) => GoodJob(c, j, t)
    BY <1>1
  <2>2. CASE t = view[c].st
    <3>1. q = <<CreateJob(c, j)>> BY <1>3, <2>1, <2>2, Concatenated
    <3>2. IInv => t = obj[c].st BY <2>2 DEF IInv
    <3>. QED BY <1>3, <2>1, <3>1, <3>2 DEF Writes
  <2>3. CASE t # view[c].st
    <3>1. q = <<CreateJob(c, j), Patch(c, t)>> BY <1>3, <2>1, <2>3, Concatenated
    <3>. QED BY <1>3, <2>1, <3>1 DEF Writes
  <2>. QED BY <2>2, <2>3
<1>. QED BY <1>2, <1>3 DEF Planned, Writes

-----------------------------------------------------------------------------
(* Types.                                                                  *)

LEMMA WriteFields ==
  ASSUME NEW w \in Write
  PROVE  /\ w.c \in Caches
         /\ w.op = "PatchStatus" => w.base \in Status /\ w.new \in Status
         /\ w.op = "CreateJob" => w.job \in Job
<1>1. CASE w \in [op: {"PatchStatus"}, c: Caches, base: Status, new: Status]
  BY <1>1
<1>2. CASE w \in [op: {"CreateJob"}, c: Caches, job: Job]
  BY <1>2
<1>3. CASE w \in [op: {"DeleteJob"}, c: Caches]
  BY <1>3
<1>. QED BY <1>1, <1>2, <1>3 DEF Write

LEMMA WritesTyped ==
  ASSUME TypeOK, NEW c \in Caches, NEW q, Writes(c, q)
  PROVE  q \in Seq(Write)
<1>1. DeleteJob(c) \in Write BY DEF DeleteJob, Write
<1>2. ASSUME NEW t \in Status PROVE Patch(c, t) \in Write
  <2>1. view[c].st \in Status BY DEF TypeOK, CacheObject
  <2>. QED BY <2>1 DEF Patch, Write
<1>3. ASSUME NEW j \in Job PROVE CreateJob(c, j) \in Write BY DEF CreateJob, Write
<1>4. \A a, b \in Write : <<a>> \in Seq(Write) /\ <<a, b>> \in Seq(Write) BY SMTT(60)
<1>5. <<>> \in Seq(Write) BY SMTT(60)
<1>. QED BY <1>1, <1>2, <1>3, <1>4, <1>5 DEF Writes

LEMMA TailTyped ==
  ASSUME TypeOK, todo # <<>>
  PROVE  /\ Tail(todo) \in Seq(Write) /\ Head(todo) \in Write /\ Head(todo) = todo[1]
         /\ Len(todo) \in Nat \ {0}
         /\ Len(Tail(todo)) = Len(todo) - 1
         /\ \A k \in 1 .. Len(Tail(todo)) : k + 1 \in 1 .. Len(todo) /\ Tail(todo)[k] = todo[k + 1]
BY SMTT(60) DEF TypeOK

StatusFields == {"phase", "node", "uid", "path", "size", "hash", "conds"}

LEMMA MergeType ==
  ASSUME NEW cur \in Status, NEW base \in Status, NEW new \in Status
  PROVE  /\ MergePatch(cur, base, new) \in Status
         /\ base = cur => MergePatch(cur, base, new) = new
<1>. DEFINE m == MergePatch(cur, base, new)
<1>1. DOMAIN cur = StatusFields /\ DOMAIN new = StatusFields BY DEF Status, StatusFields
<1>2. /\ DOMAIN m = StatusFields /\ m = [f \in StatusFields |-> m[f]]
      /\ \A f \in StatusFields : m[f] = IF new[f] = base[f] THEN cur[f] ELSE new[f]
  BY <1>1 DEF MergePatch
<1>3. new = [f \in StatusFields |-> new[f]] BY <1>1 DEF Status
<1>. HIDE DEF m
<1>4. m \in Status
  <2>1. /\ m.phase \in {cur.phase, new.phase} /\ m.node \in {cur.node, new.node}
        /\ m.uid \in {cur.uid, new.uid} /\ m.path \in {cur.path, new.path}
        /\ m.size \in {cur.size, new.size} /\ m.hash \in {cur.hash, new.hash}
        /\ m.conds \in {cur.conds, new.conds}
    BY <1>2 DEF StatusFields
  <2>2. m = [phase |-> m.phase, node |-> m.node, uid |-> m.uid, path |-> m.path,
             size |-> m.size, hash |-> m.hash, conds |-> m.conds]
    BY <1>2, SMTT(60) DEF StatusFields
  <2>3. /\ m.phase \in CachePhases /\ m.node \in Nodes \cup {NoNode} /\ m.uid \in Nat
        /\ m.path \in Paths \cup {NoPath} /\ m.size \in Nat /\ m.hash \in Hash \cup {NoHash}
        /\ m.conds \in Conditions
    BY <2>1 DEF Status
  <2>. QED BY <2>2, <2>3 DEF Status
<1>5. ASSUME base = cur PROVE m = new
  <2>1. \A f \in StatusFields : m[f] = new[f] BY <1>2, <1>5
  <2>. QED BY <1>2, <1>3, <2>1
<1>. QED BY <1>4, <1>5 DEF m

LEMMA NewestUID ==
  ASSUME TypeOK, NEW n \in Nodes
  PROVE  LET top == Max({nodes[m].uid : m \in Nodes})
         IN  top \in Nat /\ \A m \in Nodes : nodes[m].uid <= top
<1>. DEFINE S == {nodes[m].uid : m \in Nodes}
<1>1. IsFiniteSet(S)
  <2>. DEFINE f == [m \in Nodes |-> nodes[m].uid]
  <2>1. f \in Surjection(Nodes, S) BY DEF Surjection
  <2>. QED BY <2>1, FS_Surjection, PlannerAssumption
<1>2. S # {} /\ \A x \in S : x \in Nat
  <2>1. \A m \in Nodes : nodes[m].uid \in Nat BY DEF TypeOK
  <2>2. nodes[n].uid \in S OBVIOUS
  <2>. QED BY <2>1, <2>2
<1>3. \A m \in Nodes : nodes[m].uid \in S OBVIOUS
<1>. HIDE DEF S
<1>4. Max(S) \in S /\ \A x \in S : x <= Max(S) BY <1>1, <1>2, FiniteMax
<1>. QED BY <1>2, <1>3, <1>4 DEF S

LEMMA InitTyped == Init => TypeOK
<1>. SUFFICES ASSUME Init PROVE TypeOK
  OBVIOUS
<1>1. NewStatus \in Status
  BY SMTT(60) DEF NewStatus, Status, CachePhases, Conditions, Reasons, Place, Nowhere
<1>2. PICK s \in InitialSpecs :
        obj = [c \in Caches |-> [exists |-> TRUE, spec |-> s[c], gen |-> 1, token |-> 0,
                                  st |-> NewStatus]]
  BY DEF Init
<1>3. \A c \in Caches : s[c] \in Spec_ BY ControllerAssumption
<1>4. 1 \in Nat /\ 0 \in Tokens BY ControllerAssumption, SMTT(60)
<1>5. obj \in [Caches -> CacheObject] BY <1>1, <1>2, <1>3, <1>4 DEF CacheObject
<1>6. nodes \in [Nodes -> [exists: BOOLEAN, uid: Nat, eligible: BOOLEAN]]
  BY PlannerAssumption DEF Init
<1>7. job \in [Caches -> Job \cup {NoJob}] BY DEF Init
<1>8. disk \in [Nodes -> [Paths -> Hash \cup {NoHash}]] BY DEF Init
<1>9. todo \in Seq(Write) BY SMTT(60) DEF Init
<1>10. edits \in 0..MaxEdits /\ faults \in 0..MaxFaults
  BY ControllerAssumption, SMTT(60) DEF Init
<1>. QED BY <1>5, <1>6, <1>7, <1>8, <1>9, <1>10 DEF TypeOK, Init

LEMMA JobFields ==
  ASSUME NEW j \in Job, NEW b \in BOOLEAN, NEW x \in {"Running", "Complete", "Failed"}
  PROVE  /\ [j EXCEPT !.deleting = b] \in Job
         /\ [j EXCEPT !.deleting = b].hash = j.hash /\ [j EXCEPT !.deleting = b].state = j.state
         /\ [j EXCEPT !.deleting = b].deleting = b
         /\ [j EXCEPT !.state = x] \in Job
         /\ [j EXCEPT !.state = x].hash = j.hash /\ [j EXCEPT !.state = x].state = x
BY DEF Job

(* One Job changes.                                                        *)
LEMMA JobTyped ==
  ASSUME TypeOK, NEW c \in Caches, NEW j \in Job \cup {NoJob}
  PROVE  [job EXCEPT ![c] = j] \in [Caches -> Job \cup {NoJob}]
BY DEF TypeOK

(* A Job is being deleted, or has ended.                                   *)
LEMMA JobChanged ==
  ASSUME TypeOK, NEW c \in Caches, job[c] # NoJob, NEW x \in {"Running", "Complete", "Failed"}
  PROVE  /\ [job EXCEPT ![c].deleting = TRUE] \in [Caches -> Job \cup {NoJob}]
         /\ [job EXCEPT ![c].state = x] \in [Caches -> Job \cup {NoJob}]
<1>1. job[c] \in Job BY DEF TypeOK
<1>2. [job[c] EXCEPT !.deleting = TRUE] \in Job /\ [job[c] EXCEPT !.state = x] \in Job
  BY <1>1, JobFields
<1>. QED BY <1>2, JobTyped

LEMMA StoredTyped ==
  ASSUME TypeOK, NEW new \in [Caches -> CacheObject], Stored(new)
  PROVE  obj' \in [Caches -> CacheObject] /\ view' \in [Caches -> CacheObject]
BY DEF TypeOK, Stored

LEMMA EditTyped == TypeOK /\ UserEdit => edits' \in 0..MaxEdits
BY ControllerAssumption, SMTT(60) DEF TypeOK, UserEdit

LEMMA FaultTyped == ASSUME NEW k PROVE TypeOK /\ Fault(k) => faults' \in 0..MaxFaults
BY ControllerAssumption, SMTT(60) DEF TypeOK, Fault

LEMMA TypeStep == TypeOK /\ [Next]_vars => TypeOK'
<1>. SUFFICES ASSUME TypeOK, [Next]_vars PROVE TypeOK'
  OBVIOUS
<1>1. ASSUME NEW c \in Caches, Reconcile(c) PROVE TypeOK'
  <2>1. todo' \in Seq(Write)
    BY <1>1, ReconcilePlanned, PlannedWrites, WritesTyped DEF Reconcile
  <2>. QED BY <1>1, <2>1 DEF TypeOK, Reconcile
<1>2. ASSUME NEW c \in Caches, Deliver(c) PROVE TypeOK'
  BY <1>2 DEF TypeOK, Deliver
<1>3. ASSUME NEW c \in Caches, NEW s \in Specs, EditSpec(c, s) PROVE TypeOK'
  <2>. DEFINE new == [obj EXCEPT ![c].spec = s, ![c].gen = @ + 1]
  <2>1. s \in Spec_ BY ControllerAssumption
  <2>2. obj[c] \in CacheObject BY DEF TypeOK
  <2>3. obj[c].gen + 1 \in Nat
    <3>1. obj[c].gen \in Nat BY <2>2 DEF CacheObject
    <3>. QED BY <3>1, SMTT(60)
  <2>4. [obj[c] EXCEPT !.spec = s, !.gen = obj[c].gen + 1] \in CacheObject
    BY <2>1, <2>2, <2>3 DEF CacheObject
  <2>5. new = [obj EXCEPT ![c] = [obj[c] EXCEPT !.spec = s, !.gen = obj[c].gen + 1]]
    OBVIOUS
  <2>6. new \in [Caches -> CacheObject] BY <2>4, <2>5 DEF TypeOK
  <2>. HIDE DEF new
  <2>7. obj' \in [Caches -> CacheObject] /\ view' \in [Caches -> CacheObject]
    BY <1>3, <2>6, StoredTyped DEF EditSpec, new
  <2>. QED BY <1>3, <2>7, EditTyped DEF TypeOK, EditSpec
<1>4. ASSUME NEW c \in Caches, NEW t \in Tokens, SetRetryToken(c, t) PROVE TypeOK'
  <2>. DEFINE new == [obj EXCEPT ![c].token = t]
  <2>1. obj[c] \in CacheObject BY DEF TypeOK
  <2>2. [obj[c] EXCEPT !.token = t] \in CacheObject BY <2>1 DEF CacheObject
  <2>3. new \in [Caches -> CacheObject] BY <2>2 DEF TypeOK
  <2>. HIDE DEF new
  <2>4. obj' \in [Caches -> CacheObject] /\ view' \in [Caches -> CacheObject]
    BY <1>4, <2>3, StoredTyped DEF SetRetryToken, new
  <2>. QED BY <1>4, <2>4, EditTyped DEF TypeOK, SetRetryToken
<1>5. ASSUME NEW c \in Caches, DeleteCache(c) PROVE TypeOK'
  <2>. DEFINE new == [obj EXCEPT ![c].exists = FALSE]
  <2>1. obj[c] \in CacheObject BY DEF TypeOK
  <2>2. [obj[c] EXCEPT !.exists = FALSE] \in CacheObject BY <2>1 DEF CacheObject
  <2>3. new \in [Caches -> CacheObject] BY <2>2 DEF TypeOK
  <2>. HIDE DEF new
  <2>4. obj' \in [Caches -> CacheObject] /\ view' \in [Caches -> CacheObject]
    BY <1>5, <2>3, StoredTyped DEF DeleteCache, new
  <2>5. job' \in [Caches -> Job \cup {NoJob}]
    BY <1>5, JobChanged DEF DeleteCache, TypeOK
  <2>. QED BY <1>5, <2>4, <2>5, EditTyped DEF TypeOK, DeleteCache
<1>6. ASSUME NEW c \in Caches, PodPublishes(c) PROVE TypeOK'
  <2>1. job[c] \in Job BY <1>6 DEF PodPublishes, Runs, TypeOK
  <2>2. job[c].hash \in Hash BY <2>1 DEF Job
  <2>3. job[c].hash.node \in Nodes /\ job[c].hash.path \in Paths BY <2>2 DEF Hash
  <2>4. disk' \in [Nodes -> [Paths -> Hash \cup {NoHash}]]
    BY <1>6, <2>2, <2>3 DEF TypeOK, PodPublishes
  <2>. QED BY <1>6, <2>4 DEF TypeOK, PodPublishes
<1>7. ASSUME NEW c \in Caches, JobFinishes(c) \/ JobFails(c) PROVE TypeOK'
  <2>1. job' \in [Caches -> Job \cup {NoJob}]
    <3>1. PICK x \in {"Complete", "Failed"} : job[c] # NoJob /\ job' = [job EXCEPT ![c].state = x]
      BY <1>7 DEF JobFinishes, JobFails, Runs
    <3>2. x \in {"Running", "Complete", "Failed"} OBVIOUS
    <3>. QED BY <3>1, <3>2, JobChanged
  <2>2. faults' \in 0..MaxFaults BY <1>7, FaultTyped DEF JobFinishes, JobFails, TypeOK
  <2>. QED BY <1>7, <2>1, <2>2 DEF TypeOK, JobFinishes, JobFails
<1>8. ASSUME NEW c \in Caches, JobExpires(c) \/ JobGone(c) PROVE TypeOK'
  <2>1. job' \in [Caches -> Job \cup {NoJob}]
    BY <1>8, JobTyped DEF JobExpires, JobGone
  <2>2. faults' \in 0..MaxFaults BY <1>8, FaultTyped DEF JobExpires, JobGone, TypeOK
  <2>. QED BY <1>8, <2>1, <2>2 DEF TypeOK, JobExpires, JobGone
<1>9. ASSUME NEW n \in Nodes, NodeCordoned(n) \/ NodeDeleted(n) PROVE TypeOK'
  <2>1. nodes' \in [Nodes -> [exists: BOOLEAN, uid: Nat, eligible: BOOLEAN]]
    <3>. DEFINE R == [exists: BOOLEAN, uid: Nat, eligible: BOOLEAN]
    <3>1. nodes[n] \in R /\ nodes \in [Nodes -> R] BY DEF TypeOK
    <3>2. [nodes[n] EXCEPT !.eligible = ~@] \in R /\ [nodes[n] EXCEPT !.exists = FALSE] \in R
      BY <3>1
    <3>. HIDE DEF R
    <3>3. nodes' \in [Nodes -> R] BY <1>9, <3>1, <3>2 DEF NodeCordoned, NodeDeleted
    <3>. QED BY <3>3 DEF R
  <2>2. faults' \in 0..MaxFaults BY <1>9, FaultTyped DEF NodeCordoned, NodeDeleted
  <2>. QED BY <1>9, <2>1, <2>2 DEF TypeOK, NodeCordoned, NodeDeleted
<1>10. ASSUME NEW n \in Nodes, NodeRecreated(n) PROVE TypeOK'
  <2>. DEFINE uid == Max({nodes[m].uid : m \in Nodes}) + 1
  <2>1. uid \in Nat BY NewestUID, SMTT(60)
  <2>2. nodes' = [nodes EXCEPT ![n] = [exists |-> TRUE, eligible |-> TRUE, uid |-> uid]]
    BY <1>10 DEF NodeRecreated
  <2>. HIDE DEF uid
  <2>3. nodes' \in [Nodes -> [exists: BOOLEAN, uid: Nat, eligible: BOOLEAN]]
    BY <2>1, <2>2 DEF TypeOK
  <2>4. disk' \in [Nodes -> [Paths -> Hash \cup {NoHash}]]
    BY <1>10 DEF NodeRecreated, TypeOK
  <2>. QED BY <1>10, <2>3, <2>4 DEF TypeOK, NodeRecreated
<1>11. CASE WriteStatus
  <2>. DEFINE w == Head(todo)
              st == MergePatch(obj[w.c].st, w.base, w.new)
              new == [obj EXCEPT ![w.c].st = st]
  <2>1. todo' \in Seq(Write) /\ w \in Write /\ w.op = "PatchStatus"
    BY <1>11, TailTyped DEF WriteStatus, Issue
  <2>2. w.c \in Caches /\ w.base \in Status /\ w.new \in Status BY <2>1, WriteFields
  <2>3. obj[w.c] \in CacheObject /\ obj[w.c].st \in Status BY <2>2 DEF TypeOK, CacheObject
  <2>4. st \in Status BY <2>2, <2>3, MergeType
  <2>5. Stored(new) BY <1>11 DEF WriteStatus
  <2>. HIDE DEF st, w
  <2>6. [obj[w.c] EXCEPT !.st = st] \in CacheObject BY <2>3, <2>4 DEF CacheObject
  <2>7. new \in [Caches -> CacheObject] BY <2>2, <2>6 DEF TypeOK
  <2>8. obj' \in [Caches -> CacheObject] /\ view' \in [Caches -> CacheObject]
    BY <2>5, <2>7, StoredTyped
  <2>. QED BY <1>11, <2>1, <2>8 DEF TypeOK, WriteStatus
<1>12. CASE WriteJob
  <2>. DEFINE w == Head(todo)
              j == [w.job EXCEPT !.deleting = ~obj[w.c].exists]
  <2>1. todo' \in Seq(Write) /\ w \in Write /\ w.op = "CreateJob"
    BY <1>12, TailTyped DEF WriteJob, Issue
  <2>2. w.c \in Caches /\ w.job \in Job BY <2>1, WriteFields
  <2>3. job' = [job EXCEPT ![w.c] = j] BY <1>12 DEF WriteJob
  <2>. HIDE DEF w
  <2>4. j \in Job BY <2>2, JobFields
  <2>. HIDE DEF j
  <2>5. job' \in [Caches -> Job \cup {NoJob}] BY <2>2, <2>3, <2>4, JobTyped
  <2>. QED BY <1>12, <2>1, <2>5 DEF TypeOK, WriteJob
<1>13. CASE WriteJobDeletion
  <2>1. todo' \in Seq(Write) /\ Head(todo) \in Write
    BY <1>13, TailTyped DEF WriteJobDeletion, Issue
  <2>2. Head(todo).c \in Caches BY <2>1, WriteFields
  <2>3. job' \in [Caches -> Job \cup {NoJob}]
    BY <1>13, <2>2, JobChanged DEF WriteJobDeletion, TypeOK
  <2>. QED BY <1>13, <2>1, <2>3 DEF TypeOK, WriteJobDeletion
<1>14. CASE ReconcileError \/ PatchNotFound
  <2>1. todo' \in Seq(Write)
    <3>1. <<>> \in Seq(Write) BY SMTT(60)
    <3>. QED BY <1>14, <3>1 DEF ReconcileError, PatchNotFound
  <2>2. faults' \in 0..MaxFaults BY <1>14, FaultTyped DEF ReconcileError, PatchNotFound, TypeOK
  <2>. QED BY <1>14, <2>1, <2>2 DEF TypeOK, ReconcileError, PatchNotFound
<1>15. CASE SecretChanges
  BY <1>15, FaultTyped DEF TypeOK, SecretChanges
<1>16. CASE UNCHANGED vars
  BY <1>16 DEF TypeOK, vars
<1>. QED BY <1>1, <1>2, <1>3, <1>4, <1>5, <1>6, <1>7, <1>8, <1>9, <1>10, <1>11, <1>12, <1>13,
            <1>14, <1>15, <1>16 DEF Next

-----------------------------------------------------------------------------
(* The invariant is kept.  A reconcile leaves good writes.                 *)

LEMMA ReconcileInv ==
  ASSUME IInv, TypeOK', NEW c \in Caches, Reconcile(c)
  PROVE  IInv'
<1>. DEFINE P(q) == Pending(q, obj, nodes, disk, job)
<1>1. Writes(c, todo') BY ReconcilePlanned, PlannedWrites DEF Reconcile, IInv
<1>2. view = obj BY DEF IInv
<1>3. P(<<>>)
  <2>1. 1 .. Len(<<>>) = {} BY SMTT(60)
  <2>. QED BY <2>1 DEF Pending
<1>4. \A a, b : /\ 1 .. Len(<<a>>) = {1} /\ Len(<<a>>) = 1
                /\ <<a>>[1] = a
                /\ 1 .. Len(<<a, b>>) = {1, 2} /\ Len(<<a, b>>) = 2 /\ 1 # 2
                /\ <<a, b>>[1] = a /\ <<a, b>>[2] = b
  BY SMTT(60)
<1>5. /\ DeleteJob(c).op = "DeleteJob"
      /\ \A j : CreateJob(c, j).op = "CreateJob" /\ CreateJob(c, j).c = c
                /\ CreateJob(c, j).job = j
      /\ \A t : Patch(c, t).op = "PatchStatus" /\ Patch(c, t).c = c
                /\ Patch(c, t).base = obj[c].st /\ Patch(c, t).new = t
  BY <1>2 DEF DeleteJob, CreateJob, Patch
<1>6. P(<<DeleteJob(c)>>)
  <2>. DEFINE q == <<DeleteJob(c)>>
  <2>1. 1 .. Len(q) = {1} /\ q[1].op = "DeleteJob" BY <1>4, <1>5
  <2>. HIDE DEF q
  <2>. QED BY <2>1 DEF Pending, q
<1>7. ASSUME NEW t, Good(c, t) PROVE P(<<Patch(c, t)>>)
  <2>. DEFINE q == <<Patch(c, t)>>
  <2>1. /\ 1 .. Len(q) = {1} /\ Len(q) = 1 /\ q[1].op = "PatchStatus" /\ q[1].c = c
        /\ q[1].base = obj[c].st /\ q[1].new = t
    BY <1>4, <1>5
  <2>. HIDE DEF q
  <2>2. P(q) BY <1>7, <2>1 DEF Pending, Good
  <2>. QED BY <2>2 DEF q
<1>8. ASSUME NEW j, GoodJob(c, j, obj[c].st) PROVE P(<<CreateJob(c, j)>>)
  <2>. DEFINE q == <<CreateJob(c, j)>>
  <2>1. 1 .. Len(q) = {1} /\ q[1].op = "CreateJob" /\ q[1].c = c /\ q[1].job = j
    BY <1>4, <1>5
  <2>. HIDE DEF q
  <2>2. P(q) BY <1>8, <2>1 DEF Pending, GoodJob
  <2>. QED BY <2>2 DEF q
<1>9. ASSUME NEW t, NEW j, Good(c, t), GoodJob(c, j, t)
      PROVE  P(<<CreateJob(c, j), Patch(c, t)>>)
  <2>. DEFINE q == <<CreateJob(c, j), Patch(c, t)>>
  <2>1. /\ 1 .. Len(q) = {1, 2} /\ Len(q) = 2
        /\ q[1].op = "CreateJob" /\ q[1].c = c /\ q[1].job = j
        /\ q[2].op = "PatchStatus" /\ q[2].c = c
        /\ q[2].base = obj[c].st /\ q[2].new = t
    BY <1>4, <1>5
  <2>. HIDE DEF q
  <2>2. P(q) BY <1>9, <2>1 DEF Pending, Good, GoodJob
  <2>. QED BY <2>2 DEF q
<1>10. P(todo') BY <1>1, <1>3, <1>6, <1>7, <1>8, <1>9 DEF Writes
<1>. QED BY <1>10 DEF IInv, Reconcile

LEMMA PendingTail ==
  ASSUME IInv, todo # <<>>
  PROVE  Pending(Tail(todo), obj, nodes, disk, job)
<1>. DEFINE q == Tail(todo)
<1>1. /\ Len(todo) \in Nat \ {0} /\ Len(q) = Len(todo) - 1
      /\ \A k \in 1 .. Len(q) : k + 1 \in 1 .. Len(todo) /\ q[k] = todo[k + 1]
  BY TailTyped DEF IInv
<1>. HIDE DEF q
<1>2. \A k \in 1 .. Len(q) : k + 1 # 1 /\ (k + 1 = Len(todo) => k = Len(q))
  BY <1>1, SMTT(60)
<1>3. ASSUME NEW k \in 1 .. Len(q), q[k].op = "PatchStatus"
      PROVE  /\ k = Len(q)
             /\ q[k].base = obj[q[k].c].st
             /\ Sound(q[k].new, nodes, disk, job[q[k].c])
             /\ Room(q[k].c, q[k].new, obj)
  BY <1>1, <1>2, <1>3 DEF IInv, Pending
<1>4. ASSUME NEW k \in 1 .. Len(q) PROVE q[k].op # "CreateJob"
  BY <1>1, <1>2 DEF IInv, Pending
<1>. QED BY <1>3, <1>4 DEF Pending, q

LEMMA PendingKept ==
  ASSUME NEW q \in Seq(Write), NEW o \in [Caches -> CacheObject],
         NEW p \in [Caches -> CacheObject], NEW N, NEW D, NEW J, NEW N2, NEW D2, NEW J2,
         Pending(q, o, N, D, J), Shrinks(o, p), Later(N, D, N2, D2),
         \A k \in 1 .. Len(q) : q[k].op = "PatchStatus" =>
           ~q[k].new.conds.downloaded \/ LaterJob(J[q[k].c], J2[q[k].c])
  PROVE  Pending(q, p, N2, D2, J2)
<1>1. \A k \in 1 .. Len(q) : q[k] \in Write BY SMTT(60)
<1>2. \A k \in 1 .. Len(q) : q[k].c \in Caches /\ p[q[k].c].st = o[q[k].c].st
  BY <1>1, WriteFields DEF Shrinks
<1>3. ASSUME NEW k \in 1 .. Len(q), q[k].op = "PatchStatus"
      PROVE  /\ k = Len(q) /\ q[k].base = p[q[k].c].st
             /\ Sound(q[k].new, N2, D2, J2[q[k].c])
             /\ Room(q[k].c, q[k].new, p)
  <2>1. q[k].new \in Status BY <1>1, <1>3, WriteFields
  <2>2. /\ k = Len(q) /\ q[k].base = o[q[k].c].st
        /\ Sound(q[k].new, N, D, J[q[k].c])
        /\ Room(q[k].c, q[k].new, o)
    BY <1>3 DEF Pending
  <2>3. Sound(q[k].new, N2, D2, J2[q[k].c]) BY <1>3, <2>1, <2>2, SoundKept
  <2>4. Room(q[k].c, q[k].new, p) BY <1>2, <2>1, <2>2, RoomShrinks
  <2>. QED BY <1>2, <2>2, <2>3, <2>4
<1>4. ASSUME NEW k \in 1 .. Len(q), q[k].op = "CreateJob"
      PROVE  /\ k = 1 /\ SoundJob(q[k].job, N2, D2)
             /\ ~p[q[k].c].st.conds.downloaded
             /\ \A i \in 1 .. Len(q) :
                  q[i].op = "PatchStatus" /\ q[i].c = q[k].c => ~q[i].new.conds.downloaded
  <2>1. q[k].job \in Job BY <1>1, <1>4, WriteFields
  <2>2. SoundJob(q[k].job, N, D) BY <1>4 DEF Pending
  <2>3. SoundJob(q[k].job, N2, D2) BY <2>1, <2>2, SoundJobKept
  <2>. QED BY <1>2, <1>4, <2>3 DEF Pending
<1>. QED BY <1>3, <1>4 DEF Pending

(* What may be left of the writes after a step that is not a reconcile.    *)
Remains(q) == q \in {todo, <<>>} \/ (todo # <<>> /\ q = Tail(todo))

(* Any step that edits or removes objects, changes Jobs, nodes and disks   *)
(* as the program does, and issues the next write.                         *)
LEMMA StepInv ==
  ASSUME IInv, TypeOK', view' = obj', Shrinks(obj, obj'), Later(nodes, disk, nodes', disk'),
         Remains(todo'),
         \A c \in Caches : SoundJob(job'[c], nodes', disk'),
         \A c \in Caches :
           \/ LaterJob(job[c], job'[c])
           \/ /\ ~obj[c].st.conds.downloaded
              /\ \A k \in 1 .. Len(todo') :
                   todo'[k].op = "PatchStatus" /\ todo'[k].c = c => ~todo'[k].new.conds.downloaded
  PROVE  IInv'
<1>1. /\ obj \in [Caches -> CacheObject] /\ obj' \in [Caches -> CacheObject]
      /\ todo' \in Seq(Write)
  BY DEF IInv, TypeOK
<1>2. Fits(obj') BY <1>1, FitsShrinks DEF IInv
<1>3. ASSUME NEW c \in Caches PROVE Sound(obj'[c].st, nodes', disk', job'[c])
  <2>1. obj'[c].st = obj[c].st /\ obj[c].st \in Status BY <1>1 DEF Shrinks, CacheObject
  <2>2. Sound(obj[c].st, nodes, disk, job[c]) BY DEF IInv
  <2>. QED BY <2>1, <2>2, SoundKept
<1>4. Pending(todo', obj, nodes, disk, job)
  <2>1. Pending(<<>>, obj, nodes, disk, job)
    <3>1. 1 .. Len(<<>>) = {} BY SMTT(60)
    <3>. QED BY <3>1 DEF Pending
  <2>. QED BY <2>1, PendingTail DEF Remains, IInv
<1>5. Pending(todo', obj', nodes', disk', job')
  <2>1. \A k \in 1 .. Len(todo') : todo'[k] \in Write BY <1>1, SMTT(60)
  <2>2. \A k \in 1 .. Len(todo') : todo'[k].c \in Caches BY <2>1, WriteFields
  <2>3. \A k \in 1 .. Len(todo') : todo'[k].op = "PatchStatus" =>
          ~todo'[k].new.conds.downloaded \/ LaterJob(job[todo'[k].c], job'[todo'[k].c])
    BY <2>2
  <2>. QED BY <1>1, <1>4, <2>3, PendingKept
<1>. QED BY <1>2, <1>3, <1>5 DEF IInv

LEMMA LaterSame ==
  /\ \A N, D : Later(N, D, N, D)
  /\ \A j : LaterJob(j, j) /\ LaterJob(j, NoJob)
BY DEF Later, LaterJob

(* A Job that goes on, ends or is being deleted keeps its identity.        *)
LEMMA JobGoesOn ==
  ASSUME NEW j \in Job, NEW k, NEW N, NEW D, SoundJob(j, N, D), k.hash = j.hash,
         \/ k.state = j.state
         \/ /\ j.state # "Complete"
            /\ k.state = "Complete" => D[j.hash.node][j.hash.path] = j.hash
  PROVE  LaterJob(j, k) /\ SoundJob(k, N, D)
<1>1. j # NoJob BY JobIsSome
<1>. QED BY <1>1 DEF LaterJob, SoundJob

LEMMA JobsGoOn ==
  ASSUME IInv, UNCHANGED <<nodes, disk>>, NEW c \in Caches, NEW k,
         job' = [job EXCEPT ![c] = k],
         LaterJob(job[c], k) /\ SoundJob(k, nodes, disk)
  PROVE  \A d \in Caches : LaterJob(job[d], job'[d]) /\ SoundJob(job'[d], nodes', disk')
<1>1. job'[c] = k /\ \A d \in Caches : d # c => job'[d] = job[d] BY DEF IInv, TypeOK
<1>. QED BY <1>1, LaterSame DEF IInv

LEMMA JobDeleted ==
  ASSUME IInv, UNCHANGED <<nodes, disk>>, NEW c \in Caches,
         job' = IF job[c] = NoJob THEN job ELSE [job EXCEPT ![c].deleting = TRUE]
  PROVE  \A d \in Caches : LaterJob(job[d], job'[d]) /\ SoundJob(job'[d], nodes', disk')
<1>1. CASE job[c] = NoJob BY <1>1, LaterSame DEF IInv
<1>2. CASE job[c] # NoJob
  <2>. DEFINE k == [job[c] EXCEPT !.deleting = TRUE]
  <2>1. job[c] \in Job /\ SoundJob(job[c], nodes, disk) BY <1>2 DEF IInv, TypeOK
  <2>2. k.hash = job[c].hash /\ k.state = job[c].state BY <2>1 DEF Job
  <2>3. job' = [job EXCEPT ![c] = k] BY <1>2
  <2>. HIDE DEF k
  <2>4. LaterJob(job[c], k) /\ SoundJob(k, nodes, disk) BY <2>1, <2>2, JobGoesOn
  <2>. QED BY <2>3, <2>4, JobsGoOn
<1>. QED BY <1>1, <1>2

LEMMA JobEnded ==
  ASSUME IInv, NEW c \in Caches, JobFinishes(c) \/ JobFails(c)
  PROVE  \A d \in Caches : LaterJob(job[d], job'[d]) /\ SoundJob(job'[d], nodes', disk')
<1>1. /\ job[c] # NoJob /\ job[c].state = "Running" /\ UNCHANGED <<nodes, disk>>
  BY DEF JobFinishes, JobFails, Runs
<1>2. PICK x \in {"Complete", "Failed"} :
        /\ job' = [job EXCEPT ![c].state = x]
        /\ x = "Complete" => disk[job[c].hash.node][job[c].hash.path] = job[c].hash
  <2>1. CASE JobFinishes(c) BY <2>1 DEF JobFinishes, Marker
  <2>2. CASE JobFails(c) BY <2>2 DEF JobFails
  <2>. QED BY <2>1, <2>2
<1>. DEFINE k == [job[c] EXCEPT !.state = x]
<1>3. job[c] \in Job /\ SoundJob(job[c], nodes, disk) BY <1>1 DEF IInv, TypeOK
<1>4. k.hash = job[c].hash /\ k.state = x BY <1>3 DEF Job
<1>5. job' = [job EXCEPT ![c] = k] BY <1>2
<1>. HIDE DEF k
<1>6. LaterJob(job[c], k) /\ SoundJob(k, nodes, disk) BY <1>1, <1>2, <1>3, <1>4, JobGoesOn
<1>. QED BY <1>1, <1>5, <1>6, JobsGoOn

LEMMA WriteStatusInv ==
  ASSUME IInv, ~Lagging, TypeOK', WriteStatus
  PROVE  IInv'
<1>. DEFINE w == Head(todo)
<1>1. /\ todo # <<>> /\ w = todo[1] /\ w \in Write /\ w.op = "PatchStatus"
      /\ Len(todo) \in Nat \ {0} /\ Tail(todo) \in Seq(Write)
      /\ Len(Tail(todo)) = Len(todo) - 1
      /\ todo' = Tail(todo)
  BY TailTyped DEF WriteStatus, Issue, IInv
<1>2. w.c \in Caches /\ w.base \in Status /\ w.new \in Status BY <1>1, WriteFields
<1>3. /\ obj' = [obj EXCEPT ![w.c].st = MergePatch(@, w.base, w.new)]
      /\ view' = obj'
      /\ UNCHANGED <<nodes, job, disk>>
  BY DEF WriteStatus, Stored
<1>. HIDE DEF w
<1>4. 1 \in 1 .. Len(todo) BY <1>1, SMTT(60)
<1>5. /\ Len(todo) = 1 /\ w.base = obj[w.c].st
      /\ Sound(w.new, nodes, disk, job[w.c]) /\ Room(w.c, w.new, obj)
  BY <1>1, <1>4 DEF IInv, Pending
<1>6. 1 .. Len(todo') = {} BY <1>1, <1>5, SMTT(60)
<1>7. obj[w.c].st \in Status BY <1>2 DEF IInv, TypeOK, CacheObject
<1>8. obj' = [obj EXCEPT ![w.c].st = w.new] BY <1>2, <1>3, <1>5, <1>7, MergeType
<1>9. /\ obj \in [Caches -> CacheObject] /\ obj' \in [Caches -> CacheObject]
      /\ obj[w.c] \in CacheObject
  BY <1>2 DEF IInv, TypeOK
<1>10. /\ obj'[w.c].st = w.new
       /\ \A d \in Caches \ {w.c} : obj'[d] = obj[d]
  BY <1>2, <1>8, <1>9 DEF CacheObject
<1>11. Fits(obj') BY <1>2, <1>5, <1>9, <1>10, FitsWritten DEF IInv
<1>12. \A d \in Caches : Sound(obj'[d].st, nodes, disk, job[d]) BY <1>5, <1>10 DEF IInv
<1>13. Pending(todo', obj', nodes', disk', job') BY <1>6 DEF Pending
<1>. QED BY <1>3, <1>11, <1>12, <1>13 DEF IInv

(* The Job of the reconcile is made: what is announced says nothing of it. *)
LEMMA WriteJobInv ==
  ASSUME IInv, TypeOK', WriteJob
  PROVE  IInv'
<1>. DEFINE w == Head(todo)
            j == [w.job EXCEPT !.deleting = ~obj[w.c].exists]
<1>1. /\ todo # <<>> /\ w = todo[1] /\ w \in Write /\ w.op = "CreateJob"
      /\ Len(todo) \in Nat \ {0}
      /\ \A k \in 1 .. Len(Tail(todo)) : k + 1 \in 1 .. Len(todo) /\ Tail(todo)[k] = todo[k + 1]
      /\ todo' = Tail(todo)
  BY TailTyped DEF WriteJob, Issue, IInv
<1>2. w.c \in Caches /\ w.job \in Job BY <1>1, WriteFields
<1>3. job' = [job EXCEPT ![w.c] = j] /\ UNCHANGED <<obj, view, nodes, disk>>
  BY DEF WriteJob
<1>. HIDE DEF w
<1>4. 1 \in 1 .. Len(todo) BY <1>1, SMTT(60)
<1>5. /\ SoundJob(w.job, nodes, disk) /\ ~obj[w.c].st.conds.downloaded
      /\ \A i \in 1 .. Len(todo) :
           todo[i].op = "PatchStatus" /\ todo[i].c = w.c => ~todo[i].new.conds.downloaded
  BY <1>1, <1>4 DEF IInv, Pending
<1>6. j.hash = w.job.hash /\ j.state = w.job.state BY <1>2 DEF Job
<1>. HIDE DEF j
<1>7. SoundJob(j, nodes, disk)
  <2>1. w.job # NoJob BY <1>2, JobIsSome
  <2>. QED BY <1>5, <1>6, <2>1 DEF SoundJob
<1>8. job'[w.c] = j /\ \A d \in Caches : d # w.c => job'[d] = job[d]
  BY <1>2, <1>3 DEF IInv, TypeOK
<1>9. \A d \in Caches : SoundJob(job'[d], nodes', disk') BY <1>3, <1>7, <1>8 DEF IInv
<1>10. \A k \in 1 .. Len(todo') :
         todo'[k].op = "PatchStatus" /\ todo'[k].c = w.c => ~todo'[k].new.conds.downloaded
  BY <1>1, <1>5
<1>11. \A d \in Caches :
         \/ LaterJob(job[d], job'[d])
         \/ /\ ~obj[d].st.conds.downloaded
            /\ \A k \in 1 .. Len(todo') :
                 todo'[k].op = "PatchStatus" /\ todo'[k].c = d => ~todo'[k].new.conds.downloaded
  BY <1>5, <1>8, <1>10, LaterSame
<1>12. view' = obj' /\ Shrinks(obj, obj') /\ Remains(todo') /\ Later(nodes, disk, nodes', disk')
  BY <1>1, <1>3, LaterSame DEF IInv, Shrinks, Remains
<1>. QED BY <1>9, <1>11, <1>12, StepInv

(* Nodes change: a node that registers again is nobody's.                  *)
LEMMA NodesLater ==
  ASSUME TypeOK, NEW n \in Nodes, NodeCordoned(n) \/ NodeDeleted(n) \/ NodeRecreated(n)
  PROVE  Later(nodes, disk, nodes', disk')
<1>0. \A m \in Nodes : nodes[m] \in [exists: BOOLEAN, uid: Nat, eligible: BOOLEAN]
                       /\ nodes[m].uid \in Nat
  BY DEF TypeOK
<1>1. ASSUME NodeCordoned(n) \/ NodeDeleted(n) PROVE Later(nodes, disk, nodes', disk')
  <2>1. disk' = disk BY <1>1 DEF NodeCordoned, NodeDeleted
  <2>2. \A m \in Nodes : nodes'[m].uid = nodes[m].uid /\ (nodes'[m].exists => nodes[m].exists)
    <3>1. nodes \in [Nodes -> [exists: BOOLEAN, uid: Nat, eligible: BOOLEAN]] BY DEF TypeOK
    <3>2. CASE NodeCordoned(n) BY <1>0, <3>1, <3>2 DEF NodeCordoned
    <3>3. CASE NodeDeleted(n) BY <1>0, <3>1, <3>3 DEF NodeDeleted
    <3>. QED BY <1>1, <3>2, <3>3
  <2>3. \A uid \in Nat : Recorded(nodes, uid) => Recorded(nodes', uid) BY <2>2 DEF Recorded
  <2>. QED BY <2>1, <2>2, <2>3 DEF Later, IsNode
<1>2. ASSUME NodeRecreated(n) PROVE Later(nodes, disk, nodes', disk')
  <2>. DEFINE top == Max({nodes[m].uid : m \in Nodes})
  <2>1. top \in Nat /\ \A m \in Nodes : nodes[m].uid <= top BY NewestUID
  <2>2. nodes' = [nodes EXCEPT ![n] = [exists |-> TRUE, eligible |-> TRUE, uid |-> top + 1]]
        /\ disk' \in {disk, [disk EXCEPT ![n] = [p \in Paths |-> NoHash]]}
    BY <1>2 DEF NodeRecreated
  <2>. HIDE DEF top
  <2>3. nodes'[n].uid = top + 1 /\ \A m \in Nodes : m # n => nodes'[m] = nodes[m]
    BY <2>2 DEF TypeOK
  <2>4. \A m \in Nodes : m # n => disk'[m] = disk[m] BY <2>2 DEF TypeOK
  <2>5. \A uid \in Nat : Recorded(nodes, uid) => uid <= top
    BY <1>0, <2>1, SMTT(60) DEF Recorded
  <2>6. ~(top + 1 <= top) /\ nodes[n].uid <= top + 1 BY <1>0, <2>1, SMTT(60)
  <2>7. ASSUME NEW m \in Nodes, NEW uid \in Nat, Recorded(nodes, uid), IsNode(nodes', m, uid)
        PROVE  IsNode(nodes, m, uid) /\ disk'[m] = disk[m]
    <3>1. m # n BY <2>3, <2>5, <2>6, <2>7 DEF IsNode
    <3>. QED BY <2>3, <2>4, <2>7, <3>1 DEF IsNode
  <2>8. ASSUME NEW uid \in Nat, Recorded(nodes, uid) PROVE Recorded(nodes', uid)
    <3>1. uid <= top + 1 BY <2>1, <2>5, <2>8, SMTT(60)
    <3>. QED BY <2>3, <3>1 DEF Recorded
  <2>. QED BY <2>7, <2>8 DEF Later
<1>. QED BY <1>1, <1>2

(* A marker appears where there was none.                                  *)
LEMMA DisksLater ==
  ASSUME TypeOK, NEW c \in Caches, PodPublishes(c)
  PROVE  Later(nodes, disk, nodes', disk')
<1>. DEFINE h == job[c].hash
<1>1. job[c] \in Job BY DEF PodPublishes, Runs, TypeOK
<1>2. h \in Hash BY <1>1 DEF Job
<1>3. h.node \in Nodes /\ h.path \in Paths BY <1>2 DEF Hash
<1>4. /\ disk[h.node][h.path] = NoHash /\ nodes' = nodes
      /\ disk' = [disk EXCEPT ![h.node][h.path] = h]
  BY DEF PodPublishes, Marker
<1>. HIDE DEF h
<1>5. \A m \in Nodes, p \in Paths : disk[m][p] # NoHash => disk'[m][p] = disk[m][p]
  BY <1>3, <1>4 DEF TypeOK
<1>. QED BY <1>4, <1>5 DEF Later, IsNode

LEMMA InvInit == Init => IInv
<1>. SUFFICES ASSUME Init PROVE IInv
  OBVIOUS
<1>1. TypeOK /\ view = obj BY InitTyped DEF Init
<1>2. /\ \A c \in Caches : obj[c].st = NewStatus /\ job[c] = NoJob
      /\ todo = <<>>
  <2>1. PICK s \in InitialSpecs :
          obj = [c \in Caches |-> [exists |-> TRUE, spec |-> s[c], gen |-> 1, token |-> 0,
                                    st |-> NewStatus]]
    BY DEF Init
  <2>2. \A c \in Caches : obj[c].st = NewStatus BY <2>1
  <2>. QED BY <2>2 DEF Init
<1>3. NewStatus.node = NoNode /\ NewStatus.phase = "New" /\ ~NewStatus.conds.downloaded
  BY SMTT(60) DEF NewStatus
<1>4. \A c \in Caches : Sound(obj[c].st, nodes, disk, job[c]) /\ SoundJob(job[c], nodes, disk)
  BY <1>2, <1>3 DEF Sound, SoundJob
<1>5. \A n : Holders(obj, n) = {} BY <1>2, <1>3 DEF Holders, HoldsPlace
<1>6. \A n \in Nodes : 0 <= Capacity[n] BY PlannerAssumption, SMTT(60)
<1>7. Fits(obj) BY <1>5, <1>6, SumEmpty DEF Fits
<1>8. Pending(todo, obj, nodes, disk, job)
  <2>1. 1 .. Len(<<>>) = {} BY SMTT(60)
  <2>. QED BY <1>2, <2>1 DEF Pending
<1>. QED BY <1>1, <1>4, <1>7, <1>8 DEF IInv

LEMMA InvStep ==
  ASSUME ~Lagging
  PROVE  IInv /\ [Next]_vars => IInv'
<1>. SUFFICES ASSUME IInv, [Next]_vars PROVE IInv'
  OBVIOUS
<1>0. TypeOK' BY TypeStep DEF IInv
<1>1. \A c \in Caches : SoundJob(job[c], nodes, disk) BY DEF IInv
<1>2. view = obj /\ obj \in [Caches -> CacheObject] BY DEF IInv, TypeOK
<1>3. ASSUME NEW c \in Caches, Reconcile(c) PROVE IInv'
  BY <1>0, <1>3, ReconcileInv
<1>4. ASSUME NEW c \in Caches, Deliver(c) PROVE FALSE
  BY <1>2, <1>4 DEF Deliver
<1>5. ASSUME NEW c \in Caches,
             \/ \E s \in Specs : EditSpec(c, s)
             \/ \E t \in Tokens : SetRetryToken(c, t)
      PROVE  IInv'
  <2>1. view' = obj' /\ UNCHANGED <<nodes, job, disk, todo>>
    BY <1>5 DEF EditSpec, SetRetryToken, Stored
  <2>2. Shrinks(obj, obj')
    <3>1. obj[c] \in CacheObject BY <1>2
    <3>2. ASSUME NEW s \in Specs, EditSpec(c, s) PROVE Shrinks(obj, obj')
      BY <1>2, <3>1, <3>2 DEF EditSpec, Stored, Shrinks, CacheObject
    <3>3. ASSUME NEW t \in Tokens, SetRetryToken(c, t) PROVE Shrinks(obj, obj')
      BY <1>2, <3>1, <3>3 DEF SetRetryToken, Stored, Shrinks, CacheObject
    <3>. QED BY <1>5, <3>2, <3>3
  <2>. QED BY <1>0, <1>1, <2>1, <2>2, LaterSame, StepInv DEF Remains
<1>6. ASSUME NEW c \in Caches, DeleteCache(c) PROVE IInv'
  <2>1. view' = obj' /\ UNCHANGED <<nodes, disk, todo>>
    BY <1>6 DEF DeleteCache, Stored
  <2>2. Shrinks(obj, obj')
    <3>1. obj[c] \in CacheObject BY <1>2
    <3>. QED BY <1>2, <1>6, <3>1 DEF DeleteCache, Stored, Shrinks, CacheObject
  <2>3. \A d \in Caches : LaterJob(job[d], job'[d]) /\ SoundJob(job'[d], nodes', disk')
    BY <1>6, <2>1, JobDeleted DEF DeleteCache
  <2>. QED BY <1>0, <2>1, <2>2, <2>3, LaterSame, StepInv DEF Remains
<1>7. ASSUME NEW c \in Caches, PodPublishes(c) PROVE IInv'
  <2>1. UNCHANGED <<obj, view, job, todo>> BY <1>7 DEF PodPublishes
  <2>2. Later(nodes, disk, nodes', disk') BY <1>7, DisksLater DEF IInv
  <2>3. \A d \in Caches : SoundJob(job'[d], nodes', disk')
    BY <1>1, <2>1, <2>2, SoundJobKept DEF IInv, TypeOK
  <2>. QED BY <1>0, <1>2, <2>1, <2>2, <2>3, LaterSame, StepInv DEF Remains, Shrinks
<1>8. ASSUME NEW c \in Caches, JobFinishes(c) \/ JobFails(c) PROVE IInv'
  <2>1. UNCHANGED <<obj, view, nodes, disk, todo>> BY <1>8 DEF JobFinishes, JobFails
  <2>2. \A d \in Caches : LaterJob(job[d], job'[d]) /\ SoundJob(job'[d], nodes', disk')
    BY <1>8, JobEnded
  <2>. QED BY <1>0, <1>2, <2>1, <2>2, LaterSame, StepInv DEF Remains, Shrinks
<1>9. ASSUME NEW c \in Caches, JobExpires(c) \/ JobGone(c) PROVE IInv'
  <2>1. UNCHANGED <<obj, view, nodes, disk, todo>> /\ job' = [job EXCEPT ![c] = NoJob]
    BY <1>9 DEF JobExpires, JobGone
  <2>2. LaterJob(job[c], NoJob) /\ SoundJob(NoJob, nodes, disk) BY LaterSame DEF SoundJob
  <2>3. \A d \in Caches : LaterJob(job[d], job'[d]) /\ SoundJob(job'[d], nodes', disk')
    BY <2>1, <2>2, JobsGoOn
  <2>. QED BY <1>0, <1>2, <2>1, <2>3, LaterSame, StepInv DEF Remains, Shrinks
<1>10. ASSUME NEW n \in Nodes, NodeCordoned(n) \/ NodeDeleted(n) \/ NodeRecreated(n)
       PROVE  IInv'
  <2>1. UNCHANGED <<obj, view, job, todo>>
    BY <1>10 DEF NodeCordoned, NodeDeleted, NodeRecreated
  <2>2. Later(nodes, disk, nodes', disk') BY <1>10, NodesLater DEF IInv
  <2>3. \A d \in Caches : SoundJob(job'[d], nodes', disk')
    BY <1>1, <2>1, <2>2, SoundJobKept DEF IInv, TypeOK
  <2>. QED BY <1>0, <1>2, <2>1, <2>2, <2>3, LaterSame, StepInv DEF Remains, Shrinks
<1>11. CASE WriteStatus BY <1>0, <1>11, WriteStatusInv
<1>12. CASE WriteJob BY <1>0, <1>12, WriteJobInv
<1>13. CASE WriteJobDeletion
  <2>1. /\ UNCHANGED <<obj, view, nodes, disk>> /\ todo # <<>> /\ todo' = Tail(todo)
        /\ Head(todo) \in Write
    BY <1>13, TailTyped DEF WriteJobDeletion, Issue, IInv
  <2>2. Head(todo).c \in Caches BY <2>1, WriteFields
  <2>3. \A d \in Caches : LaterJob(job[d], job'[d]) /\ SoundJob(job'[d], nodes', disk')
    BY <1>13, <2>1, <2>2, JobDeleted DEF WriteJobDeletion
  <2>. QED BY <1>0, <1>2, <2>1, <2>3, LaterSame, StepInv DEF Remains, Shrinks
<1>14. CASE ReconcileError \/ PatchNotFound
  <2>1. UNCHANGED <<obj, view, nodes, job, disk>> /\ todo' = <<>>
    BY <1>14 DEF ReconcileError, PatchNotFound
  <2>. QED BY <1>0, <1>1, <1>2, <2>1, LaterSame, StepInv DEF Remains, Shrinks
<1>15. CASE SecretChanges \/ UNCHANGED vars
  <2>1. UNCHANGED <<obj, view, nodes, job, disk, todo>>
    BY <1>15 DEF SecretChanges, vars
  <2>. QED BY <1>0, <1>1, <1>2, <2>1, LaterSame, StepInv DEF Remains, Shrinks
<1>. QED BY <1>3, <1>4, <1>5, <1>6, <1>7, <1>8, <1>9, <1>10, <1>11, <1>12, <1>13, <1>14, <1>15
         DEF Next

-----------------------------------------------------------------------------
(* The theorems.                                                           *)

(* Whatever is read late, lost, edited or deleted, and in whatever order,  *)
(* objects, Jobs, markers and the writes a reconcile plans stay well       *)
(* formed: a merge patch over a status that has changed since it was read  *)
(* is a status.                                                            *)
THEOREM TypeCorrect == Spec => []TypeOK
<1>. QED BY InitTyped, TypeStep, PTL DEF Spec

(* With fresh reads a cache that reports Ready on a node that is still     *)
(* that node has its own artifact at its path: whatever Jobs were          *)
(* replaced, expired or failed, nodes came and went, and specs changed.    *)
THEOREM ReadyMeansOnDisk ==
  ASSUME ~Lagging
  PROVE  Spec => []ReadyOnDisk
<1>1. IInv => ReadyOnDisk BY SoundReady DEF IInv
<1>. QED BY <1>1, InvInit, InvStep, PTL DEF Spec

(* With fresh reads no two caches are given the same path of a node, even  *)
(* when a reconcile is cut off between its writes: Plan refuses a path     *)
(* that another cache reserves, and what holds a path reserves it.         *)
THEOREM PlacesNotShared ==
  ASSUME ~Lagging
  PROVE  Spec => []NoSharedPlacement
<1>1. IInv => NoSharedPlacement BY FitsNoSharing DEF IInv
<1>. QED BY <1>1, InvInit, InvStep, PTL DEF Spec

(* With fresh reads the caches placed on a node fit into its capacity: the *)
(* sum Plan compares may saturate at the largest int64, and then refuses.  *)
THEOREM NodesNotOverfilled ==
  ASSUME ~Lagging
  PROVE  Spec => []CapacityRespected
<1>1. IInv => CapacityRespected BY FitsCapacity DEF IInv
<1>. QED BY <1>1, InvInit, InvStep, PTL DEF Spec

-----------------------------------------------------------------------------
(* Writers.  A Job that runs is told of in the status of its cache, or the *)
(* write that tells of it is pending.  That needs two things more: no      *)
(* write is lost, and no cache with a Job becomes invalid, which fails the *)
(* cache and leaves its Job running.                                       *)

Undisturbed == "Error" \notin FaultKinds /\ \A s \in Specs : s.valid

PatchOf(q, k, c) == q[k].op = "PatchStatus" /\ q[k].c = c

Told(c, j, s, q) ==
  /\ Tells(s, j) \/ \E k \in 1 .. Len(q) : PatchOf(q, k, c)
  /\ \A k \in 1 .. Len(q) : PatchOf(q, k, c) => Tells(q[k].new, j)

WriterInv ==
  /\ \A c \in Caches :
       Downloads(job[c]) => obj[c].exists /\ Told(c, job[c], obj[c].st, todo)
  /\ \A c \in Caches : ~obj[c].spec.valid => job[c] = NoJob
  /\ \A k \in 1 .. Len(todo) : todo[k].op = "CreateJob" =>
       /\ job[todo[k].c] = NoJob
       /\ obj[todo[k].c].spec.valid
       /\ Told(todo[k].c, todo[k].job, obj[todo[k].c].st, todo)

LEMMA TellsHolds ==
  ASSUME NEW s \in Status, NEW j \in Job, Tells(s, j)
  PROVE  HoldsPlace(s) /\ s.node = j.hash.node /\ s.path = j.hash.path
<1>1. j.hash.node \in Nodes BY DEF Job, Hash
<1>2. s.node # NoNode BY <1>1, PlannerAssumption DEF Tells
<1>. QED BY <1>2 DEF Tells, HoldsPlace

LEMMA WriterOne ==
  ASSUME IInv, WriterInv
  PROVE  OneWriter
<1>. SUFFICES ASSUME NEW c \in Caches, NEW d \in Caches, c # d,
                     Downloads(job[c]), Downloads(job[d]),
                     job[c].hash.node = job[d].hash.node
              PROVE  job[c].hash.path # job[d].hash.path
  BY DEF OneWriter, Runs, Downloads
<1>1. /\ job[c] \in Job /\ job[d] \in Job /\ obj[c].exists /\ obj[d].exists
      /\ obj[c].st \in Status /\ obj[d].st \in Status
  BY DEF IInv, TypeOK, CacheObject, Downloads, WriterInv
<1>2. Told(c, job[c], obj[c].st, todo) /\ Told(d, job[d], obj[d].st, todo)
  BY DEF WriterInv
<1>3. ASSUME NEW a \in Caches, NEW b \in Caches, a # b, obj[a].exists, obj[b].exists,
             job[a] \in Job, job[b] \in Job, Tells(obj[b].st, job[b]),
             job[a].hash.node = job[b].hash.node, NEW k \in 1 .. Len(todo), PatchOf(todo, k, a),
             Tells(todo[k].new, job[a])
      PROVE  job[a].hash.path # job[b].hash.path
  <2>1. obj[b].st \in Status BY DEF IInv, TypeOK, CacheObject
  <2>2. todo[k].new \in Status
    <3>1. todo[k] \in Write BY SMTT(60) DEF IInv, TypeOK
    <3>. QED BY <1>3, <3>1, WriteFields DEF PatchOf
  <2>3. Room(a, todo[k].new, obj) BY <1>3 DEF IInv, Pending, PatchOf
  <2>4. /\ HoldsPlace(todo[k].new) /\ todo[k].new.node = job[a].hash.node
        /\ todo[k].new.path = job[a].hash.path
    BY <1>3, <2>2, TellsHolds
  <2>5. HoldsPlace(obj[b].st) /\ obj[b].st.node = job[b].hash.node
        /\ obj[b].st.path = job[b].hash.path
    BY <1>3, <2>1, TellsHolds
  <2>6. b \in Holders(obj, todo[k].new.node) \ {a} BY <1>3, <2>4, <2>5 DEF Holders
  <2>. QED BY <2>3, <2>4, <2>5, <2>6 DEF Room
<1>4. CASE \E k \in 1 .. Len(todo) : PatchOf(todo, k, c)
  <2>1. PICK k \in 1 .. Len(todo) : PatchOf(todo, k, c) BY <1>4
  <2>2. k = Len(todo) BY <2>1 DEF IInv, Pending, PatchOf
  <2>3. ~\E i \in 1 .. Len(todo) : PatchOf(todo, i, d)
    BY <2>1, <2>2 DEF IInv, Pending, PatchOf
  <2>. QED BY <1>1, <1>2, <1>3, <2>1, <2>3 DEF Told
<1>5. CASE \E k \in 1 .. Len(todo) : PatchOf(todo, k, d)
  <2>1. PICK k \in 1 .. Len(todo) : PatchOf(todo, k, d) BY <1>5
  <2>2. k = Len(todo) BY <2>1 DEF IInv, Pending, PatchOf
  <2>3. ~\E i \in 1 .. Len(todo) : PatchOf(todo, i, c)
    BY <2>1, <2>2 DEF IInv, Pending, PatchOf
  <2>. QED BY <1>1, <1>2, <1>3, <2>1, <2>3 DEF Told
<1>6. CASE Tells(obj[c].st, job[c]) /\ Tells(obj[d].st, job[d])
  <2>1. /\ HoldsPlace(obj[c].st) /\ obj[c].st.node = job[c].hash.node
        /\ obj[c].st.path = job[c].hash.path
        /\ HoldsPlace(obj[d].st) /\ obj[d].st.node = job[d].hash.node
        /\ obj[d].st.path = job[d].hash.path
    BY <1>1, <1>6, TellsHolds
  <2>2. NoSharedPlacement BY FitsNoSharing DEF IInv
  <2>3. Holds(c) /\ Holds(d) BY <1>1, <2>1 DEF Holds, HoldsPlace
  <2>. QED BY <2>1, <2>2, <2>3 DEF NoSharedPlacement
<1>. QED BY <1>2, <1>4, <1>5, <1>6 DEF Told

(* A reconcile adds only writes that tell of the Job there is.             *)
LEMMA ReconcileWriter ==
  ASSUME IInv, WriterInv, NEW c \in Caches, Reconcile(c)
  PROVE  WriterInv'
<1>1. Writes(c, todo') BY ReconcilePlanned, PlannedWrites DEF Reconcile, IInv
<1>2. view = obj /\ UNCHANGED <<obj, job>> /\ todo = <<>> BY DEF IInv, Reconcile
<1>3. 1 .. Len(todo) = {} BY <1>2, SMTT(60)
<1>4. \A d \in Caches : Downloads(job[d]) => obj[d].exists /\ Tells(obj[d].st, job[d])
  BY <1>3 DEF WriterInv, Told
<1>5. \A a, b : /\ 1 .. Len(<<a>>) = {1} /\ <<a>>[1] = a
                /\ 1 .. Len(<<a, b>>) = {1, 2}
                /\ <<a, b>>[1] = a /\ <<a, b>>[2] = b
  BY SMTT(60)
<1>6. /\ DeleteJob(c).op = "DeleteJob"
      /\ \A j : CreateJob(c, j).op = "CreateJob" /\ CreateJob(c, j).c = c
                /\ CreateJob(c, j).job = j
      /\ \A t : Patch(c, t).op = "PatchStatus" /\ Patch(c, t).c = c /\ Patch(c, t).new = t
  BY DEF DeleteJob, CreateJob, Patch
<1>. DEFINE q == todo'
<1>7. CASE \A k \in 1 .. Len(q) : q[k].op = "DeleteJob"
  BY <1>2, <1>4, <1>7 DEF WriterInv, Told, PatchOf
<1>8. ASSUME NEW t, q = <<Patch(c, t)>>, Good(c, t) PROVE WriterInv'
  <2>1. 1 .. Len(q) = {1} /\ q[1].op = "PatchStatus" /\ q[1].c = c /\ q[1].new = t
    BY <1>5, <1>6, <1>8
  <2>2. Downloads(job[c]) => Tells(t, job[c])
    BY <1>4, <1>8 DEF Good, WriterInv, Downloads
  <2>. HIDE DEF q
  <2>3. \A d \in Caches : Downloads(job[d]) => Told(d, job[d], obj[d].st, q)
    BY <1>4, <2>1, <2>2 DEF Told, PatchOf
  <2>4. \A k \in 1 .. Len(q) : q[k].op # "CreateJob" BY <2>1
  <2>. QED BY <1>2, <1>4, <2>3, <2>4 DEF WriterInv, q
<1>9. ASSUME NEW j, q = <<CreateJob(c, j)>>, GoodJob(c, j, obj[c].st) PROVE WriterInv'
  <2>1. 1 .. Len(q) = {1} /\ q[1].op = "CreateJob" /\ q[1].c = c /\ q[1].job = j
    BY <1>5, <1>6, <1>9
  <2>. HIDE DEF q
  <2>2. \A d \in Caches : Downloads(job[d]) => Told(d, job[d], obj[d].st, q)
    BY <1>4, <2>1 DEF Told, PatchOf
  <2>3. job[c] = NoJob /\ obj[c].spec.valid /\ Told(c, j, obj[c].st, q)
    BY <1>9, <2>1 DEF GoodJob, Told, PatchOf
  <2>4. \A k \in 1 .. Len(q) :
          job[q[k].c] = NoJob /\ obj[q[k].c].spec.valid /\ Told(q[k].c, q[k].job, obj[q[k].c].st, q)
    BY <2>1, <2>3
  <2>. QED BY <1>2, <1>4, <2>2, <2>4 DEF WriterInv, q
<1>10. ASSUME NEW t, NEW j, q = <<CreateJob(c, j), Patch(c, t)>>, GoodJob(c, j, t)
       PROVE  WriterInv'
  <2>1. /\ 1 .. Len(q) = {1, 2} /\ q[1].op = "CreateJob" /\ q[1].c = c /\ q[1].job = j
        /\ q[2].op = "PatchStatus" /\ q[2].c = c /\ q[2].new = t
    BY <1>5, <1>6, <1>10
  <2>. HIDE DEF q
  <2>2. job[c] = NoJob /\ obj[c].spec.valid /\ Tells(t, j) BY <1>10 DEF GoodJob
  <2>3. \A d \in Caches : Downloads(job[d]) => Told(d, job[d], obj[d].st, q)
    <3>1. \A d \in Caches : Downloads(job[d]) => d # c BY <2>2 DEF Downloads
    <3>. QED BY <1>4, <2>1, <3>1 DEF Told, PatchOf
  <2>4. Told(c, j, obj[c].st, q) BY <2>1, <2>2 DEF Told, PatchOf
  <2>5. \A k \in 1 .. Len(q) : q[k].op = "CreateJob" =>
          job[q[k].c] = NoJob /\ obj[q[k].c].spec.valid /\ Told(q[k].c, q[k].job, obj[q[k].c].st, q)
    BY <2>1, <2>2, <2>4
  <2>. QED BY <1>2, <1>4, <2>3, <2>5 DEF WriterInv, q
<1>11. ASSUME q = <<>> \/ q = <<DeleteJob(c)>>
       PROVE  \A k \in 1 .. Len(q) : q[k].op = "DeleteJob"
  <2>1. CASE q = <<>>
    <3>1. 1 .. Len(q) = {} BY <1>2, <1>3, <2>1
    <3>. QED BY <3>1
  <2>2. CASE q = <<DeleteJob(c)>>
    <3>1. 1 .. Len(q) = {1} /\ q[1] = DeleteJob(c) BY <1>5, <2>2
    <3>. QED BY <1>6, <3>1
  <2>. QED BY <1>11, <2>1, <2>2
<1>. QED BY <1>1, <1>7, <1>8, <1>9, <1>10, <1>11 DEF Writes

(* Steps that start no download and leave the writes alone.                *)
LEMMA WriterKept ==
  ASSUME WriterInv, TypeOK, todo' = todo,
         \A c \in Caches :
           /\ obj'[c].st = obj[c].st
           /\ obj[c].spec.valid => obj'[c].spec.valid
           /\ job[c] = NoJob => job'[c] = NoJob
           /\ Downloads(job'[c]) =>
                /\ Downloads(job[c]) /\ job'[c].hash = job[c].hash
                /\ obj'[c].exists = obj[c].exists
  PROVE  WriterInv'
<1>1. \A k \in 1 .. Len(todo) : todo[k].c \in Caches
  <2>1. \A k \in 1 .. Len(todo) : todo[k] \in Write BY SMTT(60) DEF TypeOK
  <2>. QED BY <2>1, WriteFields
<1>2. ASSUME NEW c \in Caches, Downloads(job'[c])
      PROVE  obj'[c].exists /\ Told(c, job'[c], obj'[c].st, todo)
  <2>1. Downloads(job[c]) /\ job'[c].hash = job[c].hash /\ obj'[c].exists = obj[c].exists
    BY <1>2
  <2>2. obj[c].exists /\ Told(c, job[c], obj[c].st, todo) BY <2>1 DEF WriterInv
  <2>3. \A s : Tells(s, job[c]) => Tells(s, job'[c]) BY <2>1 DEF Tells
  <2>. QED BY <2>1, <2>2, <2>3 DEF Told
<1>3. \A c \in Caches : ~obj'[c].spec.valid => job'[c] = NoJob BY DEF WriterInv
<1>4. ASSUME NEW k \in 1 .. Len(todo), todo[k].op = "CreateJob"
      PROVE  /\ job'[todo[k].c] = NoJob /\ obj'[todo[k].c].spec.valid
             /\ Told(todo[k].c, todo[k].job, obj'[todo[k].c].st, todo)
  BY <1>1, <1>4 DEF WriterInv
<1>. QED BY <1>2, <1>3, <1>4 DEF WriterInv

(* A write other than a status is issued: the status still follows.        *)
LEMMA ToldTail ==
  ASSUME TypeOK, todo # <<>>, todo[1].op # "PatchStatus", NEW c, NEW j, NEW s,
         Told(c, j, s, todo)
  PROVE  Told(c, j, s, Tail(todo))
<1>. DEFINE q == Tail(todo)
<1>1. /\ Len(todo) \in Nat \ {0} /\ Len(q) = Len(todo) - 1
      /\ \A k \in 1 .. Len(q) : k + 1 \in 1 .. Len(todo) /\ q[k] = todo[k + 1]
  BY TailTyped
<1>. HIDE DEF q
<1>2. \A k \in 1 .. Len(todo) : k # 1 => k - 1 \in 1 .. Len(q) /\ (k - 1) + 1 = k
  BY <1>1, SMTT(60)
<1>3. ASSUME NEW k \in 1 .. Len(todo), PatchOf(todo, k, c) PROVE PatchOf(q, k - 1, c)
  <2>1. k # 1 BY <1>3 DEF PatchOf
  <2>2. k - 1 \in 1 .. Len(q) /\ (k - 1) + 1 = k BY <1>2, <2>1
  <2>3. q[k - 1] = todo[k] BY <1>1, <2>2
  <2>. QED BY <1>3, <2>3 DEF PatchOf
<1>4. (\E k \in 1 .. Len(todo) : PatchOf(todo, k, c)) => \E k \in 1 .. Len(q) : PatchOf(q, k, c)
  <2>1. ASSUME NEW k \in 1 .. Len(todo), PatchOf(todo, k, c)
        PROVE  k - 1 \in 1 .. Len(q) /\ PatchOf(q, k - 1, c)
    <3>1. k # 1 BY <2>1 DEF PatchOf
    <3>. QED BY <1>2, <1>3, <2>1, <3>1
  <2>. QED BY <2>1
<1>5. \A k \in 1 .. Len(q) : PatchOf(q, k, c) => Tells(q[k].new, j)
  BY <1>1 DEF Told, PatchOf
<1>. QED BY <1>4, <1>5 DEF Told, q

(* A Job that is being deleted does not count as a download.               *)
LEMMA DeletingStops ==
  ASSUME TypeOK, NEW c \in Caches,
         job' = IF job[c] = NoJob THEN job ELSE [job EXCEPT ![c].deleting = TRUE]
  PROVE  \A d \in Caches : /\ Downloads(job'[d]) => job'[d] = job[d] /\ d # c
                           /\ job[d] = NoJob => job'[d] = NoJob
<1>1. CASE job[c] = NoJob BY <1>1 DEF Downloads
<1>2. CASE job[c] # NoJob
  <2>1. job[c] \in Job BY <1>2 DEF TypeOK
  <2>2. job'[c] = [job[c] EXCEPT !.deleting = TRUE] /\ \A d \in Caches : d # c => job'[d] = job[d]
    BY <1>2 DEF TypeOK
  <2>3. job'[c].deleting BY <2>1, <2>2 DEF Job
  <2>. QED BY <1>2, <2>2, <2>3 DEF Downloads
<1>. QED BY <1>1, <1>2

LEMMA WriteStatusWriter ==
  ASSUME IInv, WriterInv, WriteStatus
  PROVE  WriterInv'
<1>. DEFINE w == Head(todo)
<1>1. /\ todo # <<>> /\ w = todo[1] /\ w \in Write /\ w.op = "PatchStatus"
      /\ Len(todo) \in Nat \ {0} /\ Len(Tail(todo)) = Len(todo) - 1
      /\ todo' = Tail(todo)
  BY TailTyped DEF WriteStatus, Issue, IInv
<1>2. w.c \in Caches /\ w.base \in Status /\ w.new \in Status BY <1>1, WriteFields
<1>3. obj' = [obj EXCEPT ![w.c].st = MergePatch(@, w.base, w.new)] /\ job' = job
  BY DEF WriteStatus, Stored
<1>. HIDE DEF w
<1>4. 1 \in 1 .. Len(todo) BY <1>1, SMTT(60)
<1>5. Len(todo) = 1 /\ w.base = obj[w.c].st BY <1>1, <1>4 DEF IInv, Pending
<1>6. 1 .. Len(todo') = {} /\ 1 .. Len(todo) = {1}
  <2>1. 1 .. 1 - 1 = {} /\ 1 .. 1 = {1} BY SMTT(60)
  <2>. QED BY <1>1, <1>5, <2>1
<1>7. obj[w.c].st \in Status BY <1>2 DEF IInv, TypeOK, CacheObject
<1>8. obj' = [obj EXCEPT ![w.c].st = w.new] BY <1>2, <1>3, <1>5, <1>7, MergeType
<1>9. /\ obj'[w.c].st = w.new /\ \A d \in Caches : d # w.c => obj'[d] = obj[d]
      /\ \A d \in Caches : obj'[d].exists = obj[d].exists /\ obj'[d].spec = obj[d].spec
  <2>1. obj[w.c] \in CacheObject /\ obj \in [Caches -> CacheObject]
    BY <1>2 DEF IInv, TypeOK
  <2>. QED BY <1>2, <1>8, <2>1 DEF CacheObject
<1>10. ASSUME NEW d \in Caches, Downloads(job[d])
       PROVE  obj[d].exists /\ Tells(obj'[d].st, job[d])
  <2>1. obj[d].exists /\ Told(d, job[d], obj[d].st, todo) BY <1>10 DEF WriterInv
  <2>2. CASE d = w.c BY <1>1, <1>4, <1>9, <2>1, <2>2 DEF Told, PatchOf
  <2>3. CASE d # w.c BY <1>1, <1>6, <1>9, <2>1, <2>3 DEF Told, PatchOf
  <2>. QED BY <2>2, <2>3, <2>1
<1>11. \A d \in Caches : ~obj'[d].spec.valid => job'[d] = NoJob
  BY <1>3, <1>9 DEF WriterInv
<1>. QED BY <1>3, <1>6, <1>9, <1>10, <1>11 DEF WriterInv, Told

LEMMA WriteJobWriter ==
  ASSUME IInv, WriterInv, WriteJob \/ WriteJobDeletion
  PROVE  WriterInv'
<1>. DEFINE w == Head(todo)
<1>1. /\ todo # <<>> /\ w = todo[1] /\ w \in Write
      /\ w.op = "CreateJob" \/ w.op = "DeleteJob"
      /\ Len(todo) \in Nat \ {0}
      /\ \A k \in 1 .. Len(Tail(todo)) : k + 1 \in 1 .. Len(todo) /\ Tail(todo)[k] = todo[k + 1]
      /\ todo' = Tail(todo) /\ Tail(todo) \in Seq(Write) /\ obj' = obj
  BY TailTyped DEF WriteJob, WriteJobDeletion, Issue, IInv
<1>2. 1 \in 1 .. Len(todo) BY <1>1, SMTT(60)
<1>3. w.c \in Caches BY <1>1, WriteFields
<1>4. \A k \in 1 .. Len(todo') : todo'[k].op # "CreateJob"
  <2>1. \A k \in 1 .. Len(Tail(todo)) : k + 1 # 1 BY <1>1, SMTT(60)
  <2>. QED BY <1>1, <2>1 DEF IInv, Pending
<1>5. \A c, j, s : Told(c, j, s, todo) => Told(c, j, s, todo')
  BY <1>1, ToldTail DEF IInv
<1>6. CASE WriteJob
  <2>. DEFINE j == [w.job EXCEPT !.deleting = ~obj[w.c].exists]
  <2>1. job' = [job EXCEPT ![w.c] = j] /\ w.op = "CreateJob" BY <1>6 DEF WriteJob, Issue
  <2>2. w.job \in Job BY <1>1, <2>1, WriteFields
  <2>3. j.hash = w.job.hash /\ j.deleting = ~obj[w.c].exists BY <2>2 DEF Job
  <2>. HIDE DEF j, w
  <2>4. job'[w.c] = j /\ \A d \in Caches : d # w.c => job'[d] = job[d]
    BY <1>3, <2>1 DEF IInv, TypeOK
  <2>5. Told(w.c, w.job, obj[w.c].st, todo') /\ obj[w.c].spec.valid
    BY <1>1, <1>2, <1>5, <2>1 DEF WriterInv
  <2>6. Told(w.c, j, obj[w.c].st, todo') BY <2>3, <2>5 DEF Told, Tells
  <2>7. ASSUME NEW d \in Caches, Downloads(job'[d])
        PROVE  obj[d].exists /\ Told(d, job'[d], obj[d].st, todo')
    <3>1. CASE d = w.c BY <2>3, <2>4, <2>6, <2>7, <3>1 DEF Downloads
    <3>2. CASE d # w.c BY <1>5, <2>4, <2>7, <3>2 DEF WriterInv
    <3>. QED BY <3>1, <3>2
  <2>8. \A d \in Caches : ~obj[d].spec.valid => job'[d] = NoJob
    BY <2>4, <2>5 DEF WriterInv
  <2>. QED BY <1>1, <1>4, <2>7, <2>8 DEF WriterInv
<1>7. CASE WriteJobDeletion
  <2>1. job' = IF job[w.c] = NoJob THEN job ELSE [job EXCEPT ![w.c].deleting = TRUE]
    BY <1>7 DEF WriteJobDeletion
  <2>. HIDE DEF w
  <2>2. \A d \in Caches : (Downloads(job'[d]) => job'[d] = job[d])
                          /\ (job[d] = NoJob => job'[d] = NoJob)
    BY <1>3, <2>1, DeletingStops DEF IInv
  <2>3. \A d \in Caches : Downloads(job'[d]) => obj[d].exists /\ Told(d, job'[d], obj[d].st, todo')
    BY <1>5, <2>2 DEF WriterInv
  <2>4. \A d \in Caches : ~obj[d].spec.valid => job'[d] = NoJob BY <2>2 DEF WriterInv
  <2>. QED BY <1>1, <1>4, <2>3, <2>4 DEF WriterInv
<1>. QED BY <1>6, <1>7

LEMMA WriterStep ==
  ASSUME Undisturbed
  PROVE  IInv /\ WriterInv /\ [Next]_vars => WriterInv'
<1>. SUFFICES ASSUME IInv, WriterInv, [Next]_vars PROVE WriterInv'
  OBVIOUS
<1>1. TypeOK /\ view = obj /\ obj \in [Caches -> CacheObject] BY DEF IInv, TypeOK
<1>2. ASSUME NEW c \in Caches, Reconcile(c) PROVE WriterInv'
  BY <1>2, ReconcileWriter
<1>3. ASSUME NEW c \in Caches, Deliver(c) PROVE FALSE
  BY <1>1, <1>3 DEF Deliver
<1>4. ASSUME NEW c \in Caches, NEW s \in Specs, EditSpec(c, s) PROVE WriterInv'
  <2>1. obj' = [obj EXCEPT ![c].spec = s, ![c].gen = @ + 1] /\ UNCHANGED <<job, todo>>
    BY <1>4 DEF EditSpec, Stored
  <2>2. obj[c] \in CacheObject /\ s.valid BY <1>1 DEF Undisturbed
  <2>3. /\ obj'[c].st = obj[c].st /\ obj'[c].exists = obj[c].exists /\ obj'[c].spec = s
        /\ \A d \in Caches : d # c => obj'[d] = obj[d]
    BY <1>1, <2>1, <2>2 DEF CacheObject
  <2>. QED BY <1>1, <2>1, <2>2, <2>3, WriterKept
<1>5. ASSUME NEW c \in Caches, NEW t \in Tokens, SetRetryToken(c, t) PROVE WriterInv'
  <2>1. obj' = [obj EXCEPT ![c].token = t] /\ UNCHANGED <<job, todo>>
    BY <1>5 DEF SetRetryToken, Stored
  <2>2. obj[c] \in CacheObject BY <1>1
  <2>3. /\ obj'[c].st = obj[c].st /\ obj'[c].exists = obj[c].exists /\ obj'[c].spec = obj[c].spec
        /\ \A d \in Caches : d # c => obj'[d] = obj[d]
    BY <1>1, <2>1, <2>2 DEF CacheObject
  <2>. QED BY <1>1, <2>1, <2>3, WriterKept
<1>6. ASSUME NEW c \in Caches, DeleteCache(c) PROVE WriterInv'
  <2>1. obj' = [obj EXCEPT ![c].exists = FALSE] /\ UNCHANGED todo
    BY <1>6 DEF DeleteCache, Stored
  <2>2. obj[c] \in CacheObject BY <1>1
  <2>3. /\ obj'[c].st = obj[c].st /\ obj'[c].spec = obj[c].spec
        /\ \A d \in Caches : d # c => obj'[d] = obj[d]
    BY <1>1, <2>1, <2>2 DEF CacheObject
  <2>4. \A d \in Caches : /\ Downloads(job'[d]) => job'[d] = job[d] /\ d # c
                          /\ job[d] = NoJob => job'[d] = NoJob
    BY <1>1, <1>6, DeletingStops DEF DeleteCache
  <2>. QED BY <1>1, <2>1, <2>3, <2>4, WriterKept
<1>7. ASSUME NEW c \in Caches,
             JobFinishes(c) \/ JobFails(c) \/ JobExpires(c) \/ JobGone(c)
      PROVE  WriterInv'
  <2>1. job[c] # NoJob /\ UNCHANGED <<obj, todo>>
    BY <1>7 DEF JobFinishes, JobFails, JobExpires, JobGone, Runs
  <2>2. job[c] \in Job BY <1>1, <2>1 DEF TypeOK
  <2>3. ~Downloads(job'[c]) /\ \A d \in Caches : d # c => job'[d] = job[d]
    <3>1. CASE JobExpires(c) \/ JobGone(c)
      BY <1>1, <3>1 DEF JobExpires, JobGone, TypeOK, Downloads
    <3>2. CASE JobFinishes(c) \/ JobFails(c)
      <4>1. PICK x \in {"Complete", "Failed"} : job' = [job EXCEPT ![c].state = x]
        BY <3>2 DEF JobFinishes, JobFails
      <4>2. /\ job'[c] = [job[c] EXCEPT !.state = x]
            /\ \A d \in Caches : d # c => job'[d] = job[d]
        BY <1>1, <4>1 DEF TypeOK
      <4>3. job'[c].state = x BY <2>2, <4>2 DEF Job
      <4>. QED BY <4>2, <4>3 DEF Downloads
    <3>. QED BY <1>7, <3>1, <3>2
  <2>. QED BY <1>1, <2>1, <2>3, WriterKept
<1>8. CASE WriteStatus BY <1>8, WriteStatusWriter
<1>9. CASE WriteJob \/ WriteJobDeletion BY <1>9, WriteJobWriter
<1>10. CASE ReconcileError BY <1>10 DEF ReconcileError, Fault, Undisturbed
<1>11. CASE PatchNotFound
  <2>1. /\ todo # <<>> /\ Head(todo) = todo[1] /\ Len(todo) \in Nat \ {0}
        /\ todo[1].op = "PatchStatus" /\ ~obj[todo[1].c].exists
        /\ todo' = <<>> /\ UNCHANGED <<obj, job>>
    BY <1>1, <1>11, TailTyped DEF PatchNotFound
  <2>2. 1 \in 1 .. Len(todo) BY <2>1, SMTT(60)
  <2>3. Len(todo) = 1 BY <2>1, <2>2 DEF IInv, Pending
  <2>4. 1 .. Len(todo) = {1} /\ 1 .. Len(todo') = {}
    <3>1. 1 .. 1 = {1} /\ 1 .. Len(<<>>) = {} BY SMTT(60)
    <3>. QED BY <2>1, <2>3, <3>1
  <2>5. ASSUME NEW d \in Caches, Downloads(job[d])
        PROVE  obj[d].exists /\ Tells(obj[d].st, job[d])
    <3>1. obj[d].exists /\ Told(d, job[d], obj[d].st, todo) BY <2>5 DEF WriterInv
    <3>2. d # todo[1].c BY <2>1, <3>1
    <3>. QED BY <2>4, <3>1, <3>2 DEF Told, PatchOf
  <2>. QED BY <2>1, <2>4, <2>5 DEF WriterInv, Told
<1>12. CASE \/ \E c \in Caches : PodPublishes(c)
            \/ \E n \in Nodes : NodeCordoned(n) \/ NodeDeleted(n) \/ NodeRecreated(n)
            \/ SecretChanges \/ UNCHANGED vars
  <2>1. UNCHANGED <<obj, job, todo>>
    BY <1>12 DEF PodPublishes, NodeCordoned, NodeDeleted, NodeRecreated, SecretChanges, vars
  <2>. QED BY <1>1, <2>1, WriterKept
<1>. QED BY <1>2, <1>3, <1>4, <1>5, <1>6, <1>7, <1>8, <1>9, <1>10, <1>11, <1>12 DEF Next

(* With fresh reads, no lost write and no spec that turns invalid, at most *)
(* one downloader that is not being deleted works on a path of a node: a   *)
(* Job starts only for a place its cache holds or is about to be given.    *)
THEOREM WritersApart ==
  ASSUME ~Lagging, Undisturbed
  PROVE  Spec => []OneWriter
<1>1. Init => WriterInv
  <2>. SUFFICES ASSUME Init PROVE WriterInv
    OBVIOUS
  <2>1. 1 .. Len(<<>>) = {} BY SMTT(60)
  <2>2. \A c \in Caches : job[c] = NoJob BY DEF Init
  <2>. QED BY <2>1, <2>2 DEF WriterInv, Downloads, Init
<1>2. IInv /\ WriterInv => OneWriter BY WriterOne
<1>. QED BY <1>1, <1>2, InvInit, InvStep, WriterStep, PTL DEF Spec

=============================================================================
