--------------------------- MODULE MCCachePlanner ---------------------------
(***************************************************************************)
(* CachePlanner on its own: cache 3 is planned against every pair of other *)
(* caches on two nodes, whose reservations may add up to more than an      *)
(* int64 holds, and the answer is compared with sums of unbounded          *)
(* integers.  TLC evaluates the two statements wherever this module is     *)
(* extended.                                                               *)
(***************************************************************************)
LOCAL INSTANCE Integers
LOCAL INSTANCE FiniteSetsExt

Planner == INSTANCE CachePlanner WITH
  Caches <- 1 .. 3, Nodes <- {1, 2}, NoNode <- 0, Paths <- {1, 2}, NoPath <- 0,
  Capacity <- <<6, 3>>, NodeRank <- <<1, 2>>, MaxInt64 <- 7

LOCAL AllNodes == [n \in {1, 2} |-> [exists |-> TRUE, uid |-> n, eligible |-> TRUE]]

LOCAL Object(node, pin, path, size, phase, rev) ==
  [exists |-> TRUE,
   spec |-> [path |-> path, pin |-> pin, size |-> size, rev |-> rev],
   st |-> [phase |-> phase, node |-> node, uid |-> node, path |-> path, size |-> size,
           conds |-> [downloaded |-> phase = "Ready", ready |-> phase = "Ready"]]]

LOCAL Others ==
  {Object(n, 0, x, z, f, r) : n \in {1, 2}, x \in {1, 2}, z \in {2, 5},
                              f \in {"Pending", "Ready", "Failed"}, r \in {1, 2}}

(* A cache that is to be placed, and one whose placement is recorded.      *)
LOCAL Requested ==
  {[Object(0, m, 1, z, "Pending", 1) EXCEPT !.st.size = 0, !.st.path = 0] :
     z \in {1, 4}, m \in {0, 1, 2}}
LOCAL Recorded ==
  {Object(n, 0, 1, z, f, 1) : n \in {1, 2}, z \in {1, 4}, f \in {"Pending", "Downloading"}}

LOCAL Lists(third) == {<<x, y, z>> : x \in Others, y \in Others, z \in third}

(* Node n can take the third cache, by sums that do not overflow.          *)
LOCAL CanHost(k, n) ==
  LET others == {d \in {1, 2} : Planner!Reserves(k[d]) /\ k[d].st.node = n}
  IN  /\ k[3].spec.pin \in {0, n}
      /\ \A d \in others : k[d].st.path # k[3].spec.path
      /\ FoldSet(LAMBDA d, sum : sum + k[d].st.size, k[3].spec.size, others) <= <<6, 3>>[n]

(* Plan places a cache exactly when some node can take it, and then on     *)
(* such a node, also when the reservations it adds up exceed an int64.     *)
ASSUME PlanExact ==
  \A k \in Lists(Requested) :
    IF \E n \in {1, 2} : CanHost(k, n)
      THEN /\ Planner!PlanResult(k, 3, AllNodes) = "Placed"
           /\ CanHost(k, Planner!Plan(k, 3, AllNodes).node)
      ELSE Planner!PlanResult(k, 3, AllNodes) # "Placed"

(* Planning again moves a recorded cache only when its node can no longer  *)
(* take it or another node has a ready copy: a requeued reconcile finds    *)
(* the placement it recorded, whatever the other caches have become.       *)
ASSUME PlacementSticky ==
  \A k \in Lists(Recorded) :
    CanHost(k, k[3].st.node) =>
      Planner!Plan(k, 3, AllNodes).node \in {k[3].st.node} \cup Planner!ReadyCopyNodes(k, 3)
=============================================================================
