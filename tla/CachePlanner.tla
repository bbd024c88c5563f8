---------------------------- MODULE CachePlanner ----------------------------
(***************************************************************************)
(* CachePlanner.Plan: on which node a ModelCache is placed.  Pure          *)
(* operators over a list of ModelCaches (a function k from names to        *)
(* objects, of which only the existing ones are listed) and a list of      *)
(* nodes.                                                                  *)
(*                                                                         *)
(* Readiness, cordons, selectors, taints and required resources of a node  *)
(* are its field eligible; a missing or malformed capacity annotation is a *)
(* capacity of 0.  Quantities are numbers of bytes below MaxInt64.         *)
(***************************************************************************)
EXTENDS Integers, FiniteSetsExt

CONSTANTS
  Caches,     \* ModelCache objects (UIDs)
  Nodes,      \* node names
  NoNode,     \* an empty node name
  Paths,      \* cache paths under the cache root
  NoPath,     \* an empty path
  Capacity,   \* the cache-capacity annotation of each node
  NodeRank,   \* the order of node names
  MaxInt64    \* the largest value of an int64

ASSUME PlannerAssumption ==
  /\ IsFiniteSet(Caches) /\ IsFiniteSet(Nodes)
  /\ NoNode \notin Nodes
  /\ NoPath \notin Paths
  /\ MaxInt64 \in Nat
  /\ Capacity \in [Nodes -> 0..MaxInt64]
  /\ NodeRank \in [Nodes -> Nat]
  /\ \A m, n \in Nodes : NodeRank[m] = NodeRank[n] => m = n

(* Faulty variant: a failed cache never reserves. *)
ReservesUnlessFailed(o) == o.exists /\ o.st.node # NoNode /\ o.st.phase # "Failed"

(* A failed cache holds a reservation only when its artifact is complete.  *)
Reserves(o) ==
  /\ o.exists
  /\ o.st.node # NoNode
  /\ ~(o.st.phase = "Failed" /\ ~o.st.conds.downloaded)

ReservedSize(o) == IF o.st.size > 0 THEN o.st.size ELSE o.spec.size

AddSaturating(size, sum) == IF size > MaxInt64 - sum THEN MaxInt64 ELSE sum + size

ReservedBytesByNode(k, c, n) ==
  LET others == {d \in Caches \ {c} : Reserves(k[d]) /\ k[d].st.node = n}
  IN  FoldFunctionOnSet(AddSaturating, 0, [d \in Caches |-> ReservedSize(k[d])], others)

ConflictingNodesForPath(k, c, path) ==
  {k[d].st.node : d \in {e \in Caches \ {c} : Reserves(k[e]) /\ k[e].st.path = path}}

(* Nodes that hold a ready copy of the revision c asks for. *)
ReadyCopyNodes(k, c) ==
  {k[d].st.node : d \in {e \in Caches :
     /\ k[e].exists
     /\ k[e].st.node # NoNode
     /\ k[e].st.phase = "Ready"
     /\ k[e].st.conds.ready
     /\ k[e].spec.rev = k[c].spec.rev}}

FilterNodes(nodes) == {n \in Nodes : nodes[n].exists /\ nodes[n].eligible}

Free(k, c, n) == Capacity[n] - ReservedBytesByNode(k, c, n)

HasExistingPlacement(k, c, n) ==
  \/ /\ k[c].st.node = n
     /\ k[c].st.path = k[c].spec.path
     /\ k[c].st.phase # "Failed"
  \/ n \in ReadyCopyNodes(k, c)

RanksBefore(k, c, m, n) ==
  LET pm == HasExistingPlacement(k, c, m)
      pn == HasExistingPlacement(k, c, n)
  IN  \/ pm /\ ~pn
      \/ pm = pn /\ Free(k, c, m) > Free(k, c, n)
      \/ pm = pn /\ Free(k, c, m) = Free(k, c, n) /\ NodeRank[m] <= NodeRank[n]

Candidates(k, c, nodes) ==
  IF k[c].spec.pin = NoNode THEN FilterNodes(nodes)
                            ELSE FilterNodes(nodes) \cap {k[c].spec.pin}

RankNodes(k, c, nodes) ==
  {n \in Candidates(k, c, nodes) \ ConflictingNodesForPath(k, c, k[c].spec.path) :
     Capacity[n] > 0 /\ Free(k, c, n) >= k[c].spec.size}

(* The reason Plan gives for placing c nowhere; "Placed" when it does. *)
PlanResult(k, c, nodes) ==
  LET pin == k[c].spec.pin
  IN  CASE FilterNodes(nodes) = {} -> "NoEligibleNode"
        [] FilterNodes(nodes) # {} /\ Candidates(k, c, nodes) = {} -> "PinnedNodeUnavailable"
        [] /\ Candidates(k, c, nodes) # {}
           /\ pin # NoNode
           /\ pin \in ConflictingNodesForPath(k, c, k[c].spec.path) -> "PathConflict"
        [] OTHER -> IF RankNodes(k, c, nodes) = {} THEN "InsufficientCapacity"
                                                   ELSE "Placed"

(* The placement, when PlanResult is "Placed". *)
Plan(k, c, nodes) ==
  LET ranked == RankNodes(k, c, nodes)
      best == CHOOSE n \in ranked : \A m \in ranked : RanksBefore(k, c, n, m)
  IN  [node |-> best, uid |-> nodes[best].uid, path |-> k[c].spec.path,
       size |-> k[c].spec.size]
=============================================================================
