--------------------------- MODULE GatewayRouter ---------------------------
(***************************************************************************)
(* Backend selection at one route prefix of the gateway's MemoryRegistry.   *)
(* Several models may share a prefix for canary traffic.  Select picks one  *)
(* of the ready ones with a positive weight: smooth weighted round-robin    *)
(* over all of them, or over those with the fewest active requests.  The    *)
(* scores of the round-robin survive the publication of a new snapshot; a   *)
(* backend loses its score only when it leaves the prefix.                  *)
(*                                                                         *)
(* Backends are numbered in the order of sortBackends.                      *)
(***************************************************************************)
EXTENDS Integers, FiniteSetsExt

CONSTANTS
  Backends,    \* the backends that may share the prefix
  Entries,     \* what a snapshot may publish of one: state, weight and strategy
  MaxLoad,     \* active requests of one backend
  MaxSelects,  \* selections counted since the last publication
  MaxSkips     \* round-robin turns counted for a candidate passed over

ASSUME RouterAssumption ==
  /\ Backends \in SUBSET (Nat \ {0}) /\ IsFiniteSet(Backends) /\ Cardinality(Backends) > 1
  /\ IsFiniteSet(Entries) /\ \E e \in Entries : e.weight > 0
  /\ Entries \subseteq [state : {"ready", "unavailable"}, weight : Nat,
                        strategy : {"weighted", "least-loaded"}]
  /\ MaxLoad \in Nat /\ MaxSelects \in Nat /\ MaxSkips \in Nat

VARIABLES
  routes,   \* the published candidates of the prefix
  rr,       \* round-robin scores; a missing score reads as 0
  watched,  \* the backend whose turns are counted
  picked,   \* its selections since a publication with scores of 0
  selects,  \* selections since the last publication
  fresh,    \* every score was 0 at the last publication
  skipped   \* round-robin turns it has been passed over for

routerVars == <<routes, rr, watched, picked, selects, fresh, skipped>>

-----------------------------------------------------------------------------
(* A snapshot publishes entries for some of the backends.                   *)
Routes == UNION {[B -> Entries] : B \in SUBSET Backends}

Weight(b) == routes[b].weight

(* The candidates of selectBackendLocked.                                   *)
ReadyBackends == {b \in DOMAIN routes : routes[b].state = "ready" /\ Weight(b) > 0}

(* routeStrategy: one weighted policy makes the route weighted.             *)
Weighted == \E b \in ReadyBackends : routes[b].strategy = "weighted"

LeastLoaded(load) == {b \in ReadyBackends : \A c \in ReadyBackends : load[b] <= load[c]}

(* Whom the round-robin chooses among.                                      *)
Candidates(load) == IF Weighted THEN ReadyBackends ELSE LeastLoaded(load)

Total(C) == SumFunctionOnSet([b \in C |-> Weight(b)], C)

(* Faulty variant: every candidate gains the same.                          *)
RaisedEqually(C) == [b \in Backends |-> IF b \in C THEN rr[b] + 1 ELSE rr[b]]

(* The scores after every candidate has gained its weight.                  *)
Raised(C) == [b \in Backends |-> IF b \in C THEN rr[b] + Weight(b) ELSE rr[b]]

(* Faulty variant: the heaviest candidate instead of the highest score.     *)
ChosenByWeight(C) ==
  CHOOSE b \in C : \A c \in C : Weight(b) > Weight(c) \/ (Weight(b) = Weight(c) /\ b <= c)

(* The first candidate with the highest score.                              *)
Chosen(C) ==
  CHOOSE b \in C :
    \A c \in C : Raised(C)[b] > Raised(C)[c] \/ (Raised(C)[b] = Raised(C)[c] /\ b <= c)

(* Faulty variant: the chosen backend pays its own weight.                  *)
ScoresPaidByWeight(C) == [Raised(C) EXCEPT ![Chosen(C)] = @ - Weight(Chosen(C))]

(* weightedBackendLocked; a single candidate is taken without a turn.       *)
Scores(C) ==
  IF Cardinality(C) = 1 THEN rr ELSE [Raised(C) EXCEPT ![Chosen(C)] = @ - Total(C)]

RouterInit ==
  /\ routes \in Routes
  /\ rr = [b \in Backends |-> 0]
  /\ watched \in Backends
  /\ picked = 0 /\ selects = 0 /\ fresh = TRUE /\ skipped = 0

(* Select with the requestTracker's counts of the moment; without a ready   *)
(* candidate the request is refused.                                        *)
Select(load) ==
  LET C == Candidates(load)
  IN  /\ C # {}
      /\ rr' = Scores(C)
      /\ IF fresh /\ selects < MaxSelects
           THEN /\ selects' = selects + 1
                /\ picked' = picked + (IF Chosen(C) = watched THEN 1 ELSE 0)
           ELSE UNCHANGED <<selects, picked>>
      /\ skipped' = CASE watched = Chosen(C) -> 0
                      [] watched \in C \ {Chosen(C)} -> Min({skipped + 1, MaxSkips})
                      [] OTHER -> skipped
      /\ UNCHANGED <<routes, watched, fresh>>

(* pruneRoundRobinLocked.                                                   *)
Pruned(next) == [b \in Backends |-> IF b \in DOMAIN next THEN rr[b] ELSE 0]

Published(next) ==
  /\ next # routes
  /\ routes' = next
  /\ picked' = 0 /\ selects' = 0
  /\ UNCHANGED watched

(* A backend whose weight or state changes starts a new count of turns.     *)
Replace ==
  \E next \in Routes :
    /\ Published(next)
    /\ rr' = Pruned(next)
    /\ fresh' = \A b \in Backends : Pruned(next)[b] = 0
    /\ skipped' = IF /\ watched \in DOMAIN routes \cap DOMAIN next
                     /\ routes[watched] = next[watched]
                    THEN skipped ELSE 0

(* MarkReadyUnavailable keeps the scores of the backends it closes.         *)
MarkRouteUnavailable ==
  LET next == [b \in DOMAIN routes |-> [routes[b] EXCEPT !.state = "unavailable"]]
  IN  /\ Published(next)
      /\ fresh' = \A b \in Backends : rr[b] = 0
      /\ skipped' = 0
      /\ UNCHANGED rr

RouterNext ==
  \/ \E load \in [Backends -> 0 .. MaxLoad] : Select(load)
  \/ Replace \/ MarkRouteUnavailable

RouterSpec == RouterInit /\ [][RouterNext]_routerVars

-----------------------------------------------------------------------------
MaxWeight == Max({e.weight : e \in Entries})

(* How far a score may be from 0.                                           *)
ScoreBound == 2 * (Cardinality(Backends) - 1) * MaxWeight

(* The memory of the round-robin is short: whatever the publications do to  *)
(* weights, states and membership while scores are kept, pruned and picked  *)
(* up again, and whichever subsets the least-loaded strategy lets take a    *)
(* turn, no score drifts further than 2(n-1) times the largest weight.      *)
ScoresBounded == \A b \in Backends : rr[b] < ScoreBound /\ 0 - rr[b] < ScoreBound

(* No ready backend is starved: with its entry unchanged, a candidate of    *)
(* weight w is passed over for fewer than 4(n-1)W/w turns, W being the      *)
(* largest weight the route has ever had - also right after publications    *)
(* that moved the weights of the others.                                    *)
NoStarvation == watched \in ReadyBackends => skipped * Weight(watched) < 2 * ScoreBound

(* Smooth weighted round-robin is exact: from scores of 0 and with the      *)
(* route unchanged, as many selections as the weights add up to give every  *)
(* backend exactly its weight, and leave every score at 0 again.            *)
ExactShare ==
  /\ fresh /\ Weighted /\ Cardinality(ReadyBackends) > 1
  /\ selects = Total(ReadyBackends) /\ selects < MaxSelects
  =>
    /\ \A b \in ReadyBackends : rr[b] = 0
    /\ watched \in ReadyBackends => picked = Weight(watched)

=============================================================================
