---------------------------- MODULE GatewayProofs ----------------------------
(***************************************************************************)
(* Proofs about the parts of the gateway that decide what a request gets:  *)
(* its backend, its admission, and what the registry says of a model.      *)
(*                                                                         *)
(* GatewayRouter, for any backends, weights, strategies, loads and         *)
(* publications: scores stay bounded, nobody starves, shares are exact.    *)
(*                                                                         *)
(* GatewayRateLimiter, for every set of policies, number of clients and    *)
(* length of history: the admitted requests stay within the rate, and      *)
(* Retry-After is kept.  The bound on the requests between two admissions  *)
(* is not inductive.  LimiterInv adds what each past admission leaves in   *)
(* the bucket: the tokens it still holds, and those spent since, were      *)
(* earned since or were there before.  The balance goes through a clock    *)
(* reading older than the last one, which leaves fewer than no tokens.     *)
(*                                                                         *)
(* GatewayDiscovery, for every interval, sync timeout, retry base and      *)
(* number of changes: type correctness, and how long the registry can      *)
(* offer a model that is no longer fit to be routed to.  The bound needs   *)
(* the age of what the registry shows: Inv follows the moment the          *)
(* deployment stopped serving (left) through the list that was read before *)
(* it, the age of the snapshot and the timer of Run.                       *)
(***************************************************************************)
EXTENDS GatewayRouter, GatewayRateLimiter, GatewayDiscovery, SumLemmas

(* A leaf that names no prover is one for Zenon.                          *)
USE Zenon

-----------------------------------------------------------------------------
(* The scores of the round-robin.                                          *)

N == Cardinality(Backends)

(* How far the scores of k backends together may be from 0.                 *)
Limit(k) == k * (2 * N - k - 1) * MaxWeight

(* The bound must be stated for every group of backends: a score can only   *)
(* rise beside another that is at least as high.                            *)
ScoresBalanced(r) ==
  \A A \in SUBSET Backends :
    A # {} => /\ SumFunctionOnSet(r, A) < Limit(Cardinality(A))
              /\ 0 - SumFunctionOnSet(r, A) < Limit(Cardinality(A))

(* What a route may hold: MarkReadyUnavailable makes entries that no        *)
(* snapshot has published.                                                  *)
Kept == [state : {"ready", "unavailable"}, weight : 0 .. MaxWeight,
         strategy : {"weighted", "least-loaded"}]

(* Types of the variables.                                                  *)
Types ==
  /\ \E B \in SUBSET Backends : routes \in [B -> Kept]
  /\ rr \in [Backends -> Int]
  /\ watched \in Backends
  /\ picked \in Nat /\ selects \in Nat /\ skipped \in Nat

(* A candidate that is passed over gains its weight each time, and it has   *)
(* begun above the lower bound.                                             *)
Waiting == watched \in ReadyBackends => skipped * Weight(watched) < rr[watched] + ScoreBound

(* From scores of 0 with an unchanged weighted route: the scores of the     *)
(* candidates add up to 0, none is as low as the negated sum of the         *)
(* weights, and each is what its backend has gained less what it has paid;  *)
(* p counts the selections of each.                                         *)
Accounted ==
  fresh /\ Weighted /\ Cardinality(ReadyBackends) > 1 /\ selects < MaxSelects =>
    LET T == Total(ReadyBackends)
    IN  /\ SumFunctionOnSet(rr, ReadyBackends) = 0
        /\ \A b \in ReadyBackends : 0 - T < rr[b]
        /\ \E p \in [ReadyBackends -> Nat] :
             /\ \A b \in ReadyBackends : rr[b] = selects * Weight(b) - T * p[b]
             /\ watched \in ReadyBackends => p[watched] = picked

RouterInv == Types /\ ScoresBalanced(rr) /\ Waiting /\ Accounted

-----------------------------------------------------------------------------
(* Arithmetic.  All sizes are at most N, and the largest weight is at       *)
(* least 1.                                                                 *)

LEMMA WeightType ==
  /\ MaxWeight \in Nat /\ MaxWeight >= 1
  /\ \A e \in Entries : e.weight \in 0 .. MaxWeight
<1> DEFINE S == {e.weight : e \in Entries}
<1>1. IsFiniteSet(S)
  <2> DEFINE f == [e \in Entries |-> e.weight]
  <2>1. f \in Surjection(Entries, S)
    BY DEF Surjection
  <2> HIDE DEF f, S
  <2>. QED BY <2>1, RouterAssumption, FS_Surjection
<1>2. S \subseteq Nat /\ S # {}
  BY RouterAssumption, SMTT(60)
<1>3. Max(S) \in S /\ \A x \in S : x <= Max(S)
  BY <1>1, <1>2, FiniteMax
<1>4. MaxWeight \in Nat /\ \A e \in Entries : e.weight \in Nat /\ e.weight <= MaxWeight
  BY <1>2, <1>3 DEF MaxWeight
<1>. QED BY <1>4, RouterAssumption, SMTT(60)

LEMMA SizeType ==
  /\ N \in Nat /\ N >= 2
  /\ \A A \in SUBSET Backends :
       IsFiniteSet(A) /\ Cardinality(A) \in 0 .. N /\ (A # {} => Cardinality(A) >= 1)
<1>1. N \in Nat /\ N >= 2
  BY RouterAssumption, FS_CardinalityType, SMTT(60) DEF N
<1>2. ASSUME NEW A \in SUBSET Backends
      PROVE  IsFiniteSet(A) /\ Cardinality(A) \in 0 .. N /\ (A # {} => Cardinality(A) >= 1)
  <2>1. IsFiniteSet(A) /\ Cardinality(A) <= N
    BY RouterAssumption, FS_Subset DEF N
  <2>2. Cardinality(A) \in Nat /\ (Cardinality(A) = 0 <=> A = {})
    BY <2>1, FS_CardinalityType, FS_EmptySet
  <2>3. Cardinality(A) \in 0 .. N /\ (A # {} => Cardinality(A) >= 1)
    BY <1>1, <2>1, <2>2, SMTT(60)
  <2>. QED BY <2>1, <2>3
<1>. QED BY <1>1, <1>2

LEMMA LimitInt == \A k \in 0 .. N : Limit(k) \in Int
BY WeightType, SizeType, SMTT(60) DEF Limit

(* j of k backends have less room than all of them.                         *)
LEMMA LimitGrows ==
  ASSUME NEW k \in 0 .. N, NEW j \in 0 .. k
  PROVE  Limit(j) <= Limit(k)
<1> DEFINE W == MaxWeight
<1>1. W \in Nat /\ N \in Nat
  BY WeightType, SizeType
<1> HIDE DEF W
<1>2. Limit(k) - Limit(j) = ((k - j) * (2 * N - 1 - k - j)) * W
  BY <1>1, SMTT(60) DEF Limit, W
<1>3. k - j \in Nat /\ (k = j \/ 2 * N - 1 - k - j \in Nat)
  BY <1>1, SMTT(60)
<1>4. (k - j) * (2 * N - 1 - k - j) \in Nat
  BY <1>1, <1>3, SMTT(60)
<1>5. ((k - j) * (2 * N - 1 - k - j)) * W \in Nat
  BY <1>1, <1>4, SMTT(60)
<1>6. Limit(k) \in Int /\ Limit(j) \in Int
  BY LimitInt, <1>1, SMTT(60)
<1>. QED BY <1>2, <1>5, <1>6, SMTT(60)

LEMMA TimesGrows ==
  ASSUME NEW k \in Nat, NEW a \in Int, NEW b \in Int, a <= b
  PROVE  k * a <= k * b
<1>1. k * b - k * a = k * (b - a) /\ b - a \in Nat
  BY SMTT(60)
<1>2. k * (b - a) \in Nat
  BY <1>1, SMTT(60)
<1>. QED BY <1>1, <1>2, SMTT(60)

(* The arithmetic of a turn for a group that does not hold the chosen       *)
(* backend: k1 of its members are candidates and k2 are not; p and q are    *)
(* their sums after the raise, r the score of the chosen one.               *)
LEMMA RiseBounded ==
  ASSUME NEW k1 \in Nat \ {0}, NEW k2 \in Nat, k1 + k2 + 1 <= N,
         NEW p \in Int, NEW q \in Int, NEW r \in Int,
         p <= k1 * r, q <= Limit(k2),
         p + q + r < Limit(k1 + k2 + 1) + (k1 + 1) * MaxWeight
  PROVE  p + q < Limit(k1 + k2)
<1> DEFINE W == MaxWeight
           D == (2 * N - 2 * (k1 + k2) - 1 + k1) * W
<1>1. W \in Nat /\ N \in Nat
  BY WeightType, SizeType
<1> HIDE DEF W
<1>2. /\ Limit(k1 + k2 + 1) + (k1 + 1) * W = Limit(k1 + k2) + D
      /\ Limit(k2) + k1 * D = Limit(k1 + k2)
      /\ D \in Int
  BY <1>1, SMTT(60) DEF Limit, W
<1>3. /\ Limit(k1 + k2) \in Int /\ Limit(k2) \in Int /\ k1 * D \in Int /\ k1 * r \in Int
      /\ k1 * (D - 1) = k1 * D - k1
  BY <1>1, <1>2, LimitInt, SMTT(60)
<1>4. p + q + r < Limit(k1 + k2) + D
  BY <1>2 DEF W
<1> HIDE DEF D
<1>5. CASE r >= D
  BY <1>2, <1>3, <1>4, <1>5, SMTT(60)
<1>6. CASE r <= D - 1
  <2>1. k1 * r <= k1 * (D - 1)
    BY <1>2, <1>6, TimesGrows, SMTT(60)
  <2>. QED BY <1>2, <1>3, <2>1, SMTT(60)
<1>. QED BY <1>2, <1>5, <1>6, SMTT(60)

(* ... and for a group that holds it, with k members, beside m candidates   *)
(* that are not in the group; s is the negated sum after the turn.          *)
LEMMA FallBounded ==
  ASSUME NEW k \in Nat \ {0}, NEW m \in Nat \ {0}, k + m <= N,
         NEW s \in Int, NEW r \in Int,
         s <= Limit(k - 1) - r + (m + 1) * MaxWeight,
         s < Limit(k + m) + m * r
  PROVE  s < Limit(k)
<1> DEFINE W == MaxWeight
           D == (m + 1 - 2 * N + 2 * k) * W
<1>1. W \in Nat /\ N \in Nat
  BY WeightType, SizeType
<1> HIDE DEF W
<1>2. /\ Limit(k - 1) + (m + 1) * W = Limit(k) + D
      /\ Limit(k + m) + m * D = Limit(k)
      /\ D \in Int
  BY <1>1, SMTT(60) DEF Limit, W
<1>3. Limit(k) \in Int /\ Limit(k - 1) \in Int /\ Limit(k + m) \in Int
      /\ m * D \in Int /\ m * r \in Int /\ (m + 1) * W \in Int
  BY <1>1, <1>2, LimitInt, SMTT(60)
<1>4. s <= Limit(k - 1) - r + (m + 1) * W
  BY DEF W
<1> HIDE DEF D
<1>5. CASE r > D
  BY <1>2, <1>3, <1>4, <1>5, SMTT(60)
<1>6. CASE r <= D
  <2>1. m * r <= m * D
    BY <1>2, <1>6, TimesGrows
  <2>. QED BY <1>2, <1>3, <2>1, SMTT(60)
<1>. QED BY <1>2, <1>5, <1>6, SMTT(60)

-----------------------------------------------------------------------------
(* One turn over the candidates C with weights w, from scores r to s: each  *)
(* candidate gains its weight and the highest, c, pays for all.             *)
Turn(r, w, C, c, s) ==
  /\ r \in [Backends -> Int] /\ s \in [Backends -> Int] /\ w \in [C -> 0 .. MaxWeight]
  /\ C \subseteq Backends /\ c \in C
  /\ \A b \in C : r[b] + w[b] <= r[c] + w[c]
  /\ \A b \in Backends :
       s[b] = CASE b = c -> r[b] + w[b] - SumFunctionOnSet(w, C)
                [] b \in C \ {c} -> r[b] + w[b]
                [] OTHER -> r[b]

(* The scores of a group without the chosen backend.                        *)
LEMMA TurnOutside ==
  ASSUME NEW r, NEW w, NEW C, NEW c, NEW s, Turn(r, w, C, c, s)
  PROVE  \A A \in SUBSET Backends : c \notin A =>
           /\ SumFunctionOnSet(s, A) = SumFunctionOnSet(r, A) + SumFunctionOnSet(w, A \cap C)
           /\ SumFunctionOnSet(r, A) = SumFunctionOnSet(r, A \cap C) + SumFunctionOnSet(r, A \ C)
<1> SUFFICES ASSUME NEW A \in SUBSET Backends, c \notin A
             PROVE  /\ SumFunctionOnSet(s, A)
                         = SumFunctionOnSet(r, A) + SumFunctionOnSet(w, A \cap C)
                    /\ SumFunctionOnSet(r, A)
                         = SumFunctionOnSet(r, A \cap C) + SumFunctionOnSet(r, A \ C)
  OBVIOUS
<1> DEFINE P == A \cap C
           Q == A \ C
<1>1. IsFiniteSet(A) /\ IsFiniteSet(P) /\ IsFiniteSet(Q)
  BY SizeType
<1>2. P \cap Q = {} /\ P \cup Q = A
  OBVIOUS
<1>3. MaxWeight \in Nat
  BY WeightType
<1>4. /\ \A b \in A : r[b] \in Int /\ s[b] \in Int
      /\ \A b \in P : w[b] \in Int /\ s[b] = r[b] + w[b]
      /\ \A b \in Q : s[b] = r[b]
  BY <1>3, SMTT(60) DEF Turn
<1> HIDE DEF P, Q
<1>5. \A b \in P \cup Q : r[b] \in Int /\ s[b] \in Int
  BY <1>2, <1>4
<1>6. /\ SumFunctionOnSet(r, A) = SumFunctionOnSet(r, P) + SumFunctionOnSet(r, Q)
      /\ SumFunctionOnSet(s, A) = SumFunctionOnSet(s, P) + SumFunctionOnSet(s, Q)
  BY <1>1, <1>2, <1>5, SumUnion
<1>7. SumFunctionOnSet(s, P) = SumFunctionOnSet(r, P) + SumFunctionOnSet(w, P)
  BY <1>1, <1>2, <1>4, SumPlus, SMTT(60)
<1>8. SumFunctionOnSet(r, Q) = SumFunctionOnSet(s, Q)
  BY <1>1, <1>2, <1>4, SumSame
<1>9. SumFunctionOnSet(r, P) \in Int /\ SumFunctionOnSet(r, Q) \in Int
      /\ SumFunctionOnSet(w, P) \in Int
  BY <1>1, <1>2, <1>4, SumInt
<1>10. SumFunctionOnSet(s, A) = SumFunctionOnSet(r, A) + SumFunctionOnSet(w, P)
  BY <1>6, <1>7, <1>8, <1>9, SMTT(60)
<1>. QED BY <1>6, <1>10 DEF P, Q

(* The scores of a group with the chosen backend fall by the weights of     *)
(* the candidates outside.                                                  *)
LEMMA TurnInside ==
  ASSUME NEW r, NEW w, NEW C, NEW c, NEW s, Turn(r, w, C, c, s),
         NEW A \in SUBSET Backends, c \in A
  PROVE  SumFunctionOnSet(s, A) = SumFunctionOnSet(r, A) - SumFunctionOnSet(w, C \ A)
<1> DEFINE U == A \ {c}
           P == U \cap C
           D == C \ A
           E == C \cap A
<1>1. C \in SUBSET Backends /\ c \in C /\ MaxWeight \in Nat
  BY WeightType DEF Turn
<1>2. IsFiniteSet(A) /\ IsFiniteSet(U) /\ IsFiniteSet(P) /\ IsFiniteSet(D) /\ IsFiniteSet(E)
      /\ IsFiniteSet(C)
  <2>1. {A, U, P, D, E, C} \subseteq SUBSET Backends
    BY <1>1
  <2> HIDE DEF U, P, D, E
  <2>. QED BY <2>1, SizeType
<1>3. \A b \in C : w[b] \in Int
  BY <1>1, SMTT(60) DEF Turn
<1>4. /\ \A b \in A : r[b] \in Int /\ s[b] \in Int
      /\ s[c] = r[c] + w[c] - SumFunctionOnSet(w, C)
  BY <1>1 DEF Turn
<1>5. SumFunctionOnSet(s, U) = SumFunctionOnSet(r, U) + SumFunctionOnSet(w, P)
  <2>1. U \in SUBSET Backends /\ c \notin U
    OBVIOUS
  <2> HIDE DEF U
  <2>2. /\ SumFunctionOnSet(s, U) = SumFunctionOnSet(r, U) + SumFunctionOnSet(w, U \cap C)
        /\ SumFunctionOnSet(r, U) = SumFunctionOnSet(r, U \cap C) + SumFunctionOnSet(r, U \ C)
    <3> SUFFICES \A X \in SUBSET Backends : c \notin X =>
          /\ SumFunctionOnSet(s, X) = SumFunctionOnSet(r, X) + SumFunctionOnSet(w, X \cap C)
          /\ SumFunctionOnSet(r, X) = SumFunctionOnSet(r, X \cap C) + SumFunctionOnSet(r, X \ C)
      BY <2>1
    <3>. QED BY TurnOutside, SMTT(60)
  <2>. QED BY <2>2
<1>6. /\ SumFunctionOnSet(s, A) = s[c] + SumFunctionOnSet(s, U)
      /\ SumFunctionOnSet(r, A) = r[c] + SumFunctionOnSet(r, U)
  BY <1>2, <1>4, SumRemove, SMTT(60)
<1>7. SumFunctionOnSet(w, C) = SumFunctionOnSet(w, E) + SumFunctionOnSet(w, D)
  <2>1. E \cap D = {} /\ E \cup D = C
    OBVIOUS
  <2> HIDE DEF E, D
  <2>. QED BY <1>2, <1>3, <2>1, SumUnion
<1>8. SumFunctionOnSet(w, E) = w[c] + SumFunctionOnSet(w, P)
  <2>1. c \in E /\ E \ {c} = P /\ \A b \in E : w[b] \in Int
    BY <1>1, <1>3
  <2> HIDE DEF E, P
  <2>. QED BY <1>2, <2>1, SumRemove, SMTT(60)
<1>9. SumFunctionOnSet(w, P) \in Int /\ SumFunctionOnSet(w, D) \in Int
      /\ SumFunctionOnSet(r, U) \in Int /\ w[c] \in Int /\ r[c] \in Int
  BY <1>1, <1>2, <1>3, <1>4, SumInt
<1> HIDE DEF U, P, E, D
<1>10. SumFunctionOnSet(s, A) = SumFunctionOnSet(r, A) - SumFunctionOnSet(w, D)
  BY <1>4, <1>5, <1>6, <1>7, <1>8, <1>9, SMTT(60)
<1>. QED BY <1>10 DEF D

(* A turn keeps the balance.                                                *)
LEMMA TurnBalanced ==
  ASSUME NEW r, NEW w, NEW C, NEW c, NEW s, Turn(r, w, C, c, s), ScoresBalanced(r)
  PROVE  ScoresBalanced(s)
<1>1. MaxWeight \in Nat /\ N \in Nat
  BY WeightType, SizeType
<1>2. /\ C \in SUBSET Backends /\ c \in C /\ c \in Backends
      /\ \A b \in Backends : r[b] \in Int
      /\ \A b \in C : w[b] \in Nat /\ w[b] <= MaxWeight /\ r[b] \in Int
      /\ \A b \in C : r[b] + w[b] <= r[c] + w[c]
  BY <1>1, SMTT(60) DEF Turn
<1>3. \A A \in SUBSET Backends : SumFunctionOnSet(r, A) \in Int
  BY <1>2, SizeType, SumInt
<1>4. \A A \in SUBSET C : SumFunctionOnSet(w, A) \in Nat
                          /\ SumFunctionOnSet(w, A) <= Cardinality(A) * MaxWeight
  <2> TAKE A \in SUBSET C
  <2>1. IsFiniteSet(A) /\ \A b \in A : w[b] \in Nat /\ w[b] \in Int /\ w[b] <= MaxWeight
    BY <1>2, SizeType, SMTT(60)
  <2>. QED BY <1>1, <2>1, SumNat, SumBound, SMTT(60)
<1>5. ASSUME NEW A \in SUBSET Backends, c \notin A, A # {}
      PROVE  /\ SumFunctionOnSet(s, A) < Limit(Cardinality(A))
             /\ 0 - SumFunctionOnSet(s, A) < Limit(Cardinality(A))
  <2> DEFINE P == A \cap C
             Q == A \ C
             k1 == Cardinality(P)
             k2 == Cardinality(Q)
             R == r[c] + w[c]
             SP == SumFunctionOnSet(r, P)
             SQ == SumFunctionOnSet(r, Q)
             SW == SumFunctionOnSet(w, P)
  <2>1. SumFunctionOnSet(s, A) = SP + SQ + SW /\ SumFunctionOnSet(r, A) = SP + SQ
    BY <1>5, TurnOutside, SMTT(60)
  <2>2. SP \in Int /\ SQ \in Int /\ SW \in Nat /\ SW <= k1 * MaxWeight
    BY <1>3, <1>4
  <2>3. /\ SumFunctionOnSet(r, A) < Limit(Cardinality(A))
        /\ 0 - SumFunctionOnSet(r, A) < Limit(Cardinality(A))
    BY <1>5 DEF ScoresBalanced
  <2>4. Limit(Cardinality(A)) \in Int
    BY SizeType, LimitInt
  <2>5. CASE P = {}
    <3>1. SW = 0
      BY <2>5, SumEmpty
    <3> HIDE DEF SP, SQ, SW
    <3>. QED BY <2>1, <2>2, <2>3, <2>4, <3>1, SMTT(60)
  <2>6. CASE P # {}
    <3>1. k1 \in Nat \ {0} /\ k2 \in Nat /\ Cardinality(A) = k1 + k2
          /\ IsFiniteSet(P) /\ IsFiniteSet(Q) /\ IsFiniteSet(A)
      <4>1. P \cap Q = {} /\ P \cup Q = A /\ P \in SUBSET Backends /\ Q \in SUBSET Backends
        OBVIOUS
      <4> HIDE DEF P, Q
      <4>2. IsFiniteSet(P) /\ IsFiniteSet(Q) /\ IsFiniteSet(A)
        BY <4>1, SizeType
      <4>3. k1 \in Nat /\ k2 \in Nat /\ k1 >= 1
        BY <2>6, <4>1, SizeType, SMTT(60)
      <4>4. Cardinality(A) = k1 + k2
        <5>1. Cardinality(P \cap Q) = 0
          BY <4>1, FS_EmptySet
        <5>2. Cardinality(P \cup Q) = Cardinality(P) + Cardinality(Q) - Cardinality(P \cap Q)
          BY <4>2, FS_Union
        <5>3. Cardinality(A) = k1 + k2 - 0
          BY <4>1, <5>1, <5>2
        <5> HIDE DEF k1, k2
        <5>. QED BY <4>3, <5>3, SMTT(60)
      <4>. QED BY <4>2, <4>3, <4>4, SMTT(60)
    <3>2. /\ A \cup {c} \in SUBSET Backends
          /\ Cardinality(A \cup {c}) = k1 + k2 + 1
          /\ SumFunctionOnSet(r, A \cup {c}) = r[c] + SP + SQ
      <4>1. A \cup {c} \in SUBSET Backends
        BY <1>2
      <4>2. Cardinality(A \cup {c}) = Cardinality(A) + 1
        BY <1>5, <3>1, FS_AddElement
      <4>3. SumFunctionOnSet(r, A \cup {c}) = r[c] + SumFunctionOnSet(r, A)
        BY <1>2, <1>5, <3>1, SumAdd
      <4> HIDE DEF SP, SQ, k1, k2
      <4>. QED BY <1>2, <2>1, <2>2, <3>1, <4>1, <4>2, <4>3, SMTT(60)
    <3>3. r[c] + SP + SQ < Limit(k1 + k2 + 1) /\ k1 + k2 + 1 <= N
      <4>1. A \cup {c} # {}
        OBVIOUS
      <4>2. SumFunctionOnSet(r, A \cup {c}) < Limit(Cardinality(A \cup {c}))
        BY <3>2, <4>1 DEF ScoresBalanced
      <4>3. Cardinality(A \cup {c}) <= N
        BY <3>2, SizeType, SMTT(60)
      <4>. QED BY <3>2, <4>2, <4>3
    <3>4. SQ <= Limit(k2)
      <4>1. CASE Q = {}
        <5>1. SQ = 0 /\ k2 = 0
          BY <4>1, SumEmpty, FS_EmptySet
        <5>2. Limit(0) = 0
          BY <1>1, SMTT(60) DEF Limit
        <5>. QED BY <5>1, <5>2, SMTT(60)
      <4>2. CASE Q # {}
        <5>1. SQ < Limit(k2)
          BY <4>2 DEF ScoresBalanced
        <5>2. Limit(k2) \in Int
          BY SizeType, LimitInt
        <5> HIDE DEF SQ, k2
        <5>. QED BY <2>2, <5>1, <5>2, SMTT(60)
      <4>. QED BY <4>1, <4>2
    <3>5. SP + SW <= k1 * R
      <4> DEFINE h == [b \in P |-> r[b] + w[b]]
      <4>1. SumFunctionOnSet(h, P) = SP + SW
        <5>1. \A b \in P : r[b] \in Int /\ w[b] \in Int /\ h[b] = r[b] + w[b]
          BY <1>2, SMTT(60)
        <5> HIDE DEF h, P
        <5>. QED BY <3>1, <5>1, SumPlus, SMTT(60)
      <4>2. R \in Int /\ \A b \in P : h[b] \in Int /\ h[b] <= R
        BY <1>2, SMTT(60)
      <4> HIDE DEF h, P, R
      <4>3. SumFunctionOnSet(h, P) <= Cardinality(P) * R
        BY <3>1, <4>2, SumBound
      <4>. QED BY <4>1, <4>3
    <3>6. R \in Int /\ w[c] \in Nat /\ w[c] <= MaxWeight /\ r[c] \in Int /\ R = r[c] + w[c]
      BY <1>2, SMTT(60)
    <3>7. (SP + SW) + SQ + R < Limit(k1 + k2 + 1) + (k1 + 1) * MaxWeight
      <4>1. (k1 + 1) * MaxWeight = k1 * MaxWeight + MaxWeight /\ k1 * MaxWeight \in Int
        BY <1>1, <3>1, SMTT(60)
      <4>2. Limit(k1 + k2 + 1) \in Int
        <5> HIDE DEF k1, k2
        <5>. QED BY <1>1, <3>1, <3>3, LimitInt, SMTT(60)
      <4> HIDE DEF SP, SQ, SW, R, k1, k2
      <4>. QED BY <1>1, <2>2, <3>3, <3>6, <4>1, <4>2, SMTT(60)
    <3> HIDE DEF SP, SQ, SW, R, k1, k2
    <3>8. SP + SW \in Int
      BY <2>2, SMTT(60)
    <3>9. (SP + SW) + SQ < Limit(k1 + k2)
      BY <2>2, <3>1, <3>3, <3>4, <3>5, <3>6, <3>7, <3>8, RiseBounded
    <3>. QED BY <2>1, <2>2, <2>3, <2>4, <3>1, <3>9, SMTT(60)
  <2>. QED BY <2>5, <2>6
<1>6. ASSUME NEW A \in SUBSET Backends, c \in A
      PROVE  /\ SumFunctionOnSet(s, A) < Limit(Cardinality(A))
             /\ 0 - SumFunctionOnSet(s, A) < Limit(Cardinality(A))
  <2> DEFINE D == C \ A
             U == A \ {c}
             k == Cardinality(A)
             m == Cardinality(D)
             R == r[c] + w[c]
             SA == SumFunctionOnSet(r, A)
             SU == SumFunctionOnSet(r, U)
             SD == SumFunctionOnSet(r, D)
             SW == SumFunctionOnSet(w, D)
  <2>1. SumFunctionOnSet(s, A) = SA - SW
    BY <1>6, TurnInside, SMTT(60)
  <2>2. D \in SUBSET Backends /\ U \in SUBSET Backends /\ D \in SUBSET C
    BY <1>2
  <2>3. SA \in Int /\ SU \in Int /\ SD \in Int /\ SW \in Nat /\ SW <= m * MaxWeight
    BY <1>3, <1>4, <2>2
  <2>4. SA < Limit(k) /\ 0 - SA < Limit(k)
    BY <1>6 DEF ScoresBalanced
  <2>5. Limit(k) \in Int
    BY SizeType, LimitInt
  <2>6. CASE D = {}
    <3>1. SW = 0
      BY <2>6, SumEmpty
    <3> HIDE DEF SA, SW
    <3>. QED BY <2>1, <2>3, <2>4, <2>5, <3>1, SMTT(60)
  <2>7. CASE D # {}
    <3>1. IsFiniteSet(A) /\ IsFiniteSet(D) /\ IsFiniteSet(U)
          /\ k \in Nat \ {0} /\ m \in Nat \ {0}
      <4>1. A # {}
        BY <1>6
      <4> HIDE DEF D, U
      <4>2. k \in Nat /\ k >= 1 /\ m \in Nat /\ m >= 1
        BY <2>2, <2>7, <4>1, SizeType, SMTT(60)
      <4>. QED BY <2>2, <4>2, SizeType, SMTT(60)
    <3>2. /\ A \cup D \in SUBSET Backends /\ A \cup D # {}
          /\ Cardinality(A \cup D) = k + m
          /\ SumFunctionOnSet(r, A \cup D) = SA + SD
      <4>1. A \cap D = {} /\ A \cup D \in SUBSET Backends /\ A \cup D # {}
        BY <1>6, <2>2
      <4> HIDE DEF D
      <4>2. Cardinality(A \cap D) = 0
        BY <4>1, FS_EmptySet
      <4>3. Cardinality(A \cup D) = Cardinality(A) + Cardinality(D) - Cardinality(A \cap D)
        BY <3>1, FS_Union
      <4>4. SumFunctionOnSet(r, A \cup D) = SA + SD
        BY <1>2, <3>1, <4>1, SumUnion
      <4>. QED BY <3>1, <4>1, <4>2, <4>3, <4>4, SMTT(60)
    <3>3. 0 - (SA + SD) < Limit(k + m) /\ k + m <= N
      <4>1. 0 - SumFunctionOnSet(r, A \cup D) < Limit(Cardinality(A \cup D))
        BY <3>2 DEF ScoresBalanced
      <4>2. Cardinality(A \cup D) <= N
        BY <3>2, SizeType, SMTT(60)
      <4>. QED BY <3>2, <4>1, <4>2
    <3>4. SD + SW <= m * R
      <4> DEFINE h == [b \in D |-> r[b] + w[b]]
      <4>1. SumFunctionOnSet(h, D) = SD + SW
        <5>1. \A b \in D : r[b] \in Int /\ w[b] \in Int /\ h[b] = r[b] + w[b]
          BY <1>2, SMTT(60)
        <5> HIDE DEF h, D
        <5>. QED BY <3>1, <5>1, SumPlus, SMTT(60)
      <4>2. R \in Int /\ \A b \in D : h[b] \in Int /\ h[b] <= R
        BY <1>2, SMTT(60)
      <4> HIDE DEF h, D, R
      <4>3. SumFunctionOnSet(h, D) <= Cardinality(D) * R
        BY <3>1, <4>2, SumBound
      <4>. QED BY <4>1, <4>3
    <3>5. R \in Int /\ w[c] \in Nat /\ w[c] <= MaxWeight /\ r[c] \in Int /\ R = r[c] + w[c]
      BY <1>2, SMTT(60)
    <3>6. SA = r[c] + SU /\ Cardinality(U) = k - 1
      <4>1. SA = r[c] + SU
        BY <1>2, <1>6, <3>1, SumRemove, SMTT(60)
      <4>2. Cardinality(U) = k - 1
        BY <1>6, <3>1, FS_RemoveElement
      <4>. QED BY <4>1, <4>2
    <3>7. 0 - SU <= Limit(k - 1)
      <4>1. CASE U = {}
        <5>1. SU = 0 /\ Cardinality(U) = 0
          BY <4>1, SumEmpty, FS_EmptySet
        <5>2. Limit(0) = 0
          BY <1>1, SMTT(60) DEF Limit
        <5> HIDE DEF SU, U, k
        <5>. QED BY <3>6, <5>1, <5>2, SMTT(60)
      <4>2. CASE U # {}
        <5>1. 0 - SU < Limit(Cardinality(U))
          BY <2>2, <4>2 DEF ScoresBalanced
        <5>2. Limit(Cardinality(U)) \in Int
          BY <2>2, SizeType, LimitInt
        <5> HIDE DEF SU, U, k
        <5>. QED BY <2>3, <3>6, <5>1, <5>2, SMTT(60)
      <4>. QED BY <4>1, <4>2
    <3>8. (m + 1) * MaxWeight = m * MaxWeight + MaxWeight /\ m * MaxWeight \in Int
          /\ m * R \in Int
      BY <1>1, <3>1, <3>5, SMTT(60)
    <3> HIDE DEF SA, SU, SD, SW, R, k, m, D, U
    <3>9. Limit(k - 1) \in Int /\ Limit(k + m) \in Int
      BY <1>1, <3>1, <3>3, LimitInt, SMTT(60)
    <3> DEFINE x == 0 - (SA - SW)
    <3>10. x \in Int
      BY <2>3, SMTT(60)
    <3>11. x <= Limit(k - 1) - R + (m + 1) * MaxWeight
      BY <1>1, <2>3, <3>5, <3>6, <3>7, <3>8, <3>9, SMTT(60)
    <3>12. x < Limit(k + m) + m * R
      BY <2>3, <3>3, <3>4, <3>8, <3>9, SMTT(60)
    <3>13. x < Limit(k)
      <4> HIDE DEF x
      <4>. QED BY <3>1, <3>3, <3>5, <3>10, <3>11, <3>12, FallBounded
    <3>14. SA - SW < Limit(k) /\ 0 - (SA - SW) < Limit(k)
      BY <2>3, <2>4, <2>5, <3>13, SMTT(60)
    <3>. QED BY <2>1, <3>14 DEF k
  <2>. QED BY <2>6, <2>7
<1>. QED BY <1>5, <1>6 DEF ScoresBalanced

(* Pruning takes scores out of every group.                                 *)
LEMMA PrunedBalanced ==
  ASSUME NEW r \in [Backends -> Int], NEW K, ScoresBalanced(r)
  PROVE  ScoresBalanced([b \in Backends |-> IF b \in K THEN r[b] ELSE 0])
<1> DEFINE s == [b \in Backends |-> IF b \in K THEN r[b] ELSE 0]
<1>1. ASSUME NEW A \in SUBSET Backends, A # {}
      PROVE  /\ SumFunctionOnSet(s, A) < Limit(Cardinality(A))
             /\ 0 - SumFunctionOnSet(s, A) < Limit(Cardinality(A))
  <2> DEFINE P == A \cap K
             Q == A \ K
             j == Cardinality(P)
             k == Cardinality(A)
  <2>1. /\ P \cap Q = {} /\ P \cup Q = A /\ P \subseteq A
        /\ P \in SUBSET Backends /\ Q \in SUBSET Backends
    OBVIOUS
  <2>2. /\ \A b \in P : s[b] = r[b] /\ r[b] \in Int /\ s[b] \in Int
        /\ \A b \in Q : s[b] = 0 /\ s[b] \in Nat /\ s[b] \in Int
    BY SMTT(60)
  <2> HIDE DEF P, Q, s
  <2>3. IsFiniteSet(A) /\ IsFiniteSet(P) /\ IsFiniteSet(Q)
    BY <2>1, SizeType
  <2>4. SumFunctionOnSet(s, A) = SumFunctionOnSet(s, P) + SumFunctionOnSet(s, Q)
    <3>1. \A b \in P \cup Q : s[b] \in Int
      BY <2>2
    <3>. QED BY <2>1, <2>3, <3>1, SumUnion
  <2>5. SumFunctionOnSet(s, Q) = 0
    <3>1. SumFunctionOnSet(s, Q) \in Nat
      BY <2>2, <2>3, SumNat
    <3>2. SumFunctionOnSet(s, Q) <= Cardinality(Q) * 0
      BY <2>2, <2>3, SumBound, SMTT(60)
    <3>3. Cardinality(Q) \in Nat
      BY <2>3, FS_CardinalityType
    <3>. QED BY <3>1, <3>2, <3>3, SMTT(60)
  <2>6. SumFunctionOnSet(r, P) = SumFunctionOnSet(s, P) /\ SumFunctionOnSet(r, P) \in Int
    BY <2>2, <2>3, SumSame, SumInt
  <2>7. j \in 0 .. N /\ k \in 0 .. N /\ k >= 1 /\ j <= k
    BY <1>1, <2>1, <2>3, SizeType, FS_Subset
  <2>8. Limit(j) <= Limit(k) /\ Limit(j) \in Int /\ Limit(k) \in Int
    <3> HIDE DEF j, k
    <3>1. j \in 0 .. k
      BY <2>7, SMTT(60)
    <3>. QED BY <2>7, <3>1, LimitGrows, LimitInt
  <2>9. CASE P = {}
    <3>1. SumFunctionOnSet(r, P) = 0
      BY <2>9, SumEmpty
    <3>2. Limit(k) > 0
      <4>1. Limit(1) <= Limit(k)
        <5> HIDE DEF k
        <5>1. 1 \in 0 .. k
          BY <2>7, SMTT(60)
        <5>. QED BY <2>7, <5>1, LimitGrows
      <4>2. Limit(1) > 0 /\ Limit(1) \in Int
        <5>1. (2 * N - 2) * MaxWeight \in Nat \ {0}
          BY WeightType, SizeType, SMTT(60)
        <5>2. Limit(1) = (2 * N - 2) * MaxWeight
          BY WeightType, SizeType, SMTT(60) DEF Limit
        <5>. QED BY <5>1, <5>2, SMTT(60)
      <4>. QED BY <2>8, <4>1, <4>2, SMTT(60)
    <3>. QED BY <2>4, <2>5, <2>6, <2>8, <3>1, <3>2, SMTT(60)
  <2>10. CASE P # {}
    <3>1. SumFunctionOnSet(r, P) < Limit(j) /\ 0 - SumFunctionOnSet(r, P) < Limit(j)
      BY <2>1, <2>10 DEF ScoresBalanced
    <3>. QED BY <2>4, <2>5, <2>6, <2>8, <3>1, SMTT(60)
  <2>. QED BY <2>9, <2>10
<1>. QED BY <1>1 DEF ScoresBalanced

(* A single score.                                                          *)
LEMMA ScoreInBounds ==
  ASSUME NEW r \in [Backends -> Int], ScoresBalanced(r), NEW b \in Backends
  PROVE  r[b] < ScoreBound /\ 0 - r[b] < ScoreBound /\ ScoreBound \in Int
<1>1. {b} \in SUBSET Backends /\ {b} # {} /\ Cardinality({b}) = 1
  BY FS_Singleton
<1>2. SumFunctionOnSet(r, {b}) = r[b]
  <2>1. {b} \ {b} = {} /\ IsFiniteSet({b}) /\ \A x \in {b} : r[x] \in Int
    BY FS_Singleton
  <2>2. SumFunctionOnSet(r, {b}) = r[b] + SumFunctionOnSet(r, {b} \ {b})
    BY <2>1, SumRemove
  <2>. QED BY <2>1, <2>2, SumEmpty, SMTT(60)
<1>3. Limit(1) = ScoreBound /\ ScoreBound \in Int
  BY WeightType, SizeType, SMTT(60) DEF Limit, ScoreBound, N
<1>4. SumFunctionOnSet(r, {b}) < Limit(1) /\ 0 - SumFunctionOnSet(r, {b}) < Limit(1)
  BY <1>1 DEF ScoresBalanced
<1>. QED BY <1>2, <1>3, <1>4

-----------------------------------------------------------------------------
(* weightedBackendLocked finds a first highest score.                       *)
LEMMA FirstHighest ==
  ASSUME NEW r \in [Backends -> Int], NEW C \in SUBSET Backends, C # {}
  PROVE  \E b \in C : \A c \in C : r[b] > r[c] \/ (r[b] = r[c] /\ b <= c)
<1> DEFINE First(T, b) == \A c \in T : r[b] > r[c] \/ (r[b] = r[c] /\ b <= c)
           Bad == {T \in SUBSET C : T # {} /\ \A b \in T : ~First(T, b)}
<1> SUFFICES ASSUME C \in Bad PROVE FALSE
  OBVIOUS
<1>1. IsFiniteSet(C) /\ \A b \in C : r[b] \in Int /\ b \in Nat
  BY SizeType, RouterAssumption
<1>2. PICK T \in Bad : \A U \in SUBSET C : U \subseteq T /\ U # T => U \notin Bad
  <2>1. Bad \subseteq SUBSET C /\ Bad # {}
    OBVIOUS
  <2> HIDE DEF Bad
  <2>. QED BY <1>1, <2>1, SmallestSubset, SMTT(60)
<1>3. T \in SUBSET C /\ T # {} /\ \A b \in T : ~First(T, b)
  BY <1>2
<1>4. PICK x \in T : TRUE
  BY <1>3
<1> DEFINE U == T \ {x}
<1>5. CASE U = {}
  <2>1. \A c \in T : c = x
    BY <1>5
  <2>2. First(T, x)
    BY <1>1, <1>3, <2>1, SMTT(60)
  <2>. QED BY <1>3, <2>2
<1>6. CASE U # {}
  <2>1. U \in SUBSET C /\ U \subseteq T /\ U # T
    BY <1>3
  <2>2. PICK b \in U : First(U, b)
    BY <1>2, <1>6, <2>1
  <2>3. b \in T /\ b \in C /\ x \in C /\ \A c \in T : c \in C /\ (c = x \/ c \in U)
    BY <1>3
  <2>4. First(T, b) \/ First(T, x)
    BY <1>1, <2>2, <2>3, SMTT(60)
  <2>. QED BY <1>3, <2>3, <2>4
<1>. QED BY <1>5, <1>6

(* The candidates are backends with a weight.                               *)
LEMMA ReadyType ==
  ASSUME Types
  PROVE  /\ ReadyBackends \in SUBSET Backends /\ ReadyBackends \subseteq DOMAIN routes
         /\ \A b \in ReadyBackends : Weight(b) \in 1 .. MaxWeight
         /\ \A load : Candidates(load) \in SUBSET ReadyBackends
<1>1. PICK B \in SUBSET Backends : routes \in [B -> Kept]
  BY DEF Types
<1>2. \A b \in DOMAIN routes : b \in Backends /\ Weight(b) \in 0 .. MaxWeight
  BY <1>1 DEF Kept, Weight
<1>3. ReadyBackends \in SUBSET Backends /\ ReadyBackends \subseteq DOMAIN routes
  BY <1>2 DEF ReadyBackends
<1>4. \A b \in ReadyBackends : Weight(b) \in 1 .. MaxWeight
  BY <1>2, WeightType, SMTT(60) DEF ReadyBackends
<1>5. \A load : Candidates(load) \in SUBSET ReadyBackends
  BY DEF Candidates, LeastLoaded
<1>. QED BY <1>3, <1>4, <1>5

(* What a selection does to the scores: a turn, or nothing when there is    *)
(* only one candidate.                                                      *)
LEMMA SelectTurns ==
  ASSUME Types, NEW C \in SUBSET ReadyBackends, C # {}
  PROVE  /\ Chosen(C) \in C
         /\ Cardinality(C) = 1 => Scores(C) = rr /\ C = {Chosen(C)}
         /\ Cardinality(C) # 1 =>
              Turn(rr, [b \in C |-> Weight(b)], C, Chosen(C), Scores(C))
<1> DEFINE w == [b \in C |-> Weight(b)]
           c == Chosen(C)
           R == Raised(C)
           Highest(b) == \A d \in C : R[b] > R[d] \/ (R[b] = R[d] /\ b <= d)
<1>1. C \in SUBSET Backends /\ w \in [C -> 0 .. MaxWeight] /\ rr \in [Backends -> Int]
  BY ReadyType, WeightType, SMTT(60) DEF Types
<1>2. R \in [Backends -> Int] /\ \A b \in Backends : R[b] = IF b \in C THEN rr[b] + w[b] ELSE rr[b]
  BY <1>1, WeightType, SMTT(60) DEF Raised
<1>3. c \in C /\ Highest(c)
  <2>1. \E b \in C : Highest(b)
    BY <1>1, <1>2, FirstHighest
  <2>. QED BY <2>1 DEF Chosen
<1>4. CASE Cardinality(C) = 1
  <2>1. IsFiniteSet(C)
    BY <1>1, SizeType
  <2>2. PICK x : C = {x}
    BY <1>4, <2>1, FS_Singleton
  <2>3. C = {c}
    BY <1>3, <2>2
  <2>. QED BY <1>3, <1>4, <2>3 DEF Scores
<1>5. CASE Cardinality(C) # 1
  <2> DEFINE s == [R EXCEPT ![c] = @ - Total(C)]
  <2>1. Scores(C) = s /\ Total(C) = SumFunctionOnSet(w, C)
    BY <1>5 DEF Scores, Total
  <2>2. SumFunctionOnSet(w, C) \in Int
    <3>1. IsFiniteSet(C) /\ \A b \in C : w[b] \in Int
      BY <1>1, SizeType, WeightType, SMTT(60)
    <3> HIDE DEF w
    <3>. QED BY <3>1, SumInt
  <2>3. \A b \in C : rr[b] + w[b] <= rr[c] + w[c]
    <3>1. \A b \in C : R[b] = rr[b] + w[b] /\ R[b] \in Int
      BY <1>1, <1>2
    <3>2. \A b \in C : R[b] <= R[c]
      BY <1>3, <3>1, SMTT(60)
    <3>. QED BY <1>3, <3>1, <3>2
  <2> HIDE DEF w, c, R
  <2>4. s \in [Backends -> Int]
    BY <1>1, <1>2, <1>3, <2>1, <2>2, SMTT(60)
  <2>5. \A b \in Backends :
          s[b] = CASE b = c -> rr[b] + w[b] - SumFunctionOnSet(w, C)
                   [] b \in C \ {c} -> rr[b] + w[b]
                   [] OTHER -> rr[b]
    BY <1>1, <1>2, <1>3, <2>1, <2>2, SMTT(60)
  <2>6. Turn(rr, w, C, c, s)
    BY <1>1, <1>3, <2>3, <2>4, <2>5 DEF Turn
  <2>7. Turn(rr, w, C, c, Scores(C))
    BY <2>1, <2>6
  <2>. QED BY <1>3, <1>5, <2>7 DEF w, c
<1>. QED BY <1>4, <1>5

LEMMA MinOfTwo ==
  ASSUME NEW a \in Nat, NEW b \in Nat
  PROVE  Min({a, b}) \in Nat /\ Min({a, b}) <= a
<1>1. \E x \in {a, b} : \A y \in {a, b} : x <= y
  BY SMTT(60)
<1>2. Min({a, b}) \in {a, b} /\ \A y \in {a, b} : Min({a, b}) <= y
  BY <1>1 DEF Min
<1>. QED BY <1>2

(* Scores of 0 are balanced.                                                *)
LEMMA ZeroBalanced == ScoresBalanced([b \in Backends |-> 0])
<1> DEFINE z == [b \in Backends |-> 0]
<1>1. ASSUME NEW A \in SUBSET Backends, A # {}
      PROVE  /\ SumFunctionOnSet(z, A) < Limit(Cardinality(A))
             /\ 0 - SumFunctionOnSet(z, A) < Limit(Cardinality(A))
  <2> DEFINE k == Cardinality(A)
  <2>1. \A b \in A : z[b] \in Nat /\ z[b] \in Int /\ z[b] <= 0
    BY SMTT(60)
  <2>2. IsFiniteSet(A) /\ k \in 0 .. N /\ k >= 1
    BY <1>1, SizeType
  <2> HIDE DEF z, k
  <2>3. SumFunctionOnSet(z, A) = 0
    <3>1. SumFunctionOnSet(z, A) \in Nat
      BY <2>1, <2>2, SumNat
    <3>2. SumFunctionOnSet(z, A) <= k * 0
      BY <2>1, <2>2, SumBound, SMTT(60) DEF k
    <3>. QED BY <2>2, <3>1, <3>2, SMTT(60)
  <2>4. Limit(1) <= Limit(k)
    <3>1. 1 \in 0 .. k
      BY <2>2, SMTT(60)
    <3>. QED BY <2>2, <3>1, LimitGrows
  <2>5. Limit(1) > 0 /\ Limit(1) \in Int /\ Limit(k) \in Int
    <3>1. (2 * N - 2) * MaxWeight \in Nat \ {0}
      BY WeightType, SizeType, SMTT(60)
    <3>2. Limit(1) = (2 * N - 2) * MaxWeight
      BY WeightType, SizeType, SMTT(60) DEF Limit
    <3>. QED BY <2>2, <3>1, <3>2, LimitInt, SMTT(60)
  <2>. QED BY <2>3, <2>4, <2>5, SMTT(60) DEF k
<1>. QED BY <1>1 DEF ScoresBalanced

(* The sum of the weights of the candidates is positive.                    *)
LEMMA TotalPositive ==
  ASSUME Types, ReadyBackends # {}
  PROVE  Total(ReadyBackends) \in Nat /\ Total(ReadyBackends) >= 1
<1> DEFINE C == ReadyBackends
           w == [b \in C |-> Weight(b)]
<1>1. PICK x \in C : TRUE
  OBVIOUS
<1>2. IsFiniteSet(C) /\ \A b \in C : w[b] \in Nat /\ w[b] \in Int /\ w[b] >= 1
  BY ReadyType, SizeType, WeightType, SMTT(60)
<1>3. Total(ReadyBackends) = SumFunctionOnSet(w, C)
  BY DEF Total
<1> HIDE DEF w, C
<1>4. IsFiniteSet(C \ {x}) /\ \A b \in C \ {x} : w[b] \in Nat
  BY <1>2, FS_Subset
<1>5. SumFunctionOnSet(w, C) = w[x] + SumFunctionOnSet(w, C \ {x})
  BY <1>1, <1>2, SumRemove, SMTT(60)
<1>6. SumFunctionOnSet(w, C \ {x}) \in Nat
  BY <1>4, SumNat
<1>. QED BY <1>1, <1>2, <1>3, <1>5, <1>6, SMTT(60)

(* Right after a publication with scores of 0 nothing has been selected.    *)
LEMMA FreshAccounted ==
  ASSUME Types, \A b \in Backends : rr[b] = 0, selects = 0, picked = 0
  PROVE  Accounted
<1> SUFFICES ASSUME Cardinality(ReadyBackends) > 1
             PROVE  LET T == Total(ReadyBackends)
                    IN  /\ SumFunctionOnSet(rr, ReadyBackends) = 0
                        /\ \A b \in ReadyBackends : 0 - T < rr[b]
                        /\ \E p \in [ReadyBackends -> Nat] :
                             /\ \A b \in ReadyBackends : rr[b] = selects * Weight(b) - T * p[b]
                             /\ watched \in ReadyBackends => p[watched] = picked
  BY DEF Accounted
<1> DEFINE C == ReadyBackends
           T == Total(ReadyBackends)
           p == [b \in C |-> 0]
<1>1. C \in SUBSET Backends /\ IsFiniteSet(C) /\ \A b \in C : Weight(b) \in Nat
  BY ReadyType, SizeType, WeightType, SMTT(60)
<1>2. C # {}
  BY FS_EmptySet, SMTT(60)
<1>3. T \in Nat /\ T >= 1
  BY <1>2, TotalPositive
<1>4. \A b \in C : rr[b] \in Nat /\ rr[b] \in Int /\ rr[b] <= 0
  BY <1>1, SMTT(60)
<1> HIDE DEF T, C
<1>5. SumFunctionOnSet(rr, C) = 0
  <2>1. SumFunctionOnSet(rr, C) \in Nat
    BY <1>1, <1>4, SumNat
  <2>2. SumFunctionOnSet(rr, C) <= Cardinality(C) * 0 /\ Cardinality(C) \in Nat
    BY <1>1, <1>4, SumBound, FS_CardinalityType, SMTT(60)
  <2>. QED BY <2>1, <2>2, SMTT(60)
<1>6. \A b \in C : 0 - T < rr[b]
  BY <1>1, <1>3, SMTT(60)
<1>7. /\ p \in [C -> Nat]
      /\ \A b \in C : rr[b] = selects * Weight(b) - T * p[b]
      /\ watched \in C => p[watched] = picked
  BY <1>1, <1>3, SMTT(60)
<1>. QED BY <1>5, <1>6, <1>7 DEF C, T

LEMMA RouterInitInv == RouterInit => RouterInv
<1> SUFFICES ASSUME RouterInit PROVE RouterInv
  OBVIOUS
<1>1. Types
  <2>1. PICK B \in SUBSET Backends : routes \in [B -> Entries]
    BY DEF RouterInit, Routes
  <2>2. Entries \subseteq Kept
    BY WeightType, RouterAssumption DEF Kept
  <2>3. routes \in [B -> Kept]
    BY <2>1, <2>2
  <2>. QED BY <2>3, SMTT(60) DEF RouterInit, Types
<1>2. ScoresBalanced(rr)
  BY ZeroBalanced DEF RouterInit
<1>3. Waiting
  <2>1. watched \in ReadyBackends => Weight(watched) \in Nat
    BY <1>1, ReadyType, WeightType, SMTT(60)
  <2>2. watched \in Backends /\ rr \in [Backends -> Int]
    BY <1>1 DEF Types
  <2>3. 0 - rr[watched] < ScoreBound /\ ScoreBound \in Int /\ rr[watched] \in Int
    BY <1>2, <2>2, ScoreInBounds
  <2>. QED BY <2>1, <2>3, SMTT(60) DEF RouterInit, Waiting
<1>4. Accounted
  BY <1>1, FreshAccounted DEF RouterInit
<1>. QED BY <1>1, <1>2, <1>3, <1>4 DEF RouterInv

-----------------------------------------------------------------------------
(* A turn over all candidates keeps the account.  Their raised scores add   *)
(* up to the sum of the weights, so the highest of them is positive.        *)
LEMMA TurnAccounted ==
  ASSUME NEW r, NEW w, NEW C, NEW c, NEW s, Turn(r, w, C, c, s),
         NEW T, T = SumFunctionOnSet(w, C), T \in Nat, T >= 1,
         NEW n \in Nat, NEW p \in [C -> Nat],
         SumFunctionOnSet(r, C) = 0,
         \A b \in C : 0 - T < r[b] /\ r[b] = n * w[b] - T * p[b]
  PROVE  /\ SumFunctionOnSet(s, C) = 0
         /\ \A b \in C : 0 - T < s[b]
         /\ \A b \in C : s[b] = (n + 1) * w[b] - T * [p EXCEPT ![c] = @ + 1][b]
<1>1. /\ C \in SUBSET Backends /\ c \in C /\ MaxWeight \in Nat
      /\ \A b \in C : r[b] \in Int /\ w[b] \in Int /\ w[b] >= 0 /\ p[b] \in Nat
      /\ \A b \in C : r[b] + w[b] <= r[c] + w[c]
      /\ \A b \in C : s[b] = IF b = c THEN r[b] + w[b] - T ELSE r[b] + w[b]
  BY WeightType, SMTT(60) DEF Turn
<1>2. IsFiniteSet(C)
  BY <1>1, SizeType
<1>3. SumFunctionOnSet(s, C) = 0
  <2>1. C \ C = {}
    OBVIOUS
  <2>2. SumFunctionOnSet(s, C) = SumFunctionOnSet(r, C) - SumFunctionOnSet(w, C \ C)
    BY <1>1, TurnInside, SMTT(60)
  <2>3. SumFunctionOnSet(w, C \ C) = 0
    BY <2>1, SumEmpty
  <2>. QED BY <2>2, <2>3, SMTT(60)
<1>4. r[c] + w[c] > 0
  <2> SUFFICES ASSUME r[c] + w[c] <= 0 PROVE FALSE
    BY <1>1, SMTT(60)
  <2> DEFINE h == [b \in C |-> r[b] + w[b]]
  <2>1. \A b \in C : h[b] = r[b] + w[b] /\ h[b] \in Int /\ h[b] <= 0
    BY <1>1, SMTT(60)
  <2> HIDE DEF h
  <2>2. SumFunctionOnSet(h, C) = SumFunctionOnSet(r, C) + SumFunctionOnSet(w, C)
    BY <1>1, <1>2, <2>1, SumPlus, SMTT(60)
  <2>3. SumFunctionOnSet(h, C) <= Cardinality(C) * 0 /\ Cardinality(C) \in Nat
    BY <1>2, <2>1, SumBound, FS_CardinalityType, SMTT(60)
  <2>. QED BY <2>2, <2>3, SMTT(60)
<1>5. \A b \in C : 0 - T < s[b]
  BY <1>1, <1>4, SMTT(60)
<1>6. ASSUME NEW b \in C
      PROVE  s[b] = (n + 1) * w[b] - T * [p EXCEPT ![c] = @ + 1][b]
  <2>1. (n + 1) * w[b] = n * w[b] + w[b] /\ n * w[b] \in Int /\ T * p[b] \in Int
    <3> DEFINE x == w[b]
               y == p[b]
    <3>1. x \in Int /\ y \in Int /\ T \in Int
      BY <1>1, SMTT(60)
    <3> HIDE DEF x, y
    <3>2. (n + 1) * x = n * x + x /\ n * x \in Int /\ T * y \in Int
      BY <3>1, SMTT(60)
    <3>. QED BY <3>2 DEF x, y
  <2>2. CASE b = c
    <3>1. [p EXCEPT ![c] = @ + 1][b] = p[b] + 1
      BY <2>2
    <3>2. T * (p[b] + 1) = T * p[b] + T
      BY <1>1, SMTT(60)
    <3>3. s[b] = r[b] + w[b] - T /\ r[b] = n * w[b] - T * p[b]
      BY <1>1, <2>2
    <3>. QED BY <1>1, <2>1, <3>1, <3>2, <3>3, SMTT(60)
  <2>3. CASE b # c
    <3>1. [p EXCEPT ![c] = @ + 1][b] = p[b]
      BY <2>3
    <3>2. s[b] = r[b] + w[b] /\ r[b] = n * w[b] - T * p[b]
      BY <1>1, <2>3
    <3>. QED BY <1>1, <2>1, <3>1, <3>2, SMTT(60)
  <2>. QED BY <2>2, <2>3
<1>. QED BY <1>3, <1>5, <1>6

(* When as many have been selected as the weights add up to, every score is *)
(* a multiple of that number; then the account closes.                      *)
LEMMA AccountCloses ==
  ASSUME NEW C, IsFiniteSet(C), NEW r, NEW T \in Nat, T >= 1,
         \A b \in C : r[b] \in Int /\ 0 - T < r[b] /\ \E d \in Int : r[b] = T * d
  PROVE  SumFunctionOnSet(r, C) = 0 => \A b \in C : r[b] = 0
<1>1. ASSUME NEW b \in C PROVE r[b] \in Nat
  <2>1. PICK d \in Int : r[b] = T * d
    OBVIOUS
  <2>2. d >= 0
    <3> SUFFICES ASSUME d <= 0 - 1 PROVE FALSE
      BY SMTT(60)
    <3>1. T * d <= T * (0 - 1) /\ T * (0 - 1) = 0 - T
      BY TimesGrows, SMTT(60)
    <3>. QED BY <2>1, <3>1, SMTT(60)
  <2>3. T * d \in Nat
    BY <2>2, SMTT(60)
  <2>. QED BY <2>1, <2>3
<1>2. \A b \in C : r[b] \in Nat
  BY <1>1
<1>. QED BY <1>2, SumZero

-----------------------------------------------------------------------------
(* Facts about the state after a step.                                      *)

(* A count of turns that begins anew.                                       *)
CountsAnew == Types /\ ScoresBalanced(rr) /\ skipped = 0

Started == Types /\ (\A b \in Backends : rr[b] = 0) /\ selects = 0 /\ picked = 0

LEMMA AnewWaiting == CountsAnew => Waiting
<1> SUFFICES ASSUME CountsAnew PROVE Waiting
  OBVIOUS
<1>1. watched \in ReadyBackends => Weight(watched) \in Nat
  BY ReadyType, WeightType, SMTT(60) DEF CountsAnew
<1>2. watched \in Backends /\ rr \in [Backends -> Int]
  BY DEF CountsAnew, Types
<1>3. 0 - rr[watched] < ScoreBound /\ ScoreBound \in Int /\ rr[watched] \in Int
  BY <1>2, ScoreInBounds DEF CountsAnew
<1>. QED BY <1>1, <1>3, SMTT(60) DEF CountsAnew, Waiting

LEMMA AnewWaitingNext == CountsAnew' => Waiting'
BY AnewWaiting, PTL

LEMMA StartedAccounted == Started => Accounted
BY FreshAccounted DEF Started

LEMMA StartedAccountedNext == Started' => Accounted'
BY StartedAccounted, PTL

(* Replace.                                                                 *)
LEMMA ReplaceInv ==
  ASSUME RouterInv, Replace
  PROVE  RouterInv'
<1>1. Types /\ ScoresBalanced(rr) /\ Waiting
  BY DEF RouterInv
<1>2. PICK next \in Routes :
        /\ Published(next)
        /\ rr' = Pruned(next)
        /\ fresh' = \A b \in Backends : Pruned(next)[b] = 0
        /\ skipped' = IF /\ watched \in DOMAIN routes \cap DOMAIN next
                         /\ routes[watched] = next[watched]
                        THEN skipped ELSE 0
  BY DEF Replace
<1>3. routes' = next /\ picked' = 0 /\ selects' = 0 /\ watched' = watched
  BY <1>2 DEF Published
<1>4. rr \in [Backends -> Int] /\ watched \in Backends /\ skipped \in Nat
  BY <1>1 DEF Types
<1>5. rr' = [b \in Backends |-> IF b \in DOMAIN next THEN rr[b] ELSE 0]
  BY <1>2 DEF Pruned
<1>6. Types'
  <2>1. PICK B \in SUBSET Backends : next \in [B -> Entries]
    BY DEF Routes
  <2>2. Entries \subseteq Kept
    BY WeightType, RouterAssumption DEF Kept
  <2>3. routes' \in [B -> Kept]
    BY <1>3, <2>1, <2>2
  <2>4. rr' \in [Backends -> Int]
    BY <1>4, <1>5, SMTT(60)
  <2>5. skipped' \in Nat
    BY <1>2, <1>4
  <2>. QED BY <1>3, <1>4, <2>3, <2>4, <2>5 DEF Types
<1>7. ScoresBalanced(rr')
  BY <1>1, <1>4, <1>5, PrunedBalanced
<1>8. Waiting'
  <2>1. CASE /\ watched \in DOMAIN routes \cap DOMAIN next
             /\ routes[watched] = next[watched]
    <3>1. skipped' = skipped /\ rr'[watched] = rr[watched]
      BY <1>2, <1>4, <1>5, <2>1
    <3>2. Weight(watched)' = Weight(watched)
      BY <1>3, <2>1 DEF Weight
    <3>3. (watched \in ReadyBackends)' => watched \in ReadyBackends
      BY <1>3, <2>1 DEF ReadyBackends, Weight
    <3>. QED BY <1>1, <1>3, <3>1, <3>2, <3>3 DEF Waiting, ScoreBound, MaxWeight
  <2>2. CASE ~(/\ watched \in DOMAIN routes \cap DOMAIN next
               /\ routes[watched] = next[watched])
    <3>1. skipped' = 0
      BY <1>2, <2>2
    <3>2. CountsAnew'
      BY <1>6, <1>7, <3>1 DEF CountsAnew
    <3>. QED BY <3>2, AnewWaitingNext
  <2>. QED BY <2>1, <2>2
<1>9. Accounted'
  <2>1. CASE fresh'
    <3>1. \A b \in Backends : rr'[b] = 0
      BY <1>2, <2>1
    <3>2. Started'
      BY <1>3, <1>6, <3>1 DEF Started
    <3>. QED BY <3>2, StartedAccountedNext
  <2>2. CASE ~fresh'
    BY <2>2 DEF Accounted
  <2>. QED BY <2>1, <2>2
<1>. QED BY <1>6, <1>7, <1>8, <1>9 DEF RouterInv

(* MarkReadyUnavailable leaves no candidate.                                *)
LEMMA MarkReadyUnavailableInv ==
  ASSUME RouterInv, MarkRouteUnavailable
  PROVE  RouterInv'
<1>1. Types /\ ScoresBalanced(rr)
  BY DEF RouterInv
<1>2. /\ routes' = [b \in DOMAIN routes |-> [routes[b] EXCEPT !.state = "unavailable"]]
      /\ picked' = 0 /\ selects' = 0 /\ watched' = watched /\ skipped' = 0 /\ rr' = rr
  BY DEF MarkRouteUnavailable, Published
<1>3. PICK B \in SUBSET Backends : routes \in [B -> Kept]
  BY <1>1 DEF Types
<1>4. \A b \in B : routes'[b] \in Kept /\ routes'[b].state = "unavailable"
  BY <1>2, <1>3 DEF Kept
<1>5. DOMAIN routes' = B /\ routes' \in [B -> Kept]
  BY <1>2, <1>3, <1>4
<1>6. Types'
  BY <1>1, <1>2, <1>5 DEF Types
<1>7. ReadyBackends' = {}
  BY <1>4, <1>5 DEF ReadyBackends
<1>8. Waiting'
  BY <1>7 DEF Waiting
<1>9. Accounted'
  BY <1>7 DEF Accounted, Weighted
<1>. QED BY <1>1, <1>2, <1>6, <1>8, <1>9 DEF RouterInv

(* Select.                                                                  *)
LEMMA SelectInv ==
  ASSUME RouterInv, NEW load \in [Backends -> 0 .. MaxLoad], Select(load)
  PROVE  RouterInv'
<1> DEFINE C == Candidates(load)
           c == Chosen(C)
           w == [b \in C |-> Weight(b)]
<1>1. Types /\ ScoresBalanced(rr) /\ Waiting /\ Accounted
  BY DEF RouterInv
<1>2. /\ C # {} /\ rr' = Scores(C)
      /\ routes' = routes /\ watched' = watched /\ fresh' = fresh
      /\ IF fresh /\ selects < MaxSelects
           THEN /\ selects' = selects + 1
                /\ picked' = picked + (IF c = watched THEN 1 ELSE 0)
           ELSE UNCHANGED <<selects, picked>>
      /\ skipped' = CASE watched = c -> 0
                      [] watched \in C \ {c} -> Min({skipped + 1, MaxSkips})
                      [] OTHER -> skipped
  BY DEF Select
<1>3. /\ rr \in [Backends -> Int] /\ watched \in Backends
      /\ picked \in Nat /\ selects \in Nat /\ skipped \in Nat
      /\ MaxSkips \in Nat /\ MaxSelects \in Nat
  BY <1>1, RouterAssumption DEF Types
<1>4. C \in SUBSET ReadyBackends /\ ReadyBackends \in SUBSET Backends
      /\ \A b \in ReadyBackends : Weight(b) \in 1 .. MaxWeight
  BY <1>1, ReadyType
<1>5. /\ c \in C
      /\ Cardinality(C) = 1 => Scores(C) = rr /\ C = {c}
      /\ Cardinality(C) # 1 => Turn(rr, w, C, c, Scores(C))
  BY <1>1, <1>2, <1>4, SelectTurns
<1>6. ReadyBackends' = ReadyBackends /\ Weighted' = Weighted
      /\ Total(ReadyBackends)' = Total(ReadyBackends)
      /\ \A b : Weight(b)' = Weight(b)
  BY <1>2 DEF ReadyBackends, Weighted, Weight, Total
<1>7. Min({skipped + 1, MaxSkips}) \in Nat /\ Min({skipped + 1, MaxSkips}) <= skipped + 1
  BY <1>3, MinOfTwo, SMTT(60)
<1>8. \A b \in C : w[b] = Weight(b)
  OBVIOUS
<1> HIDE DEF C, c, w
<1>9. /\ rr' \in [Backends -> Int]
      /\ \A b \in Backends \ {c} : rr'[b] = IF b \in C THEN rr[b] + w[b] ELSE rr[b]
  <2>1. CASE Cardinality(C) = 1
    BY <1>2, <1>3, <1>5, <2>1
  <2>2. CASE Cardinality(C) # 1
    BY <1>2, <1>5, <2>2 DEF Turn
  <2>. QED BY <2>1, <2>2
<1>10. Types'
  <2>1. picked' \in Nat /\ selects' \in Nat
    BY <1>2, <1>3, SMTT(60)
  <2>2. skipped' \in Nat
    BY <1>2, <1>3, <1>7
  <2>. QED BY <1>1, <1>2, <1>9, <2>1, <2>2 DEF Types
<1>11. ScoresBalanced(rr')
  <2>1. CASE Cardinality(C) = 1
    BY <1>1, <1>2, <1>5, <2>1
  <2>2. CASE Cardinality(C) # 1
    BY <1>1, <1>2, <1>5, <2>2, TurnBalanced
  <2>. QED BY <2>1, <2>2
<1>12. Waiting'
  <2>1. CASE watched = c
    <3>1. CountsAnew'
      BY <1>2, <1>10, <1>11, <2>1 DEF CountsAnew
    <3>. QED BY <3>1, AnewWaitingNext
  <2>2. CASE watched \in C \ {c}
    <3> DEFINE m == Min({skipped + 1, MaxSkips})
               v == Weight(watched)
    <3>1. skipped' = m /\ m \in Nat /\ m <= skipped + 1
      BY <1>2, <1>7, <2>2
    <3>2. watched \in ReadyBackends /\ v \in Nat /\ w[watched] = v
      BY <1>4, <1>8, <2>2, WeightType, SMTT(60)
    <3>3. rr'[watched] = rr[watched] + v /\ rr[watched] \in Int
      BY <1>3, <1>9, <2>2, <3>2
    <3>4. skipped * v < rr[watched] + ScoreBound /\ ScoreBound \in Int
      BY <1>1, <1>3, <3>2, ScoreInBounds DEF Waiting
    <3> HIDE DEF m, v
    <3>5. v * m <= v * (skipped + 1)
      BY <1>3, <3>1, <3>2, TimesGrows, SMTT(60)
    <3>6. v * m = m * v /\ v * (skipped + 1) = skipped * v + v /\ skipped * v \in Int
          /\ m * v \in Int
      BY <1>3, <3>1, <3>2, SMTT(60)
    <3> DEFINE x == rr'[watched]
               y == rr[watched]
    <3>7. x = y + v /\ y \in Int /\ skipped * v < y + ScoreBound
      BY <3>3, <3>4
    <3> HIDE DEF x, y
    <3>8. m * v < x + ScoreBound
      BY <3>2, <3>4, <3>5, <3>6, <3>7, SMTT(60)
    <3>9. Weight(watched)' = v
      BY <1>2 DEF Weight, v
    <3>10. skipped' * Weight(watched)' < rr'[watched] + ScoreBound
      BY <3>1, <3>8, <3>9 DEF x
    <3>. QED BY <1>2, <3>10 DEF Waiting, ScoreBound, MaxWeight
  <2>3. CASE watched # c /\ watched \notin C
    <3>1. skipped' = skipped
      BY <1>2, <2>3
    <3>2. rr'[watched] = rr[watched]
      BY <1>3, <1>9, <2>3
    <3>. QED BY <1>1, <1>2, <1>6, <3>1, <3>2 DEF Waiting, ScoreBound, MaxWeight
  <2>. QED BY <1>5, <2>1, <2>2, <2>3
<1>13. Accounted'
  <2> DEFINE T == Total(ReadyBackends)
  <2> SUFFICES ASSUME fresh, Weighted, Cardinality(ReadyBackends) > 1, selects' < MaxSelects
               PROVE  /\ SumFunctionOnSet(rr', ReadyBackends) = 0
                      /\ \A b \in ReadyBackends : 0 - T < rr'[b]
                      /\ \E p \in [ReadyBackends -> Nat] :
                           /\ \A b \in ReadyBackends :
                                rr'[b] = selects' * Weight(b) - T * p[b]
                           /\ watched \in ReadyBackends => p[watched] = picked'
    BY <1>2, <1>6 DEF Accounted
  <2>1. selects < MaxSelects /\ selects' = selects + 1
        /\ picked' = picked + (IF c = watched THEN 1 ELSE 0)
    BY <1>2, <1>3
  <2>2. C = ReadyBackends /\ T = SumFunctionOnSet(w, C) /\ Cardinality(C) # 1
    BY SMTT(60) DEF C, Candidates, w, Total
  <2>3. /\ SumFunctionOnSet(rr, C) = 0
        /\ \A b \in C : 0 - T < rr[b]
        /\ \E p \in [C -> Nat] :
             /\ \A b \in C : rr[b] = selects * Weight(b) - T * p[b]
             /\ watched \in C => p[watched] = picked
    BY <1>1, <2>1, <2>2 DEF Accounted
  <2>4. PICK p \in [C -> Nat] :
          /\ \A b \in C : rr[b] = selects * Weight(b) - T * p[b]
          /\ watched \in C => p[watched] = picked
    BY <2>3
  <2>5. T \in Nat /\ T >= 1
    BY <1>1, <1>2, <2>2, TotalPositive
  <2> HIDE DEF T
  <2> DEFINE q == [p EXCEPT ![c] = @ + 1]
  <2>6. Turn(rr, w, C, c, rr')
    BY <1>2, <1>5, <2>2
  <2>7. \A b \in C : 0 - T < rr[b] /\ rr[b] = selects * w[b] - T * p[b]
    BY <1>8, <2>3, <2>4
  <2>8. /\ SumFunctionOnSet(rr', C) = 0
        /\ \A b \in C : 0 - T < rr'[b]
        /\ \A b \in C : rr'[b] = (selects + 1) * w[b] - T * q[b]
    BY <1>3, <2>2, <2>3, <2>4, <2>5, <2>6, <2>7, TurnAccounted, SMTT(60)
  <2>9. q \in [C -> Nat] /\ (watched \in C => q[watched] = picked')
    BY <1>5, <2>1, <2>4, SMTT(60)
  <2>10. \A b \in C : rr'[b] = selects' * Weight(b) - T * q[b]
    BY <1>8, <2>1, <2>8
  <2> HIDE DEF q
  <2>. QED BY <2>2, <2>8, <2>9, <2>10
<1>. QED BY <1>10, <1>11, <1>12, <1>13 DEF RouterInv

LEMMA RouterStepInv == RouterInv /\ [RouterNext]_routerVars => RouterInv'
<1> SUFFICES ASSUME RouterInv, [RouterNext]_routerVars PROVE RouterInv'
  OBVIOUS
<1>1. ASSUME NEW load \in [Backends -> 0 .. MaxLoad], Select(load) PROVE RouterInv'
  BY <1>1, SelectInv
<1>2. CASE Replace
  BY <1>2, ReplaceInv
<1>3. CASE MarkRouteUnavailable
  BY <1>3, MarkReadyUnavailableInv
<1>4. CASE UNCHANGED routerVars
  <2>1. Types' /\ ScoresBalanced(rr')
    BY <1>4 DEF routerVars, RouterInv, Types
  <2>2. ReadyBackends' = ReadyBackends /\ Weighted' = Weighted
        /\ Total(ReadyBackends)' = Total(ReadyBackends)
        /\ (\A b : Weight(b)' = Weight(b)) /\ Weight(watched)' = Weight(watched)
    BY <1>4 DEF routerVars, ReadyBackends, Weighted, Weight, Total
  <2>3. Waiting'
    BY <1>4, <2>2 DEF routerVars, RouterInv, Waiting, ScoreBound, MaxWeight
  <2>4. /\ rr' = rr /\ selects' = selects /\ picked' = picked /\ watched' = watched
        /\ fresh' = fresh
    BY <1>4 DEF routerVars
  <2>5. Accounted'
    BY <2>2, <2>4 DEF RouterInv, Accounted
  <2>. QED BY <2>1, <2>3, <2>5 DEF RouterInv
<1>. QED BY <1>1, <1>2, <1>3, <1>4 DEF RouterNext

LEMMA RouterInvAlways == RouterSpec => []RouterInv
BY RouterInitInv, RouterStepInv, PTL DEF RouterSpec

-----------------------------------------------------------------------------
(* However often a prefix is published anew, with weights, states and       *)
(* members changed while MemoryRegistry keeps, prunes and picks up scores,  *)
(* and whichever candidates share a turn, no score is 2(n-1) times the      *)
(* largest weight away from 0.                                              *)
THEOREM ScoresStayBounded == RouterSpec => []ScoresBounded
<1>1. RouterInv => ScoresBounded
  <2> SUFFICES ASSUME RouterInv, NEW b \in Backends
               PROVE  rr[b] < ScoreBound /\ 0 - rr[b] < ScoreBound
    BY DEF ScoresBounded
  <2>1. rr \in [Backends -> Int] /\ ScoresBalanced(rr)
    BY DEF RouterInv, Types
  <2>. QED BY <2>1, ScoreInBounds
<1>. QED BY <1>1, RouterInvAlways, PTL

(* selectBackendLocked starves no ready backend: one of weight w whose      *)
(* entry stays as it is is passed over for fewer than 4(n-1)W/w turns, W    *)
(* being the largest weight that can be published.                          *)
THEOREM NobodyStarves == RouterSpec => []NoStarvation
<1>1. RouterInv => NoStarvation
  <2> SUFFICES ASSUME RouterInv, watched \in ReadyBackends
               PROVE  skipped * Weight(watched) < 2 * ScoreBound
    BY DEF NoStarvation
  <2>1. rr \in [Backends -> Int] /\ ScoresBalanced(rr) /\ watched \in Backends /\ skipped \in Nat
    BY DEF RouterInv, Types
  <2>2. Weight(watched) \in Nat
    BY ReadyType, WeightType, SMTT(60) DEF RouterInv
  <2>3. rr[watched] < ScoreBound /\ ScoreBound \in Int /\ rr[watched] \in Int
    BY <2>1, ScoreInBounds
  <2>4. skipped * Weight(watched) < rr[watched] + ScoreBound
    BY DEF RouterInv, Waiting
  <2>5. skipped * Weight(watched) \in Int
    BY <2>1, <2>2, SMTT(60)
  <2>. QED BY <2>3, <2>4, <2>5, SMTT(60)
<1>. QED BY <1>1, RouterInvAlways, PTL

(* weightedBackendLocked is exact: from scores of 0, as many selections as  *)
(* the weights of the ready backends add up to give each exactly its        *)
(* weight, and leave scores of 0.                                           *)
THEOREM SharesAreExact == RouterSpec => []ExactShare
<1>1. RouterInv => ExactShare
  <2> DEFINE C == ReadyBackends
             T == Total(ReadyBackends)
             w == [b \in C |-> Weight(b)]
  <2> SUFFICES ASSUME RouterInv, fresh, Weighted, Cardinality(C) > 1, selects = T, selects < MaxSelects
               PROVE  /\ \A b \in C : rr[b] = 0
                      /\ watched \in C => picked = Weight(watched)
    BY DEF ExactShare
  <2>1. Types /\ Accounted
    BY DEF RouterInv
  <2>2. C \in SUBSET Backends /\ IsFiniteSet(C) /\ \A b \in C : w[b] \in Nat /\ w[b] = Weight(b)
    BY <2>1, ReadyType, SizeType, WeightType, SMTT(60)
  <2>3. C # {}
    BY FS_EmptySet, SMTT(60)
  <2>4. T \in Nat /\ T >= 1
    BY <2>1, <2>3, TotalPositive
  <2>5. /\ SumFunctionOnSet(rr, C) = 0
        /\ \A b \in C : 0 - T < rr[b]
        /\ \E p \in [C -> Nat] :
             /\ \A b \in C : rr[b] = selects * Weight(b) - T * p[b]
             /\ watched \in C => p[watched] = picked
    BY <2>1 DEF Accounted
  <2>6. PICK p \in [C -> Nat] :
          /\ \A b \in C : rr[b] = selects * Weight(b) - T * p[b]
          /\ watched \in C => p[watched] = picked
    BY <2>5
  <2> HIDE DEF C, T, w
  <2>7. \A b \in C : rr[b] \in Int /\ w[b] \in Nat /\ p[b] \in Nat
    BY <2>1, <2>2, <2>6 DEF Types
  <2>8. \A b \in C : rr[b] = T * w[b] - T * p[b] /\ rr[b] = T * (w[b] - p[b])
    BY <2>2, <2>4, <2>6, <2>7, SMTT(60)
  <2>9. \A b \in C : rr[b] \in Int /\ 0 - T < rr[b] /\ \E d \in Int : rr[b] = T * d
    BY <2>5, <2>7, <2>8, SMTT(60)
  <2>10. \A b \in C : rr[b] = 0
    BY <2>2, <2>4, <2>5, <2>9, AccountCloses
  <2>11. ASSUME NEW b \in C PROVE p[b] = w[b]
    <3> DEFINE d == w[b] - p[b]
    <3>1. d \in Int /\ T * d = 0
      BY <2>7, <2>8, <2>10, SMTT(60)
    <3> HIDE DEF d
    <3>2. d = 0
      BY <2>4, <3>1, SMTT(60)
    <3>. QED BY <2>7, <3>2, SMTT(60) DEF d
  <2>. QED BY <2>2, <2>6, <2>10, <2>11
<1>. QED BY <1>1, RouterInvAlways, PTL

-----------------------------------------------------------------------------
(* The token bucket.                                                       *)

Buckets == [rpm : Nat, capacity : Nat, tokens : Int, last : Nat]
Held == [busy : BOOLEAN, at : Nat, rpm : Nat, burst : Nat]

LimiterTypeOK ==
  /\ clock \in Nat
  /\ policy \in Policies
  /\ bucket \in Buckets
  /\ client \in [Clients -> Held]
  /\ \A c \in Clients : client[c].busy => client[c].rpm > 0
  /\ admitted \in Seq(Nat)
  /\ promise \in Int
  /\ reading \in Nat

(* The balance of the bucket since the i-th admission. *)
Balanced ==
  \A i \in 1 .. Len(admitted) :
    (Len(admitted) - i + 1) * Token + bucket.tokens
      <= bucket.capacity + (bucket.last - admitted[i]) * bucket.rpm

(* A bucket that has refused somebody earns a whole token by the promised   *)
(* time, and can hold one.                                                  *)
PromiseEarned ==
  promise >= 0 =>
    /\ bucket.capacity >= Token
    /\ bucket.tokens + (promise - bucket.last) * bucket.rpm >= Token

LimiterInv == LimiterTypeOK /\ Balanced /\ WithinRate /\ PromiseEarned

-----------------------------------------------------------------------------
(* Arithmetic.                                                              *)

LEMMA TokenPositive == Token \in Nat /\ Token > 0
BY SMTT(60) DEF Token

LEMMA MinPair ==
  ASSUME NEW a \in Int, NEW b \in Int
  PROVE  Min({a, b}) \in Int /\ Min({a, b}) = IF a <= b THEN a ELSE b
<1>1. \E x \in {a, b} : \A y \in {a, b} : x <= y
  BY SMTT(60)
<1>2. /\ Min({a, b}) \in {a, b}
      /\ \A y \in {a, b} : Min({a, b}) <= y
  BY <1>1 DEF Min
<1>. QED BY <1>2, SMTT(60)

LEMMA MaxPair ==
  ASSUME NEW a \in Int, NEW b \in Int
  PROVE  Max({a, b}) \in Int /\ Max({a, b}) >= a /\ Max({a, b}) >= b
<1>1. \E x \in {a, b} : \A y \in {a, b} : x >= y
  BY SMTT(60)
<1>2. /\ Max({a, b}) \in {a, b}
      /\ \A y \in {a, b} : Max({a, b}) >= y
  BY <1>1 DEF Max
<1>. QED BY <1>2

LEMMA WholeTokens ==
  ASSUME NEW n \in Int
  PROVE  n * Token \in Int /\ (n + 1) * Token = n * Token + Token
BY SMTT(60) DEF Token

LEMMA EarnedGrows ==
  ASSUME NEW a \in Int, NEW b \in Int, NEW r \in Nat, a <= b
  PROVE  a * r <= b * r
<1>1. (b - a) * r >= 0
  BY SMTT(60)
<1>2. (b - a) * r = b * r - a * r
  BY SMTT(60)
<1>3. a * r \in Int /\ b * r \in Int
  BY SMTT(60)
<1>. QED BY <1>1, <1>2, <1>3, SMTT(60)

LEMMA Covered ==
  ASSUME NEW a \in Int, NEW b \in Nat, b > 0
  PROVE  CeilDiv(a, b) \in Int /\ CeilDiv(a, b) * b >= a
<1> DEFINE q == (a + b - 1) \div b
<1>1. q \in Int /\ (a + b - 1) = b * q + ((a + b - 1) % b)
  BY SMTT(60)
<1>2. (a + b - 1) % b \in 0 .. b - 1
  BY SMTT(60)
<1>3. b * q \in Int /\ q * b = b * q
  BY <1>1, SMTT(60)
<1>4. b * q >= a
  BY <1>1, <1>2, <1>3, SMTT(60)
<1>. QED BY <1>1, <1>3, <1>4 DEF CeilDiv

(* Retry-After covers what is missing of a token.                           *)
LEMMA RetryAfterCovers ==
  ASSUME NEW b \in Buckets, b.rpm > 0
  PROVE  RetryAfter(b) \in Int /\ b.tokens + RetryAfter(b) * b.rpm >= Token
<1>1. b.rpm \in Nat /\ b.tokens \in Int /\ Token - b.tokens \in Int
  BY TokenPositive, SMTT(60) DEF Buckets
<1> DEFINE q == CeilDiv(Token - b.tokens, b.rpm)
<1>2. q \in Int /\ q * b.rpm >= Token - b.tokens
  BY <1>1, Covered
<1> HIDE DEF q
<1>3. Max({1, q}) \in Int /\ Max({1, q}) >= q
  BY <1>2, MaxPair, SMTT(60)
<1>4. q * b.rpm <= Max({1, q}) * b.rpm
  BY <1>1, <1>2, <1>3, EarnedGrows
<1>5. q * b.rpm \in Int /\ Max({1, q}) * b.rpm \in Int
  BY <1>1, <1>2, <1>3, SMTT(60)
<1>6. RetryAfter(b) = Max({1, q})
  BY DEF RetryAfter, q
<1>. QED BY <1>1, <1>2, <1>3, <1>4, <1>5, <1>6, TokenPositive, SMTT(60)

-----------------------------------------------------------------------------
(* The bucket a request finds and refills.                                  *)

LEMMA CapacityHoldsToken ==
  ASSUME NEW p \in Held, p.rpm > 0
  PROVE  Capacity(p) \in Nat /\ Capacity(p) >= Token
<1>1. Burst(p) \in Nat /\ Burst(p) >= 1
  BY SMTT(60) DEF Burst, Held
<1>. QED BY <1>1, SMTT(60) DEF Capacity, Token

LEMMA FoundType ==
  ASSUME bucket \in Buckets, NEW p \in Held, p.rpm > 0
  PROVE  /\ Found(p) \in Buckets
         /\ Found(p).rpm = p.rpm
         /\ Found(p).capacity >= Token
         /\ Found(p) # bucket => Found(p).tokens = Found(p).capacity /\ Found(p).last = p.at
<1>1. Capacity(p) \in Nat /\ Capacity(p) >= Token
  BY CapacityHoldsToken
<1>2. p.rpm \in Nat /\ p.at \in Nat
  BY DEF Held
<1>3. CASE bucket.rpm = p.rpm /\ bucket.capacity = Capacity(p)
  BY <1>1, <1>3 DEF Found
<1>4. CASE ~(bucket.rpm = p.rpm /\ bucket.capacity = Capacity(p))
  BY <1>1, <1>2, <1>4, SMTT(60) DEF Found, Buckets
<1>. QED BY <1>3, <1>4

LEMMA RefilledType ==
  ASSUME NEW b \in Buckets, NEW at \in Nat
  PROVE  /\ Refilled(b, at) \in Buckets
         /\ Refilled(b, at).rpm = b.rpm
         /\ Refilled(b, at).capacity = b.capacity
         /\ Refilled(b, at).last = at
         /\ (at - b.last) * b.rpm \in Int
         /\ Refilled(b, at).tokens =
              IF b.capacity <= b.tokens + (at - b.last) * b.rpm
                THEN b.capacity ELSE b.tokens + (at - b.last) * b.rpm
<1>1. b.rpm \in Nat /\ b.capacity \in Nat /\ b.tokens \in Int /\ b.last \in Nat
  BY DEF Buckets
<1>2. (at - b.last) * b.rpm \in Int
  BY <1>1, SMTT(60)
<1> DEFINE e == (at - b.last) * b.rpm
<1> HIDE DEF e
<1>3. e \in Int
  BY <1>2 DEF e
<1>4. /\ Min({b.capacity, b.tokens + e}) \in Int
      /\ Min({b.capacity, b.tokens + e})
           = IF b.capacity <= b.tokens + e THEN b.capacity ELSE b.tokens + e
  BY <1>1, <1>3, MinPair, SMTT(60)
<1>5. Refilled(b, at) = [b EXCEPT !.tokens = Min({b.capacity, b.tokens + e}), !.last = at]
  BY DEF Refilled, e
<1>6. /\ Refilled(b, at) \in Buckets
      /\ Refilled(b, at).rpm = b.rpm
      /\ Refilled(b, at).capacity = b.capacity
      /\ Refilled(b, at).last = at
      /\ Refilled(b, at).tokens = Min({b.capacity, b.tokens + e})
  BY <1>1, <1>4, <1>5 DEF Buckets
<1>. QED BY <1>2, <1>4, <1>6 DEF e

-----------------------------------------------------------------------------
(* The critical section of allow, on the history of the bucket it uses.     *)

History(p) == IF Found(p) = bucket THEN admitted ELSE <<>>

LEMMA HistoryBalanced ==
  ASSUME LimiterInv, NEW p \in Held, p.rpm > 0
  PROVE  LET b == Refilled(Found(p), p.at)
             h == History(p)
         IN  /\ h \in Seq(Nat)
             /\ \A i \in 1 .. Len(h) :
                  (Len(h) - i + 1) * Token + b.tokens <= b.capacity + (p.at - h[i]) * b.rpm
             /\ \A i, j \in 1 .. Len(h) :
                  i <= j => (j - i + 1) * Token <= b.capacity + (h[j] - h[i]) * b.rpm
<1> DEFINE b == Refilled(Found(p), p.at)
           h == History(p)
<1>1. CASE Found(p) # bucket
  BY <1>1, SMTT(60) DEF History
<1>2. CASE Found(p) = bucket
  <2>1. h = admitted /\ h \in Seq(Nat)
    BY <1>2 DEF History, LimiterInv, LimiterTypeOK
  <2>2. bucket \in Buckets /\ p.at \in Nat
    BY DEF LimiterInv, LimiterTypeOK, Held
  <2>3. /\ b.rpm = bucket.rpm /\ b.capacity = bucket.capacity
        /\ b.tokens \in Int
        /\ b.tokens <= bucket.tokens + (p.at - bucket.last) * bucket.rpm
    <3>1. b = Refilled(bucket, p.at)
      BY <1>2
    <3> HIDE DEF b
    <3>2. /\ b \in Buckets /\ b.rpm = bucket.rpm /\ b.capacity = bucket.capacity
          /\ (p.at - bucket.last) * bucket.rpm \in Int
          /\ b.tokens = IF bucket.capacity <= bucket.tokens + (p.at - bucket.last) * bucket.rpm
                         THEN bucket.capacity
                         ELSE bucket.tokens + (p.at - bucket.last) * bucket.rpm
      BY <2>2, <3>1, RefilledType
    <3>. QED BY <2>2, <3>2, SMTT(60) DEF Buckets
  <2>4. bucket.rpm \in Nat /\ bucket.capacity \in Nat /\ bucket.tokens \in Int
        /\ bucket.last \in Nat
    BY <2>2 DEF Buckets
  <2>5. ASSUME NEW i \in 1 .. Len(h)
        PROVE  (Len(h) - i + 1) * Token + b.tokens <= b.capacity + (p.at - h[i]) * b.rpm
    <3> HIDE DEF b, h
    <3> DEFINE n == (Len(h) - i + 1) * Token
               x == h[i]
               y == bucket.last
               z == p.at
               r == bucket.rpm
    <3>1. x \in Int /\ Len(h) - i + 1 \in Int /\ y \in Int /\ z \in Int /\ r \in Int
      BY <2>1, <2>2, <2>4, SMTT(60)
    <3>2. n \in Int
      BY <3>1, WholeTokens
    <3>3. n + bucket.tokens <= bucket.capacity + (y - x) * r
      BY <2>1 DEF LimiterInv, Balanced
    <3>4. b.capacity = bucket.capacity /\ b.rpm = r /\ b.tokens <= bucket.tokens + (z - y) * r
      BY <2>3
    <3> HIDE DEF n, x, y, z, r
    <3>5. /\ (y - x) * r \in Int /\ (z - y) * r \in Int /\ (z - x) * r \in Int
          /\ (z - x) * r = (y - x) * r + (z - y) * r
      BY <3>1, SMTT(60)
    <3> DEFINE xy == (y - x) * r
               yz == (z - y) * r
               xz == (z - x) * r
    <3>6. /\ xy \in Int /\ yz \in Int /\ xz \in Int /\ xz = xy + yz
          /\ n + bucket.tokens <= bucket.capacity + xy
          /\ b.tokens <= bucket.tokens + yz
      BY <3>3, <3>4, <3>5
    <3> HIDE DEF xy, yz, xz
    <3>7. n + b.tokens <= b.capacity + xz
      <4>1. /\ b.tokens \in Int /\ bucket.capacity \in Int /\ bucket.tokens \in Int
            /\ b.capacity = bucket.capacity
        BY <2>3, <2>4, SMTT(60)
      <4>. QED BY <3>2, <3>6, <4>1, SMTT(60)
    <3>. QED BY <3>4, <3>7 DEF n, x, z, xz
  <2>6. \A i, j \in 1 .. Len(h) :
          i <= j => (j - i + 1) * Token <= b.capacity + (h[j] - h[i]) * b.rpm
    <3>1. DOMAIN admitted = 1 .. Len(h)
      BY <2>1, SMTT(60)
    <3> HIDE DEF b, h
    <3>. QED BY <2>1, <2>3, <3>1 DEF LimiterInv, WithinRate
  <2>. QED BY <2>1, <2>5, <2>6
<1>. QED BY <1>1, <1>2

(* An admission takes a token that was there, and is the last of its        *)
(* history.                                                                 *)
LEMMA AdmissionBalanced ==
  ASSUME NEW h \in Seq(Nat), NEW b \in Buckets, b.tokens >= Token, b.tokens <= b.capacity,
         \A i \in 1 .. Len(h) :
           (Len(h) - i + 1) * Token + b.tokens <= b.capacity + (b.last - h[i]) * b.rpm,
         \A i, j \in 1 .. Len(h) :
           i <= j => (j - i + 1) * Token <= b.capacity + (h[j] - h[i]) * b.rpm
  PROVE  LET g == Append(h, b.last)
         IN  /\ g \in Seq(Nat)
             /\ \A i \in 1 .. Len(g) :
                  (Len(g) - i + 1) * Token + (b.tokens - Token)
                    <= b.capacity + (b.last - g[i]) * b.rpm
             /\ \A i, j \in 1 .. Len(g) :
                  i <= j => (j - i + 1) * Token <= b.capacity + (g[j] - g[i]) * b.rpm
<1> DEFINE g == Append(h, b.last)
<1>1. /\ b.last \in Nat /\ b.tokens \in Int /\ b.capacity \in Nat /\ b.rpm \in Nat
      /\ Len(h) \in Nat
  BY SMTT(60) DEF Buckets
<1>2. /\ g \in Seq(Nat) /\ Len(g) = Len(h) + 1 /\ g[Len(h) + 1] = b.last
      /\ \A i \in 1 .. Len(h) : g[i] = h[i] /\ h[i] \in Nat
  BY <1>1, SMTT(60)
<1> HIDE DEF g
<1>3. ASSUME NEW i \in 1 .. Len(g)
      PROVE  (Len(g) - i + 1) * Token + (b.tokens - Token)
               <= b.capacity + (b.last - g[i]) * b.rpm
  <2>1. CASE i = Len(h) + 1
    <3>1. (b.last - g[i]) * b.rpm = 0
      BY <1>1, <1>2, <2>1, SMTT(60)
    <3>2. (Len(g) - i + 1) * Token = Token
      BY <1>1, <1>2, <2>1, TokenPositive, SMTT(60)
    <3>. QED BY <1>1, <3>1, <3>2, TokenPositive, SMTT(60)
  <2>2. CASE i \in 1 .. Len(h)
    <3> DEFINE n == Len(h) - i + 1
               e == (b.last - g[i]) * b.rpm
    <3>1. n \in Int /\ Len(g) - i + 1 = n + 1
      BY <1>1, <1>2, SMTT(60)
    <3>2. n * Token + b.tokens <= b.capacity + e
      BY <1>2, <2>2
    <3>3. e \in Int
      <4>1. g[i] \in Nat
        BY <1>2, <2>2
      <4>. QED BY <1>1, <4>1, SMTT(60)
    <3> HIDE DEF n, e
    <3>4. (n + 1) * Token + (b.tokens - Token) <= b.capacity + e
      BY <1>1, <3>1, <3>2, <3>3, WholeTokens, TokenPositive, SMTT(60)
    <3>. QED BY <3>1, <3>4 DEF e
  <2>. QED BY <1>1, <1>2, <2>1, <2>2, SMTT(60)
<1>4. ASSUME NEW i \in 1 .. Len(g), NEW j \in 1 .. Len(g), i <= j
      PROVE  (j - i + 1) * Token <= b.capacity + (g[j] - g[i]) * b.rpm
  <2>1. CASE j \in 1 .. Len(h)
    <3>1. i \in 1 .. Len(h)
      BY <1>1, <1>4, <2>1, SMTT(60)
    <3>. QED BY <1>2, <1>4, <2>1, <3>1
  <2>2. CASE j = Len(h) + 1
    <3> DEFINE n == (j - i + 1) * Token
               e == (g[j] - g[i]) * b.rpm
    <3>1. g[j] = b.last /\ Len(g) = j /\ g[i] \in Nat
      BY <1>2, <2>2, SMTT(60)
    <3>2. n + (b.tokens - Token) <= b.capacity + e
      BY <1>3, <3>1
    <3>3. j - i + 1 \in Int
      BY <1>1, <1>2, SMTT(60)
    <3>4. n \in Int
      BY <3>3, WholeTokens
    <3>5. e \in Int
      BY <1>1, <3>1, SMTT(60)
    <3> HIDE DEF n, e
    <3>6. n <= b.capacity + e
      BY <1>1, <3>2, <3>4, <3>5, TokenPositive, SMTT(60)
    <3>. QED BY <3>6 DEF n, e
  <2>. QED BY <1>1, <1>2, <2>1, <2>2, SMTT(60)
<1>5. g \in Seq(Nat)
  BY <1>2
<1>. QED BY <1>3, <1>4, <1>5 DEF g

LEMMA AllowInv ==
  ASSUME LimiterInv, NEW c \in Clients, Allow(c)
  PROVE  LimiterInv'
<1> DEFINE me == client[c]
           b == Refilled(Found(me), me.at)
           h == History(me)
<1>1. me \in Held /\ me.rpm > 0 /\ me.at \in Nat
  BY DEF LimiterInv, LimiterTypeOK, Allow, Held
<1>2. /\ Found(me) \in Buckets /\ Found(me).rpm = me.rpm /\ Found(me).capacity >= Token
  BY <1>1, FoundType DEF LimiterInv, LimiterTypeOK
<1>3. /\ b \in Buckets /\ b.last = me.at /\ b.rpm > 0
      /\ b.capacity >= Token /\ b.tokens <= b.capacity
  <2>1. /\ b \in Buckets /\ b.rpm = Found(me).rpm /\ b.capacity = Found(me).capacity
        /\ b.last = me.at
        /\ (me.at - Found(me).last) * Found(me).rpm \in Int
        /\ b.tokens =
             IF Found(me).capacity <= Found(me).tokens + (me.at - Found(me).last) * Found(me).rpm
               THEN Found(me).capacity
               ELSE Found(me).tokens + (me.at - Found(me).last) * Found(me).rpm
    BY <1>1, <1>2, RefilledType
  <2> HIDE DEF b, me
  <2>. QED BY <1>1, <1>2, <2>1, SMTT(60) DEF Buckets
<1>4. /\ h \in Seq(Nat)
      /\ \A i \in 1 .. Len(h) :
           (Len(h) - i + 1) * Token + b.tokens <= b.capacity + (b.last - h[i]) * b.rpm
      /\ \A i, j \in 1 .. Len(h) :
           i <= j => (j - i + 1) * Token <= b.capacity + (h[j] - h[i]) * b.rpm
  <2>1. /\ h \in Seq(Nat)
        /\ \A i \in 1 .. Len(h) :
             (Len(h) - i + 1) * Token + b.tokens <= b.capacity + (me.at - h[i]) * b.rpm
        /\ \A i, j \in 1 .. Len(h) :
             i <= j => (j - i + 1) * Token <= b.capacity + (h[j] - h[i]) * b.rpm
    BY <1>1, HistoryBalanced
  <2> HIDE DEF b, h, me
  <2>. QED BY <2>1, <1>3
<1>5. /\ clock' \in Nat /\ policy' \in Policies /\ reading' \in Nat
      /\ client' \in [Clients -> Held]
      /\ \A d \in Clients : client'[d].busy => client'[d].rpm > 0
  <2>1. clock' \in Nat /\ policy' \in Policies /\ reading' \in Nat
    BY <1>1 DEF LimiterInv, LimiterTypeOK, Allow
  <2>2. client' = [client EXCEPT ![c] = Idle]
    BY DEF Allow
  <2>3. Idle \in Held /\ ~Idle.busy
    BY DEF Idle, Held
  <2>4. client \in [Clients -> Held]
    BY DEF LimiterInv, LimiterTypeOK
  <2>5. client' \in [Clients -> Held]
    BY <2>2, <2>3, <2>4
  <2>6. ASSUME NEW d \in Clients, client'[d].busy PROVE client'[d].rpm > 0
    <3>1. d # c
      BY <2>2, <2>3, <2>4, <2>6
    <3>2. client'[d] = client[d]
      BY <2>2, <2>4, <3>1
    <3>. QED BY <2>6, <3>2 DEF LimiterInv, LimiterTypeOK
  <2>. QED BY <2>1, <2>5, <2>6
<1>6. CASE b.tokens >= Token
  <2>1. /\ bucket' = [b EXCEPT !.tokens = @ - Token]
        /\ admitted' = Append(h, b.last)
        /\ promise' = -1
    BY <1>3, <1>6 DEF Allow, History
  <2> HIDE DEF b, h, me
  <2>2. /\ bucket' \in Buckets
        /\ bucket'.tokens = b.tokens - Token /\ bucket'.last = b.last
        /\ bucket'.capacity = b.capacity /\ bucket'.rpm = b.rpm
    BY <1>3, <2>1, TokenPositive, SMTT(60) DEF Buckets
  <2>3. /\ admitted' \in Seq(Nat)
        /\ \A i \in 1 .. Len(admitted') :
             (Len(admitted') - i + 1) * Token + (b.tokens - Token)
               <= b.capacity + (b.last - admitted'[i]) * b.rpm
        /\ \A i, j \in 1 .. Len(admitted') :
             i <= j =>
               (j - i + 1) * Token <= b.capacity + (admitted'[j] - admitted'[i]) * b.rpm
    BY <1>3, <1>4, <1>6, <2>1, AdmissionBalanced
  <2>4. DOMAIN admitted' = 1 .. Len(admitted')
    BY <2>3, SMTT(60)
  <2>5. LimiterTypeOK'
    BY <1>5, <2>1, <2>2, <2>3, SMTT(60) DEF LimiterTypeOK
  <2>6. Balanced' /\ WithinRate'
    BY <2>2, <2>3, <2>4 DEF Balanced, WithinRate
  <2>7. PromiseEarned'
    BY <2>1, SMTT(60) DEF PromiseEarned
  <2>. QED BY <2>5, <2>6, <2>7 DEF LimiterInv
<1>7. CASE ~(b.tokens >= Token)
  <2>1. bucket' = b /\ admitted' = h /\ promise' = me.at + RetryAfter(b)
    BY <1>7 DEF Allow, History
  <2> HIDE DEF b, h, me
  <2>2. RetryAfter(b) \in Int /\ b.tokens + RetryAfter(b) * b.rpm >= Token
    BY <1>3, RetryAfterCovers
  <2>3. DOMAIN admitted' = 1 .. Len(admitted')
    BY <1>4, <2>1, SMTT(60)
  <2>4. LimiterTypeOK'
    BY <1>1, <1>3, <1>4, <1>5, <2>1, <2>2, SMTT(60) DEF LimiterTypeOK
  <2>5. Balanced' /\ WithinRate'
    BY <1>4, <2>1, <2>3 DEF Balanced, WithinRate
  <2>6. PromiseEarned'
    <3>1. promise' - bucket'.last = RetryAfter(b)
      BY <1>1, <1>3, <2>1, <2>2, SMTT(60)
    <3>. QED BY <1>3, <2>1, <2>2, <3>1 DEF PromiseEarned
  <2>. QED BY <2>4, <2>5, <2>6 DEF LimiterInv
<1>. QED BY <1>6, <1>7

LEMMA ReadClockInv ==
  ASSUME LimiterInv, NEW c \in Clients, ReadClock(c)
  PROVE  LimiterInv'
<1> DEFINE p == [busy |-> TRUE, at |-> clock, rpm |-> policy.rpm, burst |-> policy.burst]
<1>1. policy.rpm \in Nat \ {0} /\ policy.burst \in Nat /\ clock \in Nat
  BY LimiterAssumption DEF LimiterInv, LimiterTypeOK
<1>2. p \in Held /\ p.rpm > 0
  BY <1>1, SMTT(60) DEF Held
<1>3. client' = [client EXCEPT ![c] = p] /\ client \in [Clients -> Held]
  BY DEF ReadClock, LimiterInv, LimiterTypeOK
<1> HIDE DEF p
<1>4. client' \in [Clients -> Held]
  BY <1>2, <1>3
<1>5. ASSUME NEW d \in Clients, client'[d].busy PROVE client'[d].rpm > 0
  BY <1>2, <1>3, <1>5 DEF LimiterInv, LimiterTypeOK
<1>6. UNCHANGED <<clock, policy, bucket, admitted, promise, reading>>
  BY DEF ReadClock
<1>7. LimiterTypeOK'
  BY <1>4, <1>5, <1>6 DEF LimiterInv, LimiterTypeOK
<1>. QED BY <1>6, <1>7 DEF LimiterInv, Balanced, WithinRate, PromiseEarned

LEMMA LimiterInitInv == LimiterInit => LimiterInv
<1> SUFFICES ASSUME LimiterInit PROVE LimiterInv
  OBVIOUS
<1>1. Idle \in Held /\ ~Idle.busy /\ NoBucket \in Buckets
  BY SMTT(60) DEF Idle, Held, NoBucket, Buckets
<1>2. LimiterTypeOK
  BY <1>1, SMTT(60) DEF LimiterInit, LimiterTypeOK
<1>. QED BY <1>2, SMTT(60) DEF LimiterInit, LimiterInv, Balanced, WithinRate, PromiseEarned

LEMMA LimiterNextInv == LimiterInv /\ [LimiterNext]_limiterVars => LimiterInv'
<1> SUFFICES ASSUME LimiterInv, [LimiterNext]_limiterVars PROVE LimiterInv'
  OBVIOUS
<1>1. CASE ClockTicks
  <2>1. UNCHANGED <<policy, bucket, client, admitted, promise, reading>> /\ clock' \in Nat
    BY <1>1, SMTT(60) DEF ClockTicks, LimiterInv, LimiterTypeOK
  <2>. QED BY <2>1 DEF LimiterInv, LimiterTypeOK, Balanced, WithinRate, PromiseEarned
<1>2. CASE PolicyChanges
  <2>1. UNCHANGED <<clock, bucket, client, admitted, promise, reading>> /\ policy' \in Policies
    BY <1>2 DEF PolicyChanges
  <2>. QED BY <2>1 DEF LimiterInv, LimiterTypeOK, Balanced, WithinRate, PromiseEarned
<1>3. CASE \E c \in Clients : ReadClock(c) \/ Allow(c)
  BY <1>3, ReadClockInv, AllowInv
<1>4. CASE UNCHANGED limiterVars
  BY <1>4 DEF limiterVars, LimiterInv, LimiterTypeOK, Balanced, WithinRate, PromiseEarned
<1>. QED BY <1>1, <1>2, <1>3, <1>4 DEF LimiterNext

LEMMA LimiterInvAlways == LimiterSpec => []LimiterInv
BY LimiterInitInv, LimiterNextInv, PTL DEF LimiterSpec

-----------------------------------------------------------------------------
(* For every policy and every interleaving of clock readings and lock       *)
(* acquisitions: between any two admissions of one bucket there are at most *)
(* the burst and what the rate earns between their clock readings.          *)
THEOREM RateRespected == LimiterSpec => []WithinRate
<1>1. LimiterInv => WithinRate BY DEF LimiterInv
<1>. QED BY <1>1, LimiterInvAlways, PTL

(* A refusal leaves a bucket that holds a token again at the promised time, *)
(* so a request that reads the clock then or later is refused by no one.    *)
LEMMA RefusedIsEarly ==
  ASSUME LimiterInv, NEW c \in Clients, Allow(c), verdict' = "refused", promise >= 0
  PROVE  reading' < promise
<1> DEFINE me == client[c]
           b == Refilled(Found(me), me.at)
<1>1. me \in Held /\ me.rpm > 0 /\ me.at \in Nat /\ promise \in Int /\ bucket \in Buckets
  BY DEF LimiterInv, LimiterTypeOK, Allow, Held
<1>2. /\ Found(me) \in Buckets /\ Found(me).capacity >= Token
      /\ Found(me) # bucket =>
           Found(me).tokens = Found(me).capacity /\ Found(me).last = me.at
  BY <1>1, FoundType
<1>3. /\ (me.at - Found(me).last) * Found(me).rpm \in Int
      /\ b.tokens =
           IF Found(me).capacity <= Found(me).tokens + (me.at - Found(me).last) * Found(me).rpm
             THEN Found(me).capacity
             ELSE Found(me).tokens + (me.at - Found(me).last) * Found(me).rpm
  BY <1>1, <1>2, RefilledType
<1>4. reading' = me.at /\ ~(b.tokens >= Token)
  BY DEF Allow
<1> HIDE DEF b, me
<1>5. Found(me).tokens + (me.at - Found(me).last) * Found(me).rpm < Token
  BY <1>2, <1>3, <1>4, TokenPositive, SMTT(60) DEF Buckets
<1>6. Found(me) = bucket
  <2> SUFFICES ASSUME Found(me) # bucket PROVE FALSE
    OBVIOUS
  <2>1. (me.at - Found(me).last) * Found(me).rpm = 0
    BY <1>1, <1>2, SMTT(60) DEF Buckets
  <2>. QED BY <1>2, <1>5, <2>1, TokenPositive, SMTT(60) DEF Buckets
<1>7. bucket.tokens + (promise - bucket.last) * bucket.rpm >= Token
  BY DEF LimiterInv, PromiseEarned
<1>8. SUFFICES ASSUME promise <= me.at PROVE FALSE
  BY <1>1, <1>4, SMTT(60)
<1>9. bucket.rpm \in Nat /\ bucket.last \in Nat /\ bucket.tokens \in Int
  BY <1>1 DEF Buckets
<1>10. (promise - bucket.last) * bucket.rpm <= (me.at - bucket.last) * bucket.rpm
  BY <1>1, <1>8, <1>9, EarnedGrows, SMTT(60)
<1>11. (promise - bucket.last) * bucket.rpm \in Int /\ (me.at - bucket.last) * bucket.rpm \in Int
  BY <1>1, <1>9, SMTT(60)
<1>. QED BY <1>5, <1>6, <1>7, <1>9, <1>10, <1>11, TokenPositive, SMTT(60)

(* Retry-After is the truth, for every policy and every order in which the  *)
(* lock is taken: after a refusal nobody who reads the clock at the         *)
(* promised time or later is refused, until somebody has been admitted.     *)
THEOREM RetryAfterKept == LimiterSpec => RetryKept
<1>1. LimiterInv /\ [LimiterNext]_limiterVars =>
        [verdict' = "refused" /\ promise >= 0 /\ reading' # reading
           => reading' < promise]_<<bucket, verdict, reading, promise>>
  <2> SUFFICES ASSUME LimiterInv, [LimiterNext]_limiterVars,
                      verdict' = "refused", promise >= 0, reading' # reading
               PROVE  reading' < promise
    OBVIOUS
  <2>1. \E c \in Clients : Allow(c)
    BY DEF LimiterNext, ClockTicks, PolicyChanges, ReadClock, limiterVars
  <2>. QED BY <2>1, RefusedIsEarly
<1>. QED BY <1>1, LimiterInvAlways, PTL DEF LimiterSpec, RetryKept

-----------------------------------------------------------------------------
(* The discovery loop.                                                     *)

(* A model that serves has not been unfit for any time; a list that shows   *)
(* it serving was read in this Sync; a snapshot that shows it ready was     *)
(* read within one timeout of its publication, and it is closed by the      *)
(* first failing Sync that ends three intervals later.                      *)
Inv ==
  /\ TypeOK
  /\ Serving(dep) => left = 0
  /\ stage \in {"services", "slices"} /\ Serving(listed) => left <= spent
  /\ stage = "sleep" => spent = 0
  /\ reg = "ready" =>
       /\ synced
       /\ left <= age + SyncTimeout
       /\ stage = "sleep" => age + wait < 4 * Interval
       /\ stage # "sleep" => age < 4 * Interval + spent

USE DiscoveryAssumption

-----------------------------------------------------------------------------
(* The operators of the loop.                                               *)

(* The next delay of Run is never below the base and never above the        *)
(* interval.                                                                *)
LEMMA RetryBounded ==
  ASSUME NEW d \in RetryBase .. Interval
  PROVE  Min({2 * d, Interval}) \in RetryBase .. Interval
<1>1. 2 * d \in Int /\ Interval \in Int
  BY SMTT(60)
<1>. QED BY <1>1, MinPair, SMTT(60)

LEMMA CappedAge ==
  ASSUME NEW n \in 0 .. AgeBound
  PROVE  /\ Capped(n) \in 0 .. AgeBound
         /\ Capped(n) <= n + 1
         /\ n < AgeBound => Capped(n) = n + 1
<1>1. n + 1 \in Int /\ AgeBound \in Int
  BY SMTT(60)
<1>. QED BY <1>1, MinPair, SMTT(60) DEF Capped

(* backendFor publishes "ready" for a deployment that passes its gates and  *)
(* for no other.                                                            *)
LEMMA ReadyIsServing ==
  ASSUME NEW d \in Deployment, NEW s \in Service, NEW e \in BOOLEAN,
         Entry(d, s, e) = "ready"
  PROVE  Serving(d)
<1>1. d.exists BY DEF Entry
<1>2. BackendFor(Fields(d), s.exists, ServiceFields(s), e) = "ready"
  BY <1>1 DEF Entry
<1>3. Fields(d).phase = d.phase /\ Fields(d).active = d.active
  BY DEF Fields
<1>4. d.phase \in Phases /\ d.active \in BOOLEAN
  BY DEF Deployment
<1>5. d.phase = "Active" /\ d.active
  BY <1>2, <1>3, <1>4 DEF BackendFor, Phases
<1>6. DeploymentRoutable(Fields(d))
  BY <1>2, <1>3, <1>5 DEF BackendFor
<1>. QED BY <1>1, <1>5, <1>6 DEF Serving

LEMMA EntryType ==
  ASSUME NEW d \in Deployment, NEW s \in Service, NEW e \in BOOLEAN
  PROVE  Entry(d, s, e) \in BackendStates \cup {"none"}
<1>1. Fields(d).phase = d.phase /\ Fields(d).active = d.active
  BY DEF Fields
<1>2. d.phase \in Phases /\ d.active \in BOOLEAN
  BY DEF Deployment
<1>. QED BY <1>1, <1>2 DEF Entry, BackendFor, Phases, BackendStates

LEMMA EmptyLists ==
  NoDeployment \in Deployment /\ NoService \in Service /\ ~Serving(NoDeployment)
BY SMTT(60) DEF NoDeployment, NoService, Deployment, Service, Phases, Gates, Serving

-----------------------------------------------------------------------------
LEMMA InitInv == Init => Inv
<1> SUFFICES ASSUME Init PROVE Inv
  OBVIOUS
<1>1. 1 \in 1 .. MaxUID
  BY SMTT(60)
<1>2. ASSUME NEW p \in {"Active", "Pending"}
      PROVE  [exists |-> TRUE, uid |-> 1, phase |-> p, active |-> TRUE, gate |-> "Served"]
               \in Deployment
  BY <1>1 DEF Deployment, Phases, Gates
<1>3. [exists |-> TRUE, owner |-> 1, selects |-> TRUE, terminating |-> FALSE] \in Service
  BY <1>1 DEF Service
<1>4. dep \in Deployment /\ svc \in Service /\ endpoints \in BOOLEAN
  BY <1>2, <1>3, EmptyLists DEF Init
<1>5. TypeOK
  <2>1. /\ listed \in Deployment /\ service \in Service /\ synced \in BOOLEAN
        /\ stage \in Stages /\ reg \in BackendStates \cup {"none"}
    BY EmptyLists DEF Init, Stages
  <2>2. /\ spent \in 0 .. SyncTimeout /\ wait \in 0 .. Interval
        /\ retry \in RetryBase .. Interval
        /\ age \in 0 .. AgeBound /\ left \in 0 .. AgeBound
        /\ changes \in 0 .. MaxChanges
    BY SMTT(60) DEF Init
  <2>. QED BY <1>4, <2>1, <2>2 DEF TypeOK
<1>. QED BY <1>5 DEF Init, Inv

(* The steps of Run and Sync.                                               *)
LEMMA StartSyncInv == Inv /\ StartSync => Inv'
BY SMTT(60) DEF Inv, TypeOK, StartSync, cluster, published, Stages, Serving

LEMMA ListDeploymentsInv == Inv /\ ListDeployments => Inv'
BY SMTT(60) DEF Inv, TypeOK, ListDeployments, cluster, published, Stages, Serving

LEMMA ListServicesInv == Inv /\ ListServices => Inv'
BY SMTT(60) DEF Inv, TypeOK, ListServices, cluster, published, Stages, Serving

LEMMA ListSlicesAndPublishInv == Inv /\ ListSlicesAndPublish => Inv'
<1> SUFFICES ASSUME Inv, ListSlicesAndPublish PROVE Inv'
  OBVIOUS
<1>1. TypeOK'
  BY EntryType, EmptyLists, SMTT(60)
  DEF Inv, TypeOK, ListSlicesAndPublish, Sleep, cluster, Stages
<1>2. (Serving(dep) => left = 0)'
  BY DEF Inv, ListSlicesAndPublish, cluster, Serving
<1>3. reg' = "ready" => left' <= age' + SyncTimeout
  <2> SUFFICES ASSUME reg' = "ready" PROVE left' <= age' + SyncTimeout
    OBVIOUS
  <2>1. Serving(listed)
    BY ReadyIsServing DEF Inv, TypeOK, ListSlicesAndPublish
  <2>2. left <= spent
    BY <2>1 DEF Inv, ListSlicesAndPublish
  <2>. QED BY <2>2, SMTT(60) DEF Inv, TypeOK, ListSlicesAndPublish
<1>. QED BY <1>1, <1>2, <1>3, SMTT(60) DEF Inv, ListSlicesAndPublish, Sleep

LEMMA SyncFailsInv == Inv /\ SyncFails => Inv'
<1> SUFFICES ASSUME Inv, SyncFails PROVE Inv'
  OBVIOUS
<1>1. MarkReadyUnavailable(reg) \in BackendStates \cup {"none"}
      /\ MarkReadyUnavailable(reg) # "ready"
  BY DEF Inv, TypeOK, MarkReadyUnavailable, BackendStates
<1>2. TypeOK'
  BY <1>1, RetryBounded, EmptyLists, SMTT(60) DEF Inv, TypeOK, SyncFails, Sleep, cluster, Stages
<1>3. (Serving(dep) => left = 0)'
  BY DEF Inv, SyncFails, cluster, Serving
<1>4. reg' = "ready" => reg = "ready" /\ age < 3 * Interval
  BY <1>1, SMTT(60) DEF Inv, TypeOK, SyncFails, SnapshotStale
<1>. QED BY <1>2, <1>3, <1>4, SMTT(60) DEF Inv, TypeOK, SyncFails, Sleep

(* Time passes: the snapshot and the change age together.                   *)
LEMMA TickInv == Inv /\ Tick => Inv'
<1> SUFFICES ASSUME Inv, Tick PROVE Inv'
  OBVIOUS
<1>1. UNCHANGED <<dep, svc, endpoints, stage, retry, listed, service, reg, synced, changes>>
  BY DEF Tick, cluster, published
<1>2. /\ age' \in 0 .. AgeBound /\ left' \in 0 .. AgeBound
      /\ age' <= age + 1 /\ left' <= left + 1
      /\ age < AgeBound => age' = age + 1
  BY CappedAge, SMTT(60) DEF Inv, TypeOK, Tick
<1>3. spent' \in 0 .. SyncTimeout /\ wait' \in 0 .. Interval
  BY SMTT(60) DEF Inv, TypeOK, Tick
<1>4. TypeOK'
  BY <1>1, <1>2, <1>3 DEF Inv, TypeOK
<1>5. (Serving(dep) => left = 0)'
  BY <1>1 DEF Tick, Serving
<1>6. (stage \in {"services", "slices"} /\ Serving(listed) => left <= spent)'
  BY <1>1, <1>2, SMTT(60) DEF Inv, TypeOK, Tick, Serving
<1>7. (stage = "sleep" => spent = 0)'
  BY <1>1 DEF Inv, Tick
<1>8. ASSUME reg' = "ready"
      PROVE  /\ synced'
             /\ left' <= age' + SyncTimeout
             /\ stage' = "sleep" => age' + wait' < 4 * Interval
             /\ stage' # "sleep" => age' < 4 * Interval + spent'
  <2>1. age < AgeBound
    BY <1>1, <1>8, SMTT(60) DEF Inv, TypeOK
  <2>. QED BY <2>1, <1>1, <1>2, <1>8, SMTT(60) DEF Inv, TypeOK, Tick
<1>. QED BY <1>4, <1>5, <1>6, <1>7, <1>8 DEF Inv

(* A change of the cluster, whatever it is, disturbs only what Serving says *)
(* of the deployment, and resets left when the deployment serves.           *)
LEMMA ChangeInv ==
  ASSUME Inv, Change, dep' \in Deployment, svc' \in Service, endpoints' \in BOOLEAN
  PROVE  Inv'
<1>1. UNCHANGED <<stage, spent, wait, retry, listed, service, reg, synced, age>>
  BY DEF Change, loop, published
<1>2. left' \in 0 .. AgeBound /\ left' <= left /\ (Serving(dep') => left' = 0)
  BY SMTT(60) DEF Inv, TypeOK, Change
<1>3. TypeOK'
  BY <1>1, <1>2, SMTT(60) DEF Inv, TypeOK, Change
<1>4. (stage \in {"services", "slices"} /\ Serving(listed) => left <= spent)'
  BY <1>1, <1>2, SMTT(60) DEF Inv, TypeOK, Serving
<1>. QED BY <1>1, <1>2, <1>3, <1>4, SMTT(60) DEF Inv, TypeOK, Serving

LEMMA ClusterInv ==
  ASSUME Inv,
         \/ PhaseMoves \/ DesiredStateChanges \/ GateMoves \/ ServiceMoves
         \/ EndpointsMove \/ DeploymentDeleted \/ DeploymentRecreated
  PROVE  Inv'
<1>0. dep \in Deployment /\ svc \in Service /\ endpoints \in BOOLEAN
  BY DEF Inv, TypeOK
<1>1. CASE PhaseMoves
  BY <1>0, <1>1, ChangeInv DEF PhaseMoves, Deployment, Gates
<1>2. CASE DesiredStateChanges
  BY <1>0, <1>2, ChangeInv DEF DesiredStateChanges, Deployment
<1>3. CASE GateMoves
  BY <1>0, <1>3, ChangeInv DEF GateMoves, Deployment
<1>4. CASE ServiceMoves
  <2>1. Change /\ dep' = dep
    BY <1>4 DEF ServiceMoves
  <2>2. dep.uid \in 1 .. MaxUID
    BY <1>0 DEF Deployment
  <2>3. ASSUME NEW b \in BOOLEAN
        PROVE  /\ [svc EXCEPT !.selects = b] \in Service
               /\ [svc EXCEPT !.terminating = b] \in Service
               /\ [svc EXCEPT !.exists = b] \in Service
    BY <1>0, <2>3 DEF Service
  <2>4. [exists |-> TRUE, owner |-> dep.uid, selects |-> TRUE, terminating |-> FALSE]
          \in Service
    BY <2>2 DEF Service
  <2>5. svc' \in Service
    BY <1>4, <2>3, <2>4 DEF ServiceMoves
  <2>6. endpoints' \in BOOLEAN
    BY <1>0, <1>4 DEF ServiceMoves
  <2>. QED BY <1>0, <2>1, <2>5, <2>6, ChangeInv
<1>5. CASE EndpointsMove
  BY <1>0, <1>5, ChangeInv DEF EndpointsMove
<1>6. CASE DeploymentDeleted
  BY <1>0, <1>6, ChangeInv DEF DeploymentDeleted, Deployment
<1>7. CASE DeploymentRecreated
  BY <1>0, <1>7, ChangeInv, SMTT(60) DEF DeploymentRecreated, Deployment, Phases, Gates
<1>. QED BY <1>1, <1>2, <1>3, <1>4, <1>5, <1>6, <1>7

LEMMA NextInv == Inv /\ [Next]_vars => Inv'
<1> SUFFICES ASSUME Inv, [Next]_vars PROVE Inv'
  OBVIOUS
<1>1. CASE UNCHANGED vars
  BY <1>1 DEF Inv, TypeOK, vars, Serving
<1>2. CASE Next
  BY <1>2, StartSyncInv, ListDeploymentsInv, ListServicesInv, ListSlicesAndPublishInv,
     SyncFailsInv, TickInv, ClusterInv DEF Next
<1>. QED BY <1>1, <1>2

LEMMA InvAlways == Spec => []Inv
BY InitInv, NextInv, PTL DEF Spec

-----------------------------------------------------------------------------
(* Whatever the cluster does and however reads fail, the loop, its lists,   *)
(* the published state and the two ages stay well formed; the backoff of    *)
(* Run stays between its base and the interval.                             *)
THEOREM TypeCorrect == Spec => []TypeOK
<1>1. Inv => TypeOK BY DEF Inv
<1>. QED BY <1>1, InvAlways, PTL

(* For every interval, timeout, retry base and history of changes: the      *)
(* registry stops offering a model within four intervals and two sync       *)
(* timeouts of the moment it stopped being fit for routing.                 *)
THEOREM RoutingStops == Spec => []StopsRouting
<1>1. Inv => StopsRouting
  BY SMTT(60) DEF Inv, TypeOK, StopsRouting
<1>. QED BY <1>1, InvAlways, PTL

=============================================================================
