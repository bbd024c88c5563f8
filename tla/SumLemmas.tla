------------------------------ MODULE SumLemmas ------------------------------
(***************************************************************************)
(* What the proofs need to know about SumFunctionOnSet(f, S), the sum of    *)
(* f[x] over a finite set S.  The library defines it by choosing one        *)
(* element of S after the other; that the order does not matter, and that   *)
(* the recursion defines anything at all, is shown here by looking at a     *)
(* smallest set for which it would fail.                                    *)
(***************************************************************************)
EXTENDS Integers, FiniteSetsExt, FiniteSetTheorems, WellFoundedInduction, TLAPS

(* A leaf that names no prover is one for Zenon.                          *)
USE Zenon

(* The element the library takes next.                                      *)
Pick(s) == CHOOSE x \in s : TRUE

(* g is the recursive function behind the sum over subsets of S.            *)
IsSumFn(g, f, S) ==
  g = [s \in SUBSET S |-> IF s = {} THEN 0 ELSE f[Pick(s)] + g[s \ {Pick(s)}]]

SumFn(f, S) == CHOOSE g : IsSumFn(g, f, S)

(* A nonempty set of subsets of a finite set has a smallest element.        *)
LEMMA SmallestSubset ==
  ASSUME NEW S, IsFiniteSet(S), NEW B, B \subseteq SUBSET S, B # {}
  PROVE  \E T \in B : \A U \in SUBSET S : U \subseteq T /\ U # T => U \notin B
<1>1. IsWellFoundedOn(StrictSubsetOrdering(S), FiniteSubsetsOf(S))
  BY FS_StrictSubsetOrderingWellFounded
<1>2. FiniteSubsetsOf(S) = SUBSET S
  BY FS_FiniteSubsetsOfFinite
<1>3. PICK T \in B : \A U \in B : ~(<<U, T>> \in StrictSubsetOrdering(S))
  BY <1>1, <1>2, WFMin
<1>4. ASSUME NEW U \in SUBSET S, U \subseteq T, U # T, U \in B
      PROVE  FALSE
  <2>1. <<U, T>> \in StrictSubsetOrdering(S)
    BY <1>4 DEF StrictSubsetOrdering
  <2>. QED BY <1>3, <1>4, <2>1
<1>. QED BY <1>4

LEMMA FiniteMax ==
  ASSUME NEW S, IsFiniteSet(S), S # {}, \A x \in S : x \in Nat
  PROVE  Max(S) \in S /\ \A x \in S : x <= Max(S)
<1> DEFINE Top(T) == \E x \in T : \A y \in T : x >= y
           Bad == {T \in SUBSET S : T # {} /\ ~Top(T)}
<1>1. Bad = {}
  <2>0. SUFFICES ASSUME Bad # {} PROVE FALSE
    OBVIOUS
  <2>1. PICK T \in Bad : \A U \in SUBSET S : U \subseteq T /\ U # T => U \notin Bad
    <3>1. Bad \subseteq SUBSET S
      OBVIOUS
    <3> HIDE DEF Bad
    <3>. QED BY <2>0, <3>1, SmallestSubset, SMTT(60)
  <2>2. PICK a \in T : TRUE
    OBVIOUS
  <2>3. CASE T = {a}
    BY <2>3, SMTT(60)
  <2>4. CASE T # {a}
    <3>1. T \ {a} # {} /\ T \ {a} \in SUBSET S /\ T \ {a} # T
      BY <2>2, <2>4
    <3>2. PICK x \in T \ {a} : \A y \in T \ {a} : x >= y
      BY <2>1, <3>1
    <3>3. x \in Nat /\ a \in Nat /\ \A y \in T : y \in Nat
      OBVIOUS
    <3>4. CASE x >= a
      BY <3>2, <3>4
    <3>5. CASE a > x
      BY <2>2, <3>2, <3>3, <3>5, SMTT(60)
    <3>. QED BY <3>3, <3>4, <3>5, SMTT(60)
  <2>. QED BY <2>3, <2>4
<1>2. Top(S)
  BY <1>1
<1>3. Max(S) \in S /\ \A y \in S : Max(S) >= y
  BY <1>2 DEF Max
<1>. QED BY <1>3

LEMMA PickIsElement ==
  ASSUME NEW s, s # {}
  PROVE  Pick(s) \in s
BY DEF Pick

(* Where two of these functions are defined, they agree.                    *)
LEMMA SumFnUnique ==
  ASSUME NEW f, NEW A, IsFiniteSet(A), NEW B, NEW g, NEW h,
         IsSumFn(g, f, A), IsSumFn(h, f, B), NEW s, s \subseteq A, s \subseteq B
  PROVE  g[s] = h[s]
<1> DEFINE Bad == {t \in SUBSET A : t \subseteq B /\ g[t] # h[t]}
<1>1. SUFFICES ASSUME Bad # {} PROVE FALSE
  OBVIOUS
<1>2. PICK t \in Bad : \A u \in SUBSET A : u \subseteq t /\ u # t => u \notin Bad
  <2>1. Bad \subseteq SUBSET A
    OBVIOUS
  <2> HIDE DEF Bad
  <2>. QED BY <1>1, <2>1, SmallestSubset, SMTT(60)
<1>3. g[t] = IF t = {} THEN 0 ELSE f[Pick(t)] + g[t \ {Pick(t)}]
  BY DEF IsSumFn
<1>4. h[t] = IF t = {} THEN 0 ELSE f[Pick(t)] + h[t \ {Pick(t)}]
  BY DEF IsSumFn
<1>5. t # {}
  BY <1>3, <1>4
<1>6. Pick(t) \in t
  BY <1>5, PickIsElement
<1>7. g[t \ {Pick(t)}] = h[t \ {Pick(t)}]
  BY <1>2, <1>6
<1>. QED BY <1>3, <1>4, <1>5, <1>7

LEMMA SumFnExists ==
  ASSUME NEW f, NEW S, IsFiniteSet(S)
  PROVE  IsSumFn(SumFn(f, S), f, S)
<1> DEFINE Bad == {T \in SUBSET S : ~IsSumFn(SumFn(f, T), f, T)}
<1>1. SUFFICES ASSUME Bad # {} PROVE FALSE
  OBVIOUS
<1>2. PICK T \in Bad : \A U \in SUBSET S : U \subseteq T /\ U # T => U \notin Bad
  <2>1. Bad \subseteq SUBSET S
    OBVIOUS
  <2> HIDE DEF Bad
  <2>. QED BY <1>1, <2>1, SmallestSubset, SMTT(60)
<1>3. \A U \in SUBSET T : U # T => IsSumFn(SumFn(f, U), f, U)
  BY <1>2
<1> DEFINE value(s) == IF s = {} THEN 0
                       ELSE f[Pick(s)] + SumFn(f, s \ {Pick(s)})[s \ {Pick(s)}]
           g == [s \in SUBSET T |-> value(s)]
<1>4. ASSUME NEW s \in SUBSET T, s # {}
      PROVE  g[s \ {Pick(s)}] = SumFn(f, s \ {Pick(s)})[s \ {Pick(s)}]
  <2> DEFINE u == s \ {Pick(s)}
  <2>1. Pick(s) \in s
    BY <1>4, PickIsElement
  <2>2. u \in SUBSET T /\ u # T
    BY <2>1
  <2>3. IsSumFn(SumFn(f, u), f, u)
    BY <1>3, <2>2
  <2>4. CASE u = {}
    <3>1. SumFn(f, u)[u] = 0
      BY <2>3, <2>4 DEF IsSumFn
    <3>. QED BY <2>2, <2>4, <3>1
  <2>5. CASE u # {}
    <3> DEFINE v == u \ {Pick(u)}
    <3>1. Pick(u) \in u
      BY <2>5, PickIsElement
    <3>2. v \in SUBSET T /\ v # T /\ v \subseteq u
      BY <3>1
    <3>3. IsSumFn(SumFn(f, v), f, v)
      BY <1>3, <3>2
    <3>4. IsFiniteSet(v)
      <4>1. v \subseteq S
        BY <3>2
      <4>. QED BY <4>1, FS_Subset
    <3>5. SumFn(f, v)[v] = SumFn(f, u)[v]
      BY <2>3, <3>2, <3>3, <3>4, SumFnUnique, SMTT(60)
    <3>6. SumFn(f, u)[u] = f[Pick(u)] + SumFn(f, u)[v]
      BY <2>3, <2>5 DEF IsSumFn
    <3>7. g[u] = f[Pick(u)] + SumFn(f, v)[v]
      BY <2>2, <2>5
    <3>. QED BY <3>5, <3>6, <3>7
  <2>. QED BY <2>4, <2>5
<1>5. \A s \in SUBSET T : g[s] = IF s = {} THEN 0 ELSE f[Pick(s)] + g[s \ {Pick(s)}]
  BY <1>4
<1>6. IsSumFn(g, f, T)
  <2> HIDE DEF g
  <2>1. g = [s \in SUBSET T |-> g[s]]
    BY DEF g
  <2>. QED BY <1>5, <2>1 DEF IsSumFn
<1>7. IsSumFn(SumFn(f, T), f, T)
  BY <1>6 DEF SumFn
<1>. QED BY <1>2, <1>7

LEMMA SumIsFn ==
  ASSUME NEW f, NEW S
  PROVE  SumFunctionOnSet(f, S) = SumFn(f, S)[S]
BY DEF SumFunctionOnSet, FoldFunctionOnSet, MapThenFoldSet, SumFn, IsSumFn, Pick

-----------------------------------------------------------------------------
LEMMA SumEmpty ==
  ASSUME NEW f
  PROVE  SumFunctionOnSet(f, {}) = 0
<1>1. IsSumFn(SumFn(f, {}), f, {})
  BY FS_EmptySet, SumFnExists
<1>2. SumFn(f, {})[{}] = 0
  BY <1>1 DEF IsSumFn
<1>. QED BY <1>2, SumIsFn

LEMMA SumFirst ==
  ASSUME NEW f, NEW S, IsFiniteSet(S), S # {}
  PROVE  SumFunctionOnSet(f, S) = f[Pick(S)] + SumFunctionOnSet(f, S \ {Pick(S)})
<1> DEFINE U == S \ {Pick(S)}
<1>1. IsFiniteSet(U) /\ U \subseteq S
  BY FS_Subset
<1>2. IsSumFn(SumFn(f, S), f, S) /\ IsSumFn(SumFn(f, U), f, U)
  BY <1>1, SumFnExists
<1>3. SumFn(f, S)[S] = f[Pick(S)] + SumFn(f, S)[U]
  BY <1>2 DEF IsSumFn
<1>4. SumFn(f, S)[U] = SumFn(f, U)[U]
  BY <1>1, <1>2, SumFnUnique, SMTT(60)
<1>. QED BY <1>3, <1>4, SumIsFn

LEMMA SumInt ==
  ASSUME NEW f, NEW S, IsFiniteSet(S), \A x \in S : f[x] \in Int
  PROVE  SumFunctionOnSet(f, S) \in Int
<1> DEFINE Bad == {T \in SUBSET S : SumFunctionOnSet(f, T) \notin Int}
<1>1. SUFFICES ASSUME Bad # {} PROVE FALSE
  OBVIOUS
<1>2. PICK T \in Bad : \A U \in SUBSET S : U \subseteq T /\ U # T => U \notin Bad
  <2>1. Bad \subseteq SUBSET S
    OBVIOUS
  <2> HIDE DEF Bad
  <2>. QED BY <1>1, <2>1, SmallestSubset, SMTT(60)
<1>3. T # {}
  BY SumEmpty, SMTT(60)
<1>4. Pick(T) \in T /\ IsFiniteSet(T)
  BY <1>3, PickIsElement, FS_Subset
<1>5. SumFunctionOnSet(f, T \ {Pick(T)}) \in Int
  BY <1>2, <1>4
<1>6. SumFunctionOnSet(f, T) = f[Pick(T)] + SumFunctionOnSet(f, T \ {Pick(T)})
  BY <1>3, <1>4, SumFirst
<1>. QED BY <1>4, <1>5, <1>6, SMTT(60)

(* The order does not matter: any element may be taken out.                 *)
LEMMA SumRemove ==
  ASSUME NEW f, NEW S, IsFiniteSet(S), \A x \in S : f[x] \in Int, NEW a \in S
  PROVE  SumFunctionOnSet(f, S) = f[a] + SumFunctionOnSet(f, S \ {a})
<1> DEFINE Bad == {T \in SUBSET S :
                     \E x \in T : SumFunctionOnSet(f, T) # f[x] + SumFunctionOnSet(f, T \ {x})}
<1>1. SUFFICES ASSUME Bad # {} PROVE FALSE
  OBVIOUS
<1>2. PICK T \in Bad : \A U \in SUBSET S : U \subseteq T /\ U # T => U \notin Bad
  <2>1. Bad \subseteq SUBSET S
    OBVIOUS
  <2> HIDE DEF Bad
  <2>. QED BY <1>1, <2>1, SmallestSubset, SMTT(60)
<1>3. PICK x \in T : SumFunctionOnSet(f, T) # f[x] + SumFunctionOnSet(f, T \ {x})
  OBVIOUS
<1> DEFINE c == Pick(T)
           U == T \ {x}
           V == T \ {c}
           W == (T \ {x}) \ {c}
<1>4. c \in T /\ IsFiniteSet(T)
  BY <1>3, PickIsElement, FS_Subset
<1>5. SumFunctionOnSet(f, T) = f[c] + SumFunctionOnSet(f, V)
  BY <1>3, <1>4, SumFirst
<1>6. c # x
  BY <1>3, <1>5
<1>7. U \in SUBSET S /\ U \subseteq T /\ U # T /\ c \in U
  BY <1>4, <1>6
<1>8. V \in SUBSET S /\ V \subseteq T /\ V # T /\ x \in V /\ V \ {x} = W
  BY <1>4, <1>6
<1>9. SumFunctionOnSet(f, U) = f[c] + SumFunctionOnSet(f, W)
  BY <1>2, <1>7
<1>10. SumFunctionOnSet(f, V) = f[x] + SumFunctionOnSet(f, W)
  <2>1. SumFunctionOnSet(f, V) = f[x] + SumFunctionOnSet(f, V \ {x})
    BY <1>2, <1>8
  <2>. QED BY <1>8, <2>1
<1>11. SumFunctionOnSet(f, W) \in Int
  <2>1. W \subseteq S
    OBVIOUS
  <2>2. IsFiniteSet(W)
    BY <2>1, FS_Subset
  <2>. QED BY <2>1, <2>2, SumInt
<1>12. f[c] \in Int /\ f[x] \in Int
  BY <1>4
<1> HIDE DEF U, V, W, c
<1>. QED BY <1>3, <1>5, <1>9, <1>10, <1>11, <1>12, SMTT(60) DEF U

LEMMA SumAdd ==
  ASSUME NEW f, NEW S, IsFiniteSet(S), \A x \in S : f[x] \in Int, NEW a, a \notin S, f[a] \in Int
  PROVE  SumFunctionOnSet(f, S \cup {a}) = f[a] + SumFunctionOnSet(f, S)
<1>1. IsFiniteSet(S \cup {a}) /\ (S \cup {a}) \ {a} = S
  BY FS_AddElement
<1>2. \A x \in S \cup {a} : f[x] \in Int
  OBVIOUS
<1>. QED BY <1>1, <1>2, SumRemove, SMTT(60)

(* Two functions, compared element by element.                              *)
LEMMA SumLessEqual ==
  ASSUME NEW f, NEW g, NEW S, IsFiniteSet(S),
         \A x \in S : f[x] \in Int /\ g[x] \in Int /\ f[x] <= g[x]
  PROVE  SumFunctionOnSet(f, S) <= SumFunctionOnSet(g, S)
<1> DEFINE Bad == {T \in SUBSET S : ~(SumFunctionOnSet(f, T) <= SumFunctionOnSet(g, T))}
<1>1. SUFFICES ASSUME Bad # {} PROVE FALSE
  OBVIOUS
<1>2. PICK T \in Bad : \A U \in SUBSET S : U \subseteq T /\ U # T => U \notin Bad
  <2>1. Bad \subseteq SUBSET S
    OBVIOUS
  <2> HIDE DEF Bad
  <2>. QED BY <1>1, <2>1, SmallestSubset, SMTT(60)
<1>3. T # {}
  BY SumEmpty, SMTT(60)
<1> DEFINE c == Pick(T)
           U == T \ {c}
<1>4. c \in T /\ IsFiniteSet(T)
  BY <1>3, PickIsElement, FS_Subset
<1>5. SumFunctionOnSet(f, U) <= SumFunctionOnSet(g, U)
  BY <1>2, <1>4
<1>6. /\ SumFunctionOnSet(f, T) = f[c] + SumFunctionOnSet(f, U)
      /\ SumFunctionOnSet(g, T) = g[c] + SumFunctionOnSet(g, U)
  BY <1>3, <1>4, SumFirst
<1>7. SumFunctionOnSet(f, U) \in Int /\ SumFunctionOnSet(g, U) \in Int
  <2>1. IsFiniteSet(U) /\ U \subseteq S
    BY <1>4, FS_Subset
  <2>. QED BY <2>1, SumInt
<1>8. f[c] \in Int /\ g[c] \in Int /\ f[c] <= g[c]
  BY <1>4
<1> HIDE DEF c, U
<1>. QED BY <1>5, <1>6, <1>7, <1>8, SMTT(60)

LEMMA SumSame ==
  ASSUME NEW f, NEW g, NEW S, IsFiniteSet(S), \A x \in S : f[x] \in Int /\ g[x] = f[x]
  PROVE  SumFunctionOnSet(f, S) = SumFunctionOnSet(g, S)
<1>1. /\ SumFunctionOnSet(f, S) <= SumFunctionOnSet(g, S)
      /\ SumFunctionOnSet(g, S) <= SumFunctionOnSet(f, S)
  BY SumLessEqual, SMTT(60)
<1>2. SumFunctionOnSet(f, S) \in Int /\ SumFunctionOnSet(g, S) \in Int
  BY SumInt
<1>. QED BY <1>1, <1>2, SMTT(60)

LEMMA SumUnion ==
  ASSUME NEW f, NEW A, NEW B, IsFiniteSet(A), IsFiniteSet(B), A \cap B = {},
         \A x \in A \cup B : f[x] \in Int
  PROVE  SumFunctionOnSet(f, A \cup B) = SumFunctionOnSet(f, A) + SumFunctionOnSet(f, B)
<1> DEFINE Bad == {T \in SUBSET B :
             SumFunctionOnSet(f, A \cup T) # SumFunctionOnSet(f, A) + SumFunctionOnSet(f, T)}
<1>1. SUFFICES ASSUME Bad # {} PROVE FALSE
  OBVIOUS
<1>2. PICK T \in Bad : \A U \in SUBSET B : U \subseteq T /\ U # T => U \notin Bad
  <2>1. Bad \subseteq SUBSET B
    OBVIOUS
  <2> HIDE DEF Bad
  <2>. QED BY <1>1, <2>1, SmallestSubset, SMTT(60)
<1>3. SumFunctionOnSet(f, A) \in Int
  BY SumInt
<1>4. T # {}
  <2>1. A \cup {} = A /\ SumFunctionOnSet(f, {}) = 0
    BY SumEmpty
  <2>2. SumFunctionOnSet(f, A \cup {}) = SumFunctionOnSet(f, A) + SumFunctionOnSet(f, {})
    BY <1>3, <2>1, SMTT(60)
  <2>. QED BY <2>2
<1> DEFINE c == Pick(T)
           U == T \ {c}
<1>5. c \in T /\ IsFiniteSet(T) /\ IsFiniteSet(U) /\ U \subseteq B /\ U # T
  BY <1>4, PickIsElement, FS_Subset
<1>6. SumFunctionOnSet(f, A \cup U) = SumFunctionOnSet(f, A) + SumFunctionOnSet(f, U)
  BY <1>2, <1>5
<1>7. SumFunctionOnSet(f, T) = f[c] + SumFunctionOnSet(f, U)
  BY <1>4, <1>5, SumFirst
<1>8. SumFunctionOnSet(f, A \cup T) = f[c] + SumFunctionOnSet(f, A \cup U)
  <2>1. IsFiniteSet(A \cup T) /\ c \in A \cup T /\ (A \cup T) \ {c} = A \cup U
    BY <1>5, FS_Union
  <2>2. \A x \in A \cup T : f[x] \in Int
    OBVIOUS
  <2>. QED BY <2>1, <2>2, SumRemove, SMTT(60)
<1>9. SumFunctionOnSet(f, U) \in Int /\ f[c] \in Int
  BY <1>5, SumInt
<1>10. SumFunctionOnSet(f, A \cup T) # SumFunctionOnSet(f, A) + SumFunctionOnSet(f, T)
  OBVIOUS
<1> HIDE DEF c, U, Bad
<1>. QED BY <1>3, <1>6, <1>7, <1>8, <1>9, <1>10, SMTT(60)

LEMMA SumNat ==
  ASSUME NEW f, NEW S, IsFiniteSet(S), \A x \in S : f[x] \in Nat
  PROVE  SumFunctionOnSet(f, S) \in Nat
<1>1. SumFunctionOnSet(f, S) \in Int
  BY SumInt, SMTT(60)
<1> DEFINE Bad == {T \in SUBSET S : ~(0 <= SumFunctionOnSet(f, T))}
<1>2. SUFFICES ASSUME Bad # {} PROVE FALSE
  BY <1>1, SMTT(60)
<1>3. PICK T \in Bad : \A U \in SUBSET S : U \subseteq T /\ U # T => U \notin Bad
  <2>1. Bad \subseteq SUBSET S
    OBVIOUS
  <2> HIDE DEF Bad
  <2>. QED BY <1>2, <2>1, SmallestSubset, SMTT(60)
<1>4. T # {}
  BY SumEmpty, SMTT(60)
<1> DEFINE c == Pick(T)
           U == T \ {c}
<1>5. c \in T /\ IsFiniteSet(T) /\ IsFiniteSet(U) /\ U \subseteq S /\ U # T
  BY <1>4, PickIsElement, FS_Subset
<1>6. 0 <= SumFunctionOnSet(f, U)
  BY <1>3, <1>5
<1>7. SumFunctionOnSet(f, T) = f[c] + SumFunctionOnSet(f, U)
  BY <1>4, <1>5, SumFirst
<1>8. SumFunctionOnSet(f, U) \in Int /\ f[c] \in Nat
  BY <1>5, SumInt, SMTT(60)
<1>9. ~(0 <= SumFunctionOnSet(f, T))
  OBVIOUS
<1> HIDE DEF c, U, Bad
<1>. QED BY <1>6, <1>7, <1>8, <1>9, SMTT(60)

LEMMA SumSubset ==
  ASSUME NEW f, NEW A, NEW B, IsFiniteSet(B), A \subseteq B, \A x \in B : f[x] \in Nat
  PROVE  SumFunctionOnSet(f, A) <= SumFunctionOnSet(f, B)
<1>1. IsFiniteSet(A) /\ IsFiniteSet(B \ A) /\ A \cap (B \ A) = {} /\ A \cup (B \ A) = B
  BY FS_Subset
<1>2. SumFunctionOnSet(f, B) = SumFunctionOnSet(f, A) + SumFunctionOnSet(f, B \ A)
  <2>1. \A x \in A \cup (B \ A) : f[x] \in Int
    BY SMTT(60)
  <2>. QED BY <1>1, <2>1, SumUnion, SMTT(60)
<1>3. SumFunctionOnSet(f, A) \in Nat /\ SumFunctionOnSet(f, B \ A) \in Nat
  BY <1>1, SumNat
<1>. QED BY <1>2, <1>3, SMTT(60)

LEMMA SumPlus ==
  ASSUME NEW f, NEW g, NEW h, NEW S, IsFiniteSet(S),
         \A x \in S : f[x] \in Int /\ g[x] \in Int /\ h[x] = f[x] + g[x]
  PROVE  SumFunctionOnSet(h, S) = SumFunctionOnSet(f, S) + SumFunctionOnSet(g, S)
<1> DEFINE Bad == {T \in SUBSET S :
             SumFunctionOnSet(h, T) # SumFunctionOnSet(f, T) + SumFunctionOnSet(g, T)}
<1>1. SUFFICES ASSUME Bad # {} PROVE FALSE
  OBVIOUS
<1>2. PICK T \in Bad : \A U \in SUBSET S : U \subseteq T /\ U # T => U \notin Bad
  <2>1. Bad \subseteq SUBSET S
    OBVIOUS
  <2> HIDE DEF Bad
  <2>. QED BY <1>1, <2>1, SmallestSubset, SMTT(60)
<1>3. T # {}
  <2>1. SumFunctionOnSet(f, {}) = 0 /\ SumFunctionOnSet(g, {}) = 0
        /\ SumFunctionOnSet(h, {}) = 0
    BY SumEmpty
  <2>2. SumFunctionOnSet(h, {}) = SumFunctionOnSet(f, {}) + SumFunctionOnSet(g, {})
    BY <2>1, SMTT(60)
  <2>. QED BY <2>2
<1> DEFINE c == Pick(T)
           U == T \ {c}
<1>4. c \in T /\ IsFiniteSet(T) /\ IsFiniteSet(U) /\ U \subseteq S /\ U # T
  BY <1>3, PickIsElement, FS_Subset
<1>5. SumFunctionOnSet(h, U) = SumFunctionOnSet(f, U) + SumFunctionOnSet(g, U)
  BY <1>2, <1>4
<1>6. /\ SumFunctionOnSet(f, T) = f[c] + SumFunctionOnSet(f, U)
      /\ SumFunctionOnSet(g, T) = g[c] + SumFunctionOnSet(g, U)
      /\ SumFunctionOnSet(h, T) = h[c] + SumFunctionOnSet(h, U)
  BY <1>3, <1>4, SumFirst
<1>7. SumFunctionOnSet(f, U) \in Int /\ SumFunctionOnSet(g, U) \in Int
  BY <1>4, SumInt
<1>8. f[c] \in Int /\ g[c] \in Int /\ h[c] = f[c] + g[c]
  BY <1>4
<1>9. SumFunctionOnSet(h, T) # SumFunctionOnSet(f, T) + SumFunctionOnSet(g, T)
  OBVIOUS
<1> HIDE DEF c, U, Bad
<1>. QED BY <1>5, <1>6, <1>7, <1>8, <1>9, SMTT(60)

LEMMA SumBound ==
  ASSUME NEW f, NEW S, IsFiniteSet(S), NEW m \in Int, \A x \in S : f[x] \in Int /\ f[x] <= m
  PROVE  SumFunctionOnSet(f, S) <= Cardinality(S) * m
<1> DEFINE Bad == {T \in SUBSET S : ~(SumFunctionOnSet(f, T) <= Cardinality(T) * m)}
<1>1. SUFFICES ASSUME Bad # {} PROVE FALSE
  OBVIOUS
<1>2. PICK T \in Bad : \A U \in SUBSET S : U \subseteq T /\ U # T => U \notin Bad
  <2>1. Bad \subseteq SUBSET S
    OBVIOUS
  <2> HIDE DEF Bad
  <2>. QED BY <1>1, <2>1, SmallestSubset, SMTT(60)
<1>3. T # {}
  <2>1. SumFunctionOnSet(f, {}) = 0 /\ Cardinality({}) = 0
    BY SumEmpty, FS_EmptySet
  <2>2. SumFunctionOnSet(f, {}) <= Cardinality({}) * m
    BY <2>1, SMTT(60)
  <2>. QED BY <2>2
<1> DEFINE c == Pick(T)
           U == T \ {c}
           k == Cardinality(U)
<1>4. c \in T /\ IsFiniteSet(T) /\ IsFiniteSet(U) /\ U \subseteq S /\ U # T
  BY <1>3, PickIsElement, FS_Subset
<1>5. SumFunctionOnSet(f, U) <= k * m
  BY <1>2, <1>4
<1>6. SumFunctionOnSet(f, T) = f[c] + SumFunctionOnSet(f, U)
  BY <1>3, <1>4, SumFirst
<1>7. SumFunctionOnSet(f, U) \in Int /\ f[c] \in Int /\ f[c] <= m
  BY <1>4, SumInt
<1>8. Cardinality(T) \in Nat /\ k = Cardinality(T) - 1 /\ k \in Nat
  BY <1>4, FS_RemoveElement, FS_CardinalityType
<1>9. Cardinality(T) = k + 1
  <2> HIDE DEF k
  <2>. QED BY <1>8, SMTT(60)
<1>10. ~(SumFunctionOnSet(f, T) <= (k + 1) * m)
  BY <1>9
<1> HIDE DEF c, U, k, Bad
<1>11. (k + 1) * m = k * m + m /\ k * m \in Int
  BY <1>8, SMTT(60)
<1>. QED BY <1>5, <1>6, <1>7, <1>10, <1>11, SMTT(60)

(* Naturals that add up to 0 are 0.                                         *)
LEMMA SumZero ==
  ASSUME NEW f, NEW S, IsFiniteSet(S), \A x \in S : f[x] \in Nat
  PROVE  SumFunctionOnSet(f, S) = 0 => \A x \in S : f[x] = 0
<1>1. ASSUME NEW a \in S PROVE f[a] <= SumFunctionOnSet(f, S)
  <2>1. \A x \in S : f[x] \in Int
    BY SMTT(60)
  <2>2. SumFunctionOnSet(f, S) = f[a] + SumFunctionOnSet(f, S \ {a})
    BY <2>1, SumRemove, SMTT(60)
  <2>3. IsFiniteSet(S \ {a}) /\ \A x \in S \ {a} : f[x] \in Nat
    BY FS_Subset
  <2>4. SumFunctionOnSet(f, S \ {a}) \in Nat
    BY <2>3, SumNat
  <2>. QED BY <2>2, <2>4, SMTT(60)
<1>. QED BY <1>1, SMTT(60)
=============================================================================
