------------------------------ MODULE SumLemmas ------------------------------
(***************************************************************************)
(* Sums over finite sets.  The models add amounts up with SumFunction.     *)
(* Its recursion over subsets is reasoned about through a minimal          *)
(* counterexample, which first-order provers can use where an induction    *)
(* rule over an operator is of no help: the lemmas below hold for every    *)
(* finite set and are all that the models need.                            *)
(***************************************************************************)
EXTENDS Integers, FiniteSets, Functions, FiniteSetTheorems, TLAPS

\* A nonempty set of finite sets has a minimal element.
LEMMA MinimalSubset ==
    ASSUME NEW S, IsFiniteSet(S), NEW B \in SUBSET (SUBSET S), B # {}
    PROVE  \E t \in B : \A u \in B : ~(u \subseteq t /\ u # t)
<1>1. IsWellFoundedOn(StrictSubsetOrdering(S), SUBSET S)
    BY FS_StrictSubsetOrderingWellFounded, FS_FiniteSubsetsOfFinite
<1>2. PICK t \in B : \A u \in B : ~(<<u, t>> \in StrictSubsetOrdering(S))
    BY <1>1, WFMin
<1> QED BY <1>2 DEF StrictSubsetOrdering

\* A nonempty set of numbers has a least element.
LEMMA LeastNumber ==
    ASSUME NEW B \in SUBSET Nat, B # {}
    PROVE  \E n \in B : \A m \in B : n <= m
<1>1. PICK top \in B : TRUE
    OBVIOUS
<1> DEFINE below == {0..m : m \in {k \in B : k <= top}}
<1>2. IsFiniteSet(0..top)
    BY <1>1, FS_Interval
<1>3. below \in SUBSET (SUBSET (0..top)) /\ below # {}
    BY <1>1
<1> HIDE DEF below
<1>4. PICK t \in below : \A u \in below : ~(u \subseteq t /\ u # t)
    <2>1. PICK S, B1 : S = 0..top /\ B1 = below
        OBVIOUS
    <2>2. IsFiniteSet(S) /\ B1 \in SUBSET (SUBSET S) /\ B1 # {}
        BY <1>2, <1>3, <2>1
    <2>3. \E t \in B1 : \A u \in B1 : ~(u \subseteq t /\ u # t)
        BY ONLY <2>2, MinimalSubset
    <2> QED BY <2>1, <2>3
<1>5. PICK n \in B : n <= top /\ t = 0..n
    BY <1>4 DEF below
<1>6. ASSUME NEW m \in B PROVE n <= m
    <2>1. SUFFICES ASSUME m < n PROVE FALSE
        OBVIOUS
    <2>2. 0..m \in below
        BY <1>5, <2>1 DEF below
    <2>3. 0..m \subseteq t /\ n \in t /\ n \notin 0..m
        BY <1>5, <2>1
    <2> QED BY <1>4, <2>2, <2>3
<1> QED BY <1>6

\* The equation that a sum over the subsets of S satisfies.
Sums(g, f, S) == g = [s \in SUBSET S |-> IF s = {} THEN 0 ELSE f[CHOOSE x \in s : TRUE] + g[s \ {CHOOSE x \in s : TRUE}]]

\* The recursion of a sum has a solution ...
LEMMA SumDefined ==
    ASSUME NEW S, IsFiniteSet(S), NEW f, \A x \in S : f[x] \in Int
    PROVE  \E g \in [SUBSET S -> Int] : Sums(g, f, S)
<1> DEFINE c(s) == CHOOSE x \in s : TRUE
           Step(g, s) == IF s = {} THEN 0 ELSE f[c(s)] + g[s \ {c(s)}]
           Upto(n) == \E g \in [SUBSET S -> Int] : \A s \in SUBSET S : Cardinality(s) <= n => g[s] = Step(g, s)
<1>1. \A s \in SUBSET S : s # {} => c(s) \in s
    OBVIOUS
<1>2. \A s \in SUBSET S : IsFiniteSet(s) /\ Cardinality(s) \in Nat
    BY FS_Subset, FS_CardinalityType
<1>3. \A s \in SUBSET S : s # {} => s \ {c(s)} \in SUBSET S /\ Cardinality(s \ {c(s)}) = Cardinality(s) - 1
    BY <1>1, <1>2, FS_RemoveElement
<1>4. \A g \in [SUBSET S -> Int], s \in SUBSET S : Step(g, s) \in Int
    BY <1>1
<1> HIDE DEF c
<1>5. Upto(0)
    <2>1. [s \in SUBSET S |-> 0] \in [SUBSET S -> Int]
        OBVIOUS
    <2>2. \A s \in SUBSET S : Cardinality(s) <= 0 => s = {}
        BY <1>2, FS_EmptySet
    <2> QED BY <2>1, <2>2
<1>6. ASSUME NEW n \in Nat, Upto(n) PROVE Upto(n + 1)
    <2>1. PICK g \in [SUBSET S -> Int] : \A s \in SUBSET S : Cardinality(s) <= n => g[s] = Step(g, s)
        BY <1>6
    <2> DEFINE h == [s \in SUBSET S |-> IF Cardinality(s) <= n THEN g[s] ELSE Step(g, s)]
    <2>2. h \in [SUBSET S -> Int]
        BY <1>4
    <2>3. ASSUME NEW s \in SUBSET S, Cardinality(s) <= n + 1 PROVE h[s] = Step(h, s)
        <3>1. h[s] = Step(g, s)
            BY <2>1
        <3>2. s # {} => h[s \ {c(s)}] = g[s \ {c(s)}]
            BY <1>2, <1>3, <2>3
        <3> QED BY <3>1, <3>2
    <2> HIDE DEF h, Step
    <2> QED BY <2>2, <2>3
<1> HIDE DEF Upto
<1>7. Upto(Cardinality(S))
    <2> DEFINE bad == {n \in Nat : ~Upto(n)}
    <2>1. bad = {}
        <3>1. SUFFICES ASSUME bad # {} PROVE FALSE
            OBVIOUS
        <3>2. PICK n \in bad : \A m \in bad : n <= m
            BY <3>1, LeastNumber
        <3>3. n # 0
            BY <1>5, <3>2
        <3>4. n - 1 \in Nat /\ n - 1 \notin bad
            BY <3>2, <3>3
        <3>5. Upto((n - 1) + 1)
            BY <1>6, <3>4
        <3>6. (n - 1) + 1 = n
            BY <3>2
        <3> QED BY <3>2, <3>5, <3>6
    <2> QED BY <2>1, FS_CardinalityType
<1>8. PICK g \in [SUBSET S -> Int] : \A s \in SUBSET S : Cardinality(s) <= Cardinality(S) => g[s] = Step(g, s)
    BY <1>7 DEF Upto
<1>9. \A s \in SUBSET S : g[s] = Step(g, s)
    BY <1>8, FS_Subset
<1> QED BY <1>9 DEF Sums, c

\* Two sums agree on the sets on which their summands do.
LEMMA SumsAgree ==
    ASSUME NEW S, IsFiniteSet(S), NEW T \in SUBSET S, NEW f, NEW e, \A x \in T : f[x] \in Int /\ f[x] = e[x],
           NEW g, NEW h, Sums(g, f, S), Sums(h, e, T)
    PROVE  \A s \in SUBSET T : g[s] \in Int /\ g[s] = h[s]
<1> DEFINE bad == {s \in SUBSET T : ~(g[s] \in Int /\ g[s] = h[s])}
<1>1. SUFFICES ASSUME bad # {} PROVE FALSE
    OBVIOUS
<1>2. IsFiniteSet(T) /\ bad \in SUBSET (SUBSET T)
    BY FS_Subset
<1>3. PICK t \in bad : \A u \in bad : ~(u \subseteq t /\ u # t)
    <2> HIDE DEF bad
    <2> QED BY <1>1, <1>2, MinimalSubset
<1>4. PICK c : c = CHOOSE x \in t : TRUE
    OBVIOUS
<1>5. /\ g[t] = IF t = {} THEN 0 ELSE f[c] + g[t \ {c}]
      /\ h[t] = IF t = {} THEN 0 ELSE e[c] + h[t \ {c}]
    <2>1. t \in SUBSET T /\ t \in SUBSET S
        BY <1>3
    <2>2. g[t] = IF t = {} THEN 0 ELSE f[CHOOSE x \in t : TRUE] + g[t \ {CHOOSE x \in t : TRUE}]
        BY <2>1 DEF Sums
    <2>3. h[t] = IF t = {} THEN 0 ELSE e[CHOOSE x \in t : TRUE] + h[t \ {CHOOSE x \in t : TRUE}]
        BY <2>1 DEF Sums
    <2> QED BY <1>4, <2>2, <2>3
<1>6. t # {} => c \in t
    BY <1>4
<1>7. CASE t # {}
    <2>1. t \ {c} \in SUBSET T /\ t \ {c} \notin bad
        BY <1>3, <1>6, <1>7
    <2>2. PICK v \in Int : v = g[t \ {c}] /\ v = h[t \ {c}]
        BY <2>1
    <2>3. f[c] \in Int /\ f[c] = e[c]
        BY <1>3, <1>6, <1>7
    <2> QED BY <1>3, <1>5, <1>7, <2>2, <2>3
<1> QED BY <1>3, <1>5, <1>7

\* ... and the sum is that solution.
LEMMA SumIs ==
    ASSUME NEW S, IsFiniteSet(S), NEW f, \A x \in S : f[x] \in Int
    PROVE  \E g : Sums(g, f, S) /\ SumFunctionOnSet(f, S) = g[S]
<1> DEFINE it == CHOOSE g : Sums(g, f, S)
<1>1. SumFunctionOnSet(f, S) = it[S]
    BY DEF SumFunctionOnSet, FoldFunctionOnSet, MapThenFoldSet, Sums
<1>2. Sums(it, f, S)
    BY SumDefined
<1> QED BY <1>1, <1>2

\* Integers add up to an integer.
LEMMA SumType ==
    ASSUME NEW S, IsFiniteSet(S), NEW f, \A x \in S : f[x] \in Int
    PROVE  SumFunctionOnSet(f, S) \in Int
<1>1. PICK g : Sums(g, f, S) /\ SumFunctionOnSet(f, S) = g[S]
    BY SumIs
<1> QED BY <1>1, SumsAgree

\* Nothing adds up to 0.
LEMMA SumEmpty == ASSUME NEW f PROVE SumFunctionOnSet(f, {}) = 0
<1>1. PICK g : Sums(g, f, {}) /\ SumFunctionOnSet(f, {}) = g[{}]
    BY SumIs, FS_EmptySet
<1> QED BY <1>1 DEF Sums

\* Sums depend on the summands only.
LEMMA SumSame ==
    ASSUME NEW S, IsFiniteSet(S), NEW f, NEW e, \A x \in S : f[x] \in Int /\ f[x] = e[x]
    PROVE  SumFunctionOnSet(f, S) = SumFunctionOnSet(e, S)
<1>1. PICK g : Sums(g, f, S) /\ SumFunctionOnSet(f, S) = g[S]
    BY SumIs
<1>2. PICK h : Sums(h, e, S) /\ SumFunctionOnSet(e, S) = h[S]
    BY SumIs
<1> QED BY <1>1, <1>2, SumsAgree

\* Any element may be the last one added.
LEMMA SumRemove ==
    ASSUME NEW S, IsFiniteSet(S), NEW f, \A x \in S : f[x] \in Int, NEW x \in S
    PROVE  SumFunctionOnSet(f, S) = f[x] + SumFunctionOnSet(f, S \ {x})
<1>1. PICK g : Sums(g, f, S) /\ SumFunctionOnSet(f, S) = g[S]
    BY SumIs
<1>2. \A s \in SUBSET S : g[s] \in Int
    BY <1>1, SumsAgree
<1>3. SumFunctionOnSet(f, S \ {x}) = g[S \ {x}]
    <2>1. PICK T \in SUBSET S : T = S \ {x}
        OBVIOUS
    <2>2. IsFiniteSet(T) /\ \A y \in T : f[y] \in Int
        BY FS_Subset
    <2>3. PICK h : Sums(h, f, T) /\ SumFunctionOnSet(f, T) = h[T]
        BY <2>2, SumIs
    <2> QED BY <1>1, <2>1, <2>2, <2>3, SumsAgree
<1> DEFINE good(s) == \A y \in s : g[s] = f[y] + g[s \ {y}]
           bad == {s \in SUBSET S : ~good(s)}
<1>4. bad = {}
    <2>1. SUFFICES ASSUME bad # {} PROVE FALSE
        OBVIOUS
    <2>2. bad \in SUBSET (SUBSET S)
        OBVIOUS
    <2>3. PICK t \in bad : \A u \in bad : ~(u \subseteq t /\ u # t)
        <3> HIDE DEF bad
        <3> QED BY <2>1, <2>2, MinimalSubset
    <2>4. PICK y \in t : g[t] # f[y] + g[t \ {y}]
        BY <2>3
    <2>5. PICK c : c = CHOOSE z \in t : TRUE
        OBVIOUS
    <2>6. c \in t /\ g[t] = f[c] + g[t \ {c}]
        BY <1>1, <2>3, <2>4, <2>5 DEF Sums
    <2>7. c # y
        BY <2>4, <2>6
    <2>8. t \ {c} \notin bad /\ t \ {y} \notin bad
        BY <2>3, <2>4, <2>6
    <2>9. good(t \ {c}) /\ good(t \ {y})
        <3>1. t \ {c} \in SUBSET S /\ t \ {y} \in SUBSET S
            BY <2>3
        <3> QED BY <2>8, <3>1
    <2>10. g[t \ {c}] = f[y] + g[(t \ {c}) \ {y}] /\ g[t \ {y}] = f[c] + g[(t \ {y}) \ {c}]
        BY <2>4, <2>6, <2>7, <2>9
    <2>11. (t \ {c}) \ {y} = (t \ {y}) \ {c} /\ (t \ {c}) \ {y} \in SUBSET S
        BY <2>3
    <2>12. PICK v \in Int : v = g[(t \ {c}) \ {y}]
        BY <1>2, <2>11
    <2>13. f[c] \in Int /\ f[y] \in Int
        BY <2>3, <2>4, <2>6
    <2>14. g[t] = f[c] + (f[y] + v) /\ g[t \ {y}] = f[c] + v
        BY <2>6, <2>10, <2>11, <2>12
    <2>15. f[c] + (f[y] + v) = f[y] + (f[c] + v)
        BY ONLY <2>12, <2>13
    <2> QED BY <2>4, <2>14, <2>15
<1>5. g[S] = f[x] + g[S \ {x}]
    BY <1>4
<1> QED BY <1>1, <1>3, <1>5

\* A new element adds its summand.
LEMMA SumAdd ==
    ASSUME NEW S, IsFiniteSet(S), NEW f, NEW x, x \notin S, \A y \in S \cup {x} : f[y] \in Int
    PROVE  SumFunctionOnSet(f, S \cup {x}) = f[x] + SumFunctionOnSet(f, S)
<1>1. PICK T : T = S \cup {x}
    OBVIOUS
<1>2. IsFiniteSet(T) /\ x \in T /\ T \ {x} = S
    BY <1>1, FS_AddElement
<1> QED BY <1>1, <1>2, SumRemove

\* One summand changes.
LEMMA SumChange ==
    ASSUME NEW S, IsFiniteSet(S), NEW f, NEW e, NEW x \in S, \A y \in S : f[y] \in Int /\ e[y] \in Int,
           \A y \in S \ {x} : f[y] = e[y]
    PROVE  SumFunctionOnSet(e, S) = SumFunctionOnSet(f, S) - f[x] + e[x]
<1>1. PICK T \in SUBSET S : T = S \ {x}
    OBVIOUS
<1>2. IsFiniteSet(T) /\ \A y \in T : f[y] \in Int /\ f[y] = e[y]
    BY <1>1, FS_Subset
<1>3. SumFunctionOnSet(f, T) = SumFunctionOnSet(e, T) /\ SumFunctionOnSet(f, T) \in Int
    BY <1>2, SumSame, SumType
<1> QED BY <1>1, <1>3, SumRemove

\* A sum of zeros.
LEMMA SumZero ==
    ASSUME NEW S, IsFiniteSet(S), NEW f, \A x \in S : f[x] \in Int /\ f[x] = 0
    PROVE  SumFunctionOnSet(f, S) = 0
<1> DEFINE bad == {s \in SUBSET S : SumFunctionOnSet(f, s) # 0}
<1>1. SUFFICES ASSUME bad # {} PROVE FALSE
    OBVIOUS
<1>2. PICK t \in bad : \A u \in bad : ~(u \subseteq t /\ u # t)
    <2>1. bad \in SUBSET (SUBSET S)
        OBVIOUS
    <2> HIDE DEF bad
    <2> QED BY <1>1, <2>1, MinimalSubset
<1>3. t # {}
    <2>1. SUFFICES ASSUME t = {} PROVE FALSE
        OBVIOUS
    <2>2. SumFunctionOnSet(f, {}) # 0
        BY <1>2, <2>1
    <2> QED BY <2>2, SumEmpty
<1>4. PICK x \in t : TRUE
    BY <1>3
<1>5. PICK u \in SUBSET S : u = t \ {x}
    BY <1>2
<1>6. SumFunctionOnSet(f, u) = 0
    BY <1>2, <1>4, <1>5
<1>7. IsFiniteSet(t) /\ \A y \in t : f[y] \in Int
    BY <1>2, FS_Subset
<1>8. SumFunctionOnSet(f, t) = f[x] + SumFunctionOnSet(f, u)
    BY <1>4, <1>5, <1>7, SumRemove
<1> QED BY <1>2, <1>4, <1>6, <1>8

\* Larger summands, larger sums.
LEMMA SumMonotone ==
    ASSUME NEW S, IsFiniteSet(S), NEW f, NEW e, \A x \in S : f[x] \in Int /\ e[x] \in Int /\ f[x] <= e[x]
    PROVE  SumFunctionOnSet(f, S) <= SumFunctionOnSet(e, S)
<1> DEFINE bad == {s \in SUBSET S : ~(SumFunctionOnSet(f, s) <= SumFunctionOnSet(e, s))}
<1>1. SUFFICES ASSUME bad # {} PROVE FALSE
    OBVIOUS
<1>2. PICK t \in bad : \A u \in bad : ~(u \subseteq t /\ u # t)
    <2>1. bad \in SUBSET (SUBSET S)
        OBVIOUS
    <2> HIDE DEF bad
    <2> QED BY <1>1, <2>1, MinimalSubset
<1>3. IsFiniteSet(t) /\ t # {}
    <2>1. IsFiniteSet(t)
        BY <1>2, FS_Subset
    <2>2. SumFunctionOnSet(f, {}) = 0 /\ SumFunctionOnSet(e, {}) = 0
        BY SumEmpty
    <2>3. t # {}
        <3>1. SUFFICES ASSUME t = {} PROVE FALSE
            OBVIOUS
        <3>2. ~(SumFunctionOnSet(f, {}) <= SumFunctionOnSet(e, {}))
            BY <1>2, <3>1
        <3> QED BY ONLY <2>2, <3>2
    <2> QED BY <2>1, <2>3
<1>4. PICK x \in t : TRUE
    BY <1>3
<1>5. PICK u \in SUBSET S : u = t \ {x}
    BY <1>2
<1>6. SumFunctionOnSet(f, u) <= SumFunctionOnSet(e, u)
    BY <1>2, <1>4, <1>5
<1>7. SumFunctionOnSet(f, u) \in Int /\ SumFunctionOnSet(e, u) \in Int
    BY FS_Subset, SumType
<1>8. /\ SumFunctionOnSet(f, t) = f[x] + SumFunctionOnSet(f, u)
      /\ SumFunctionOnSet(e, t) = e[x] + SumFunctionOnSet(e, u)
    BY <1>2, <1>3, <1>5, SumRemove
<1> QED BY <1>2, <1>4, <1>6, <1>7, <1>8

\* Summands below the sum of two others, a sum below the sum of two sums.
LEMMA SumSplit ==
    ASSUME NEW S, IsFiniteSet(S), NEW h, NEW f, NEW e,
           \A x \in S : h[x] \in Int /\ f[x] \in Int /\ e[x] \in Int /\ h[x] <= f[x] + e[x]
    PROVE  SumFunctionOnSet(h, S) <= SumFunctionOnSet(f, S) + SumFunctionOnSet(e, S)
<1> DEFINE bad == {s \in SUBSET S : ~(SumFunctionOnSet(h, s) <= SumFunctionOnSet(f, s) + SumFunctionOnSet(e, s))}
<1>1. SUFFICES ASSUME bad # {} PROVE FALSE
    OBVIOUS
<1>2. PICK t \in bad : \A u \in bad : ~(u \subseteq t /\ u # t)
    <2>1. bad \in SUBSET (SUBSET S)
        OBVIOUS
    <2> HIDE DEF bad
    <2> QED BY <1>1, <2>1, MinimalSubset
<1>3. IsFiniteSet(t) /\ t # {}
    <2>1. IsFiniteSet(t)
        BY <1>2, FS_Subset
    <2>2. SumFunctionOnSet(h, {}) = 0 /\ SumFunctionOnSet(f, {}) = 0 /\ SumFunctionOnSet(e, {}) = 0
        BY SumEmpty
    <2>3. t # {}
        <3>1. SUFFICES ASSUME t = {} PROVE FALSE
            OBVIOUS
        <3>2. ~(SumFunctionOnSet(h, {}) <= SumFunctionOnSet(f, {}) + SumFunctionOnSet(e, {}))
            BY <1>2, <3>1
        <3> QED BY ONLY <2>2, <3>2
    <2> QED BY <2>1, <2>3
<1>4. PICK x \in t : TRUE
    BY <1>3
<1>5. PICK u \in SUBSET S : u = t \ {x}
    BY <1>2
<1>6. SumFunctionOnSet(h, u) <= SumFunctionOnSet(f, u) + SumFunctionOnSet(e, u)
    BY <1>2, <1>4, <1>5
<1>7. SumFunctionOnSet(h, u) \in Int /\ SumFunctionOnSet(f, u) \in Int /\ SumFunctionOnSet(e, u) \in Int
    BY FS_Subset, SumType
<1>8. /\ SumFunctionOnSet(h, t) = h[x] + SumFunctionOnSet(h, u)
      /\ SumFunctionOnSet(f, t) = f[x] + SumFunctionOnSet(f, u)
      /\ SumFunctionOnSet(e, t) = e[x] + SumFunctionOnSet(e, u)
    BY <1>2, <1>3, <1>5, SumRemove
<1>9. ~(SumFunctionOnSet(h, t) <= SumFunctionOnSet(f, t) + SumFunctionOnSet(e, t))
    BY <1>2
<1>10. h[x] \in Int /\ f[x] \in Int /\ e[x] \in Int /\ h[x] <= f[x] + e[x]
    BY <1>2, <1>4
<1> QED BY ONLY <1>6, <1>7, <1>8, <1>9, <1>10
=============================================================================
