------------------------------ MODULE Estate_proofs ------------------------------
(***************************************************************************)
(* Theorems about a run, its agenda, the portfolio, the benefits and the   *)
(* registers, for any clients, opportunities, legs, sources and amounts.   *)
(*                                                                         *)
(* What is counted there is a sum over a finite set, which the community   *)
(* modules define by recursion.  The library's induction theorems take the *)
(* formula as an operator, which the provers here cannot instantiate; that *)
(* a non-empty set has a minimal element can be cited for a set, and every *)
(* induction below argues about a minimal counterexample.                  *)
(***************************************************************************)
EXTENDS Estate, FiniteSetTheorems, WellFoundedInduction, SequenceTheorems, TLAPS

-----------------------------------------------------------------------------
(* Minimal elements *)

\* Some natural number of a set is the least.
LEMMA LeastNatural ==
    ASSUME NEW T, T \subseteq Nat, T # {} PROVE \E n \in T : \A m \in T : n <= m
<1> DEFINE below == {ss \in Nat \X Nat : ss[1] < ss[2]}
<1>1. IsWellFoundedOn(below, Nat)
    BY NatLessThanWellFounded, Zenon DEF OpToRel
<1>2. PICK n \in T : \A m \in T : ~ (<<m, n>> \in below)
    <2> HIDE DEF below
    <2> QED  BY <1>1, WFMin, Zenon
<1>3. \A m \in T : ~ (m < n)
    BY <1>2
<1> QED  BY <1>3

\* A set that has 0, and the successor of what it has, has every number.
LEMMA Naturally ==
    ASSUME NEW G, 0 \in G, \A n \in Nat : n \in G => n + 1 \in G
    PROVE  Nat \subseteq G
<1> SUFFICES ASSUME Nat \ G # {} PROVE FALSE
    OBVIOUS
<1>1. PICK n \in Nat \ G : \A m \in Nat \ G : n <= m
    BY LeastNatural, Zenon
<1>2. n # 0 /\ n - 1 \in Nat /\ n - 1 \in G
    BY <1>1
<1> QED  BY <1>1, <1>2

\* Among some subsets of a finite set one contains none of the others.
LEMMA SmallestSubset ==
    ASSUME NEW S, IsFiniteSet(S), NEW T, T \subseteq SUBSET S, T # {}
    PROVE  \E s \in T : \A u \in T : u \subseteq s => u = s
<1>1. IsWellFoundedOn(StrictSubsetOrdering(S), SUBSET S)
    BY FS_StrictSubsetOrderingWellFounded, FS_FiniteSubsetsOfFinite, Zenon
<1>2. PICK s \in T : \A u \in T : ~ (<<u, s>> \in StrictSubsetOrdering(S))
    BY <1>1, WFMin, Zenon
<1>3. ASSUME NEW u \in T, u \subseteq s, u # s PROVE FALSE
    <2>1. <<u, s>> \in StrictSubsetOrdering(S)
        BY <1>3 DEF StrictSubsetOrdering
    <2> QED  BY <1>2, <2>1
<1> QED  BY <1>3

-----------------------------------------------------------------------------
(* Sums over finite sets *)

\* The element a sum takes first, and the recursion it is defined by.
Taken(s) == CHOOSE x \in s : TRUE
SumStep(c, g, s) == IF s = {} THEN 0 ELSE c[Taken(s)] + g[s \ {Taken(s)}]
SumOver(c, S) == CHOOSE g : g = [s \in SUBSET S |-> SumStep(c, g, s)]
Natural(c, S) == IsFiniteSet(S) /\ \A x \in S : c[x] \in Nat

\* The library's sum is the value of that recursion.
LEMMA SumUnfolds ==
    ASSUME NEW c, NEW S PROVE SumFunctionOnSet(c, S) = SumOver(c, S)[S]
BY DEF SumFunctionOnSet, FoldFunctionOnSet, MapThenFoldSet, SumOver, SumStep, Taken

\* Taking an element leaves a subset that is smaller by one.
LEMMA TakingOne ==
    ASSUME NEW S, IsFiniteSet(S), NEW s \in SUBSET S
    PROVE  /\ IsFiniteSet(s) /\ Cardinality(s) \in Nat
           /\ Cardinality(s) = 0 <=> s = {}
           /\ s # {} => /\ Taken(s) \in s /\ s \ {Taken(s)} \in SUBSET S /\ s \ {Taken(s)} # s
                        /\ Cardinality(s \ {Taken(s)}) = Cardinality(s) - 1
<1>1. IsFiniteSet(s)
    BY FS_Subset
<1>2. Cardinality(s) \in Nat /\ (Cardinality(s) = 0 <=> s = {})
    BY <1>1, FS_CardinalityType, FS_EmptySet
<1>3. ASSUME s # {} PROVE Taken(s) \in s
    BY <1>3 DEF Taken
<1>4. ASSUME s # {} PROVE Cardinality(s \ {Taken(s)}) = Cardinality(s) - 1
    BY <1>1, <1>3, <1>4, FS_RemoveElement
<1> QED  BY <1>1, <1>2, <1>3, <1>4

\* The recursion has a solution: one for the subsets of at most n elements is
\* extended to those of n + 1.
LEMMA SumExists ==
    ASSUME NEW S, NEW c, Natural(c, S)
    PROVE  \E g : g = [s \in SUBSET S |-> SumStep(c, g, s)]
<1> DEFINE Small(n) == {s \in SUBSET S : Cardinality(s) <= n}
           Solved == {n \in Nat : \E g : g = [s \in Small(n) |-> SumStep(c, g, s)]}
<1>0. IsFiniteSet(S)
    BY DEF Natural
<1>a. \A s \in SUBSET S :
          /\ Cardinality(s) \in Nat /\ (Cardinality(s) = 0 <=> s = {})
          /\ s # {} => /\ s \ {Taken(s)} \in SUBSET S
                       /\ Cardinality(s \ {Taken(s)}) = Cardinality(s) - 1
    BY <1>0, TakingOne
<1>1. 0 \in Solved
    <2> DEFINE g == [s \in Small(0) |-> 0]
    <2>1. ASSUME NEW s \in SUBSET S, Cardinality(s) <= 0 PROVE s = {}
        <3>1. Cardinality(s) \in Nat /\ (Cardinality(s) = 0 <=> s = {})
            BY <1>a
        <3> QED  BY <2>1, <3>1
    <2>2. \A s \in Small(0) : SumStep(c, g, s) = 0
        BY <2>1 DEF SumStep
    <2>3. g = [s \in Small(0) |-> SumStep(c, g, s)]
        <3> HIDE DEF Small
        <3> QED  BY <2>2
    <2> HIDE DEF g, Small
    <2> QED  BY <2>3
<1>2. ASSUME NEW n \in Nat, n \in Solved PROVE n + 1 \in Solved
    <2>1. PICK g : g = [s \in Small(n) |-> SumStep(c, g, s)]
        BY <1>2
    <2> DEFINE h == [s \in Small(n + 1) |-> SumStep(c, g, s)]
    <2>2. ASSUME NEW s \in Small(n + 1), s # {} PROVE s \ {Taken(s)} \in Small(n)
        <3>1. /\ Cardinality(s) \in Nat /\ s \ {Taken(s)} \in SUBSET S
              /\ Cardinality(s \ {Taken(s)}) = Cardinality(s) - 1
            BY <1>a, <2>2
        <3> QED  BY <3>1
    <2>3. ASSUME NEW s \in Small(n) PROVE s \in Small(n + 1)
        <3>1. Cardinality(s) \in Nat
            BY <1>a
        <3> QED  BY <3>1
    <2>4. \A s \in Small(n) : h[s] = g[s]
        <3> HIDE DEF Small
        <3>1. \A s \in Small(n) : g[s] = SumStep(c, g, s)
            BY <2>1, Zenon
        <3> QED  BY <2>3, <3>1
    <2>5. \A s \in Small(n + 1) : SumStep(c, g, s) = SumStep(c, h, s)
        <3> HIDE DEF Small, h
        <3> QED  BY <2>2, <2>4 DEF SumStep
    <2>6. h = [s \in Small(n + 1) |-> SumStep(c, h, s)]
        <3> HIDE DEF Small
        <3> QED  BY <2>5, Zenon
    <2> HIDE DEF h, Small
    <2> QED  BY <2>6
<1>3. Cardinality(S) \in Solved
    <2> HIDE DEF Solved
    <2>1. Nat \subseteq Solved
        BY <1>1, <1>2, Naturally
    <2> QED  BY <1>0, <2>1, FS_CardinalityType
<1>4. Small(Cardinality(S)) = SUBSET S
    BY <1>0, FS_Subset
<1> QED  BY <1>3, <1>4

\* So the recursion is solved by the sum, and by natural numbers.
LEMMA SumSolves ==
    ASSUME NEW S, NEW c, Natural(c, S)
    PROVE  \A s \in SUBSET S : /\ SumOver(c, S)[s] = SumStep(c, SumOver(c, S), s)
                               /\ SumOver(c, S)[s] \in Nat
<1> DEFINE h == SumOver(c, S)
           T == {s \in SUBSET S : h[s] \notin Nat}
<1>0. IsFiniteSet(S)
    BY DEF Natural
<1>1. h = [s \in SUBSET S |-> SumStep(c, h, s)]
    BY SumExists DEF SumOver
<1>2. \A s \in SUBSET S : h[s] = SumStep(c, h, s)
    <2> HIDE DEF h
    <2> QED  BY <1>1, Zenon
<1>3. T = {}
    <2> SUFFICES ASSUME T # {} PROVE FALSE
        OBVIOUS
    <2>1. PICK s \in T : \A u \in T : u \subseteq s => u = s
        <3>1. T \subseteq SUBSET S
            OBVIOUS
        <3> HIDE DEF T
        <3> QED  BY <1>0, <3>1, SmallestSubset
    <2>2. s # {}
        <3>1. {} \in SUBSET S
            OBVIOUS
        <3> HIDE DEF h
        <3>2. h[{}] = 0
            BY <1>2, <3>1 DEF SumStep
        <3>3. h[s] \notin Nat
            BY <2>1
        <3> QED  BY <3>2, <3>3
    <2>3. Taken(s) \in S /\ s \ {Taken(s)} \in SUBSET S /\ s \ {Taken(s)} # s
        BY <1>0, <2>1, <2>2, TakingOne
    <2> HIDE DEF h
    <2>4. h[s \ {Taken(s)}] \in Nat
        BY <2>1, <2>3
    <2>5. c[Taken(s)] \in Nat /\ h[s] = c[Taken(s)] + h[s \ {Taken(s)}]
        BY <1>2, <2>1, <2>2, <2>3 DEF SumStep, Natural
    <2> QED  BY <2>1, <2>4, <2>5
<1> QED  BY <1>2, <1>3

\* A sum takes its elements in any order.
LEMMA SumAnyOrder ==
    ASSUME NEW S, NEW c, Natural(c, S), NEW s \in SUBSET S, NEW x \in s
    PROVE  SumOver(c, S)[s] = c[x] + SumOver(c, S)[s \ {x}]
<1> DEFINE h == SumOver(c, S)
           Differs(u) == \E y \in u : h[u] # c[y] + h[u \ {y}]
           T == {u \in SUBSET S : Differs(u)}
<1>0. IsFiniteSet(S) /\ \A y \in S : c[y] \in Nat
    BY DEF Natural
<1>1. \A u \in SUBSET S : h[u] = SumStep(c, h, u) /\ h[u] \in Nat
    BY SumSolves
<1> HIDE DEF h
<1>2. ASSUME T # {} PROVE FALSE
    <2>1. PICK u \in T : \A v \in T : v \subseteq u => v = u
        <3>1. T \subseteq SUBSET S
            OBVIOUS
        <3> HIDE DEF T
        <3> QED  BY <1>0, <1>2, <3>1, SmallestSubset
    <2>2. PICK y \in u : h[u] # c[y] + h[u \ {y}]
        BY <2>1
    <2> DEFINE z == Taken(u)
    <2>3. z \in u /\ u \in SUBSET S
        BY <1>0, <2>1, <2>2, TakingOne
    <2>4. h[u] = c[z] + h[u \ {z}]
        BY <1>1, <2>2, <2>3 DEF SumStep
    <2>5. y # z
        BY <2>2, <2>4
    <2> HIDE DEF z
    <2>6. /\ u \ {z} \in SUBSET S /\ u \ {z} # u /\ u \ {z} \subseteq u /\ y \in u \ {z}
          /\ u \ {y} \in SUBSET S /\ u \ {y} # u /\ u \ {y} \subseteq u /\ z \in u \ {y}
        BY <2>2, <2>3, <2>5
    <2>7. ~Differs(u \ {z}) /\ ~Differs(u \ {y})
        BY <2>1, <2>6
    <2> DEFINE rest == u \ {y, z}
    <2>8. /\ (u \ {z}) \ {y} = rest /\ (u \ {y}) \ {z} = rest /\ rest \in SUBSET S
        BY <2>3
    <2> HIDE DEF rest
    <2>9. h[u \ {z}] = c[y] + h[rest] /\ h[u \ {y}] = c[z] + h[rest]
        BY <2>6, <2>7, <2>8
    <2>10. c[y] \in Nat /\ c[z] \in Nat /\ h[rest] \in Nat
        BY <1>0, <1>1, <2>2, <2>3, <2>8
    <2> QED  BY <2>2, <2>4, <2>9, <2>10
<1> QED  BY <1>2 DEF h

\* A sum over a subset is read off the sum over the whole.
LEMMA SumRestricts ==
    ASSUME NEW S, NEW c, Natural(c, S), NEW U \in SUBSET S
    PROVE  SumFunctionOnSet(c, U) = SumOver(c, S)[U]
<1> DEFINE h == SumOver(c, S)
           k == SumOver(c, U)
           T == {u \in SUBSET U : k[u] # h[u]}
<1>0. IsFiniteSet(S) /\ IsFiniteSet(U) /\ Natural(c, U)
    BY FS_Subset DEF Natural
<1>1. \A u \in SUBSET S : h[u] = SumStep(c, h, u)
    BY SumSolves
<1>2. \A u \in SUBSET U : k[u] = SumStep(c, k, u)
    BY <1>0, SumSolves
<1> HIDE DEF h, k
<1>3. ASSUME T # {} PROVE FALSE
    <2>1. PICK u \in T : \A v \in T : v \subseteq u => v = u
        <3>1. T \subseteq SUBSET U
            OBVIOUS
        <3> HIDE DEF T
        <3> QED  BY <1>0, <1>3, <3>1, SmallestSubset
    <2>2. u # {}
        BY <1>1, <1>2, <2>1 DEF SumStep
    <2>3. u \ {Taken(u)} \in SUBSET U /\ u \ {Taken(u)} # u /\ u \ {Taken(u)} \subseteq u
        BY <1>0, <2>1, <2>2, TakingOne
    <2>4. k[u \ {Taken(u)}] = h[u \ {Taken(u)}]
        BY <2>1, <2>3
    <2>5. u \in SUBSET S /\ u \in SUBSET U /\ k[u] # h[u]
        BY <2>1
    <2> QED  BY <1>1, <1>2, <2>2, <2>4, <2>5 DEF SumStep
<1>4. k[U] = h[U]
    BY <1>3
<1> QED  BY <1>4, SumUnfolds DEF h, k

\* What is used of sums: they are natural numbers, nothing sums to nothing, and
\* a sum is that of a part and of the rest.
LEMMA SumNatural ==
    ASSUME NEW S, NEW c, Natural(c, S) PROVE SumFunctionOnSet(c, S) \in Nat
BY SumSolves, SumUnfolds

\* Nothing adds up to nothing.
LEMMA SumOfNone ==
    ASSUME NEW c PROVE SumFunctionOnSet(c, {}) = 0
<1>1. Natural(c, {})
    BY FS_EmptySet DEF Natural
<1> QED  BY <1>1, SumSolves, SumUnfolds DEF SumStep

\* A sum is an element of it and the sum of the others.
LEMMA SumSplits ==
    ASSUME NEW S, NEW c, Natural(c, S), NEW U \in SUBSET S
    PROVE  SumFunctionOnSet(c, S) = SumFunctionOnSet(c, U) + SumFunctionOnSet(c, S \ U)
<1> DEFINE h == SumOver(c, S)
           T == {u \in SUBSET S : U \subseteq u /\ h[u] # h[U] + h[u \ U]}
<1>0. IsFiniteSet(S) /\ \A y \in S : c[y] \in Nat
    BY DEF Natural
<1>1. \A u \in SUBSET S : h[u] \in Nat /\ \A x \in u : h[u] = c[x] + h[u \ {x}]
    BY SumSolves, SumAnyOrder
<1>2. h[{}] = 0
    BY SumSolves DEF SumStep
<1>3. h[S] = SumFunctionOnSet(c, S) /\ h[U] = SumFunctionOnSet(c, U) /\ h[S \ U] = SumFunctionOnSet(c, S \ U)
    BY SumRestricts
<1> HIDE DEF h
<1>4. ASSUME T # {} PROVE FALSE
    <2>1. PICK u \in T : \A v \in T : v \subseteq u => v = u
        <3>1. T \subseteq SUBSET S
            OBVIOUS
        <3> HIDE DEF T
        <3> QED  BY <1>0, <1>4, <3>1, SmallestSubset
    <2>2. u # U
        <3>1. U \ U = {} /\ h[U] \in Nat
            BY <1>1
        <3>2. h[U] = h[U] + h[U \ U]
            BY <1>2, <3>1
        <3> QED  BY <2>1, <3>2
    <2>3. PICK x \in u : x \notin U
        BY <2>1, <2>2
    <2>4. /\ u \ {x} \in SUBSET S /\ u \ {x} # u /\ U \subseteq u \ {x}
          /\ u \ U \in SUBSET S /\ x \in u \ U /\ (u \ U) \ {x} = (u \ {x}) \ U
          /\ (u \ {x}) \ U \in SUBSET S /\ x \in S
        BY <2>1, <2>3
    <2>5. h[u \ {x}] = h[U] + h[(u \ {x}) \ U]
        BY <2>1, <2>4
    <2>6. h[u] = c[x] + h[u \ {x}] /\ h[u \ U] = c[x] + h[(u \ {x}) \ U]
        BY <1>1, <2>1, <2>3, <2>4
    <2>7. c[x] \in Nat /\ h[U] \in Nat /\ h[(u \ {x}) \ U] \in Nat
        BY <1>0, <1>1, <2>4
    <2>8. h[u] # h[U] + h[u \ U]
        BY <2>1
    <2> QED  BY <2>5, <2>6, <2>7, <2>8
<1>5. h[S] = h[U] + h[S \ U]
    BY <1>4
<1> QED  BY <1>3, <1>5

\* Nor is a part more than the whole, nor an element.
LEMMA SumMonotone ==
    ASSUME NEW S, NEW c, Natural(c, S), NEW U \in SUBSET S
    PROVE  /\ SumFunctionOnSet(c, U) \in Nat /\ SumFunctionOnSet(c, S) \in Nat
           /\ SumFunctionOnSet(c, U) <= SumFunctionOnSet(c, S)
<1>1. Natural(c, U) /\ Natural(c, S \ U)
    BY FS_Subset, FS_Difference DEF Natural
<1>2. SumFunctionOnSet(c, U) \in Nat /\ SumFunctionOnSet(c, S) \in Nat /\ SumFunctionOnSet(c, S \ U) \in Nat
    BY <1>1, SumNatural
<1> QED  BY <1>2, SumSplits

\* The sum over one element is its number.
LEMMA SumOfOne ==
    ASSUME NEW c, NEW x, c[x] \in Nat PROVE SumFunctionOnSet(c, {x}) = c[x]
<1> DEFINE S == {x}
           h == SumOver(c, S)
<1>1. x \in S /\ S \ {x} = {} /\ {} \in SUBSET S /\ S \in SUBSET S
    OBVIOUS
<1>2. Natural(c, S)
    BY FS_Singleton DEF Natural
<1> HIDE DEF S
<1>3. \A s \in SUBSET S : h[s] = SumStep(c, h, s) /\ \A y \in s : h[s] = c[y] + h[s \ {y}]
    BY <1>2, SumSolves, SumAnyOrder
<1>4. SumFunctionOnSet(c, S) = h[S]
    BY SumUnfolds
<1> HIDE DEF h
<1>5. h[S] = c[x] + h[{}]
    BY <1>1, <1>3
<1>6. h[{}] = 0
    BY <1>1, <1>3 DEF SumStep
<1> QED  BY <1>4, <1>5, <1>6 DEF S

\* What comes of every element of a finite set is a finite set.
LEMMA FiniteImage ==
    ASSUME NEW S, IsFiniteSet(S), NEW f, DOMAIN f = S PROVE IsFiniteSet({f[x] : x \in S})
<1> DEFINE g == [x \in S |-> f[x]]
           T == {f[x] : x \in S}
<1>1. g \in Surjection(S, T)
    BY DEF Surjection
<1> HIDE DEF g, T
<1>2. IsFiniteSet(T)
    BY <1>1, FS_Surjection
<1> QED  BY <1>2 DEF T

\* A non-empty finite set of integers has a greatest element.
LEMMA GreatestOf ==
    ASSUME NEW S, IsFiniteSet(S), S # {}
    PROVE  S \subseteq Int => Greatest(S) \in S /\ \A y \in S : Greatest(S) >= y
<1> DEFINE Topped(s) == \E x \in s : \A y \in s : x >= y
           T == {s \in SUBSET S : s # {} /\ ~Topped(s)}
<1>0. ASSUME T # {} PROVE \E s \in T : \A u \in T : u \subseteq s => u = s
    <2>1. T \subseteq SUBSET S
        OBVIOUS
    <2> HIDE DEF T
    <2> QED  BY <1>0, <2>1, SmallestSubset
<1> SUFFICES ASSUME S \subseteq Int PROVE Greatest(S) \in S /\ \A y \in S : Greatest(S) >= y
    OBVIOUS
<1>1. ASSUME T # {} PROVE FALSE
    <2>1. PICK s \in T : \A u \in T : u \subseteq s => u = s
        BY <1>0, <1>1
    <2>2. PICK x \in s : x \in Int
        BY <2>1
    <2>3. s \ {x} # {}
        <3> SUFFICES ASSUME s \ {x} = {} PROVE FALSE
            OBVIOUS
        <3>1. s = {x}
            BY <2>2
        <3>2. \A y \in s : x >= y
            BY <2>2, <3>1
        <3> QED  BY <2>1, <2>2, <3>2
    <2>4. Topped(s \ {x})
        <3>1. s \ {x} \in SUBSET S /\ s \ {x} \subseteq s /\ s \ {x} # s
            BY <2>1, <2>2
        <3> QED  BY <2>1, <2>3, <3>1
    <2>5. PICK m \in s \ {x} : \A y \in s \ {x} : m >= y
        BY <2>4
    <2>6. m \in Int /\ s \subseteq Int
        BY <2>1
    <2>7. Topped(s)
        <3>1. CASE x >= m
            <4>1. \A y \in s : x >= y
                BY <2>2, <2>5, <2>6, <3>1
            <4> QED  BY <2>2, <4>1
        <3>2. CASE m >= x
            <4>1. \A y \in s : m >= y
                BY <2>5, <3>2
            <4> QED  BY <2>5, <4>1
        <3> QED  BY <2>2, <2>6, <3>1, <3>2
    <2> QED  BY <2>1, <2>7
<1>2. \E x \in S : \A y \in S : x >= y
    BY <1>1
<1> QED  BY <1>2 DEF Greatest

\* The greater of nothing and a difference.
LEMMA GreatestOfTwo ==
    ASSUME NEW n \in Int
    PROVE  Greatest({0, n}) \in Int /\ Greatest({0, n}) >= n /\ Greatest({0, n}) = IF n > 0 THEN n ELSE 0
<1>1. IsFiniteSet({0, n})
    <2>1. IsFiniteSet({0}) /\ {0, n} = {0} \cup {n}
        BY FS_Singleton
    <2> QED  BY <2>1, FS_AddElement
<1>2. {0, n} # {} /\ {0, n} \subseteq Int
    OBVIOUS
<1>3. Greatest({0, n}) \in {0, n} /\ \A y \in {0, n} : Greatest({0, n}) >= y
    BY <1>1, <1>2, GreatestOf
<1> QED  BY <1>3

\* The least of some natural numbers is one of them.
LEMMA LeastOf ==
    ASSUME NEW S, S \subseteq Nat, S # {}
    PROVE  Least(S) \in S /\ (\A y \in S : Least(S) <= y) /\ Smallest(S) = Least(S)
<1>1. \E x \in S : \A y \in S : x <= y
    BY LeastNatural
<1> QED  BY <1>1 DEF Least, Smallest

\* A sequence that grows keeps what it had.
LEMMA Appended ==
    ASSUME NEW S, NEW s \in Seq(S), NEW x \in S
    PROVE  /\ Append(s, x) \in Seq(S)
           /\ DOMAIN s = 1 .. Len(s) /\ DOMAIN Append(s, x) = 1 .. Len(s) + 1
           /\ Len(s) \in Nat /\ Len(Append(s, x)) = Len(s) + 1
           /\ \A i \in 1 .. Len(s) : Append(s, x)[i] = s[i]
           /\ Append(s, x)[Len(s) + 1] = x
OBVIOUS

-----------------------------------------------------------------------------
(* Portfolio *)

\* The tables' rows: an envelope holds opportunities of its own run and bucket,
\* and a symmetric relationship joins a pair once.
PortfolioRows ==
    /\ IsFiniteSet(relations) /\ IsFiniteSet(envelopes)
    /\ \A e \in envelopes : e.members \subseteq InBucket(CandidateRun[e.of], BucketOf[e.of])
    /\ \A x, y \in relations :
          (Pair(x) = Pair(y) /\ x.type = y.type /\ x.type \in SymmetricTypes) => x = y

PortfolioInv == PortfolioTypeOK /\ PortfolioRows

\* An empty portfolio satisfies the invariant.
LEMMA PortfolioInvInit == PortfolioInit => PortfolioInv
<1> SUFFICES ASSUME PortfolioInit PROVE PortfolioInv
    OBVIOUS
<1> QED  BY FS_EmptySet DEF PortfolioInit, PortfolioInv, PortfolioTypeOK, PortfolioRows

\* Every step of the portfolio keeps it.
LEMMA PortfolioInvNext == PortfolioInv /\ [PortfolioNext]_portfolioVars => PortfolioInv'
<1> SUFFICES ASSUME PortfolioInv, [PortfolioNext]_portfolioVars PROVE PortfolioInv'
    OBVIOUS
<1>t. PortfolioTypeOK /\ PortfolioRows
    BY DEF PortfolioInv
<1>a. Amounts \subseteq Nat
    BY PortfolioAssumption DEF PortfolioAssumption
<1>1. ASSUME NEW c \in Candidates, NEW mechanism \in Mechanisms, RecordMechanism(c, mechanism)
      PROVE  PortfolioInv'
    <2>1. PortfolioTypeOK'
        BY <1>t, <1>1 DEF RecordMechanism, PortfolioTypeOK
    <2>2. PortfolioRows'
        BY <1>t, <1>1 DEF RecordMechanism, PortfolioRows, InBucket, Qualified, RunOf, BucketAt, Pair
    <2> QED  BY <2>1, <2>2 DEF PortfolioInv
<1>2. ASSUME NEW c \in Candidates, NEW mechanism \in Mechanisms,
             NEW addressable \in Amounts, NEW expected \in Amounts, NEW recovery \in Amounts,
             Qualify(c, mechanism, addressable, expected, recovery)
      PROVE  PortfolioInv'
    <2> DEFINE row == [candidate |-> c, expected |-> expected]
    <2>1. /\ row \in Opportunity /\ opportunities \in Seq(Opportunity)
          /\ opportunities' = Append(opportunities, row)
          /\ UNCHANGED <<evidenced, relations, envelopes>>
        BY <1>t, <1>2 DEF Qualify, Opportunity, PortfolioTypeOK
    <2> HIDE DEF row
    <2>2. PortfolioTypeOK'
        BY <1>t, <2>1 DEF PortfolioTypeOK
    <2>3. \A o \in Qualified : o \in Qualified' /\ opportunities'[o] = opportunities[o]
        BY <2>1, Appended DEF Qualified
    <2>4. \A run, bucket : InBucket(run, bucket) \subseteq InBucket(run, bucket)'
        BY <2>3 DEF InBucket, RunOf, BucketAt
    <2>5. PortfolioRows'
        BY <1>t, <2>1, <2>4 DEF PortfolioRows, Pair
    <2> QED  BY <2>2, <2>5 DEF PortfolioInv
<1>3. ASSUME NEW l \in Qualified, NEW r \in Qualified, NEW type \in RelationTypes,
             NEW overlap \in IF type = "OVERLAPPING" THEN Amounts ELSE {0}, Relate(l, r, type, overlap)
      PROVE  PortfolioInv'
    <2> DEFINE row == [left |-> l, right |-> r, type |-> type, overlap |-> overlap]
    <2>1. l \in Nat /\ r \in Nat
        BY <1>t DEF PortfolioTypeOK, Qualified
    <2>2. row \in Relation
        BY <2>1 DEF Relation
    <2>3. relations' = relations \cup {row} /\ UNCHANGED <<evidenced, opportunities, envelopes>>
        BY <1>3 DEF Relate
    <2>4. PortfolioTypeOK'
        BY <1>t, <2>2, <2>3 DEF PortfolioTypeOK
    <2>5. IsFiniteSet(relations')
        BY <1>t, <2>3, FS_AddElement DEF PortfolioRows
    <2>6. ASSUME NEW x \in relations', NEW y \in relations',
                 Pair(x) = Pair(y), x.type = y.type, x.type \in SymmetricTypes
          PROVE  x = y
        <3>1. Pair(row) = {l, r} /\ row.type = type
            BY DEF Pair
        <3> HIDE DEF row
        <3>2. \A z \in relations : z.type = type /\ type \in SymmetricTypes => Pair(z) # {l, r}
            BY <1>3 DEF Relate
        <3> QED  BY <1>t, <2>3, <2>6, <3>1, <3>2 DEF PortfolioRows
    <2>7. PortfolioRows'
        BY <1>t, <2>3, <2>5, <2>6 DEF PortfolioRows, InBucket, Qualified, RunOf, BucketAt, Pair
    <2> QED  BY <2>4, <2>7 DEF PortfolioInv
<1>4. ASSUME NEW key \in EnvelopeKeys, NEW c \in Candidates, NEW cap \in Amounts,
             NEW members \in SUBSET Qualified, CreateEnvelope(key, c, cap, members)
      PROVE  PortfolioInv'
    <2> DEFINE row == [key |-> key, of |-> c, cap |-> cap, members |-> members]
    <2>1. Qualified \subseteq Nat
        BY <1>t DEF PortfolioTypeOK, Qualified
    <2>2. row \in Envelope
        BY <2>1 DEF Envelope
    <2>3. envelopes' = envelopes \cup {row} /\ UNCHANGED <<evidenced, opportunities, relations>>
        BY <1>4 DEF CreateEnvelope
    <2>4. PortfolioTypeOK'
        BY <1>t, <2>2, <2>3 DEF PortfolioTypeOK
    <2>5. IsFiniteSet(envelopes')
        BY <1>t, <2>3, FS_AddElement DEF PortfolioRows
    <2>6. members \subseteq InBucket(CandidateRun[c], BucketOf[c])
        BY <1>4 DEF CreateEnvelope, InBucket
    <2>7. \A run, bucket : InBucket(run, bucket)' = InBucket(run, bucket)
        BY <2>3 DEF InBucket, Qualified, RunOf, BucketAt
    <2>8. PortfolioRows'
        BY <1>t, <2>3, <2>5, <2>6, <2>7 DEF PortfolioRows, Pair
    <2> QED  BY <2>4, <2>8 DEF PortfolioInv
<1>5. CASE UNCHANGED portfolioVars
    BY <1>t, <1>5 DEF portfolioVars, PortfolioInv, PortfolioTypeOK, PortfolioRows, InBucket, Qualified,
       RunOf, BucketAt, Pair
<1> QED  BY <1>1, <1>2, <1>3, <1>4, <1>5 DEF PortfolioNext

\* What a bucket's deduction is at least: what its pairs would count twice, and
\* what each of its envelopes leaves over.
LEMMA DeductionBounds ==
    ASSUME PortfolioInv, NEW run, NEW bucket
    PROVE  LET opps == InBucket(run, bucket)
               twice == SumFunctionOnSet(Twice, Within(opps))
           IN /\ Natural(Expected, opps) /\ Natural(Twice, Within(opps))
              /\ Deduction(run, bucket) \in Int /\ Deduction(run, bucket) >= twice
              /\ \A e \in envelopes : CandidateRun[e.of] = run /\ BucketOf[e.of] = bucket =>
                    /\ Natural(Expected, e.members) /\ e.cap \in Nat /\ e.members \subseteq opps
                    /\ Deduction(run, bucket) >= Gross(e.members) - e.cap
<1> DEFINE opps == InBucket(run, bucket)
           twice == SumFunctionOnSet(Twice, Within(opps))
           here == {e \in envelopes : CandidateRun[e.of] = run /\ BucketOf[e.of] = bucket}
           excesses == {Excess(e) : e \in here}
<1>t. PortfolioTypeOK /\ PortfolioRows
    BY DEF PortfolioInv
<1>a. Amounts \subseteq Nat
    BY PortfolioAssumption DEF PortfolioAssumption
<1>1. Natural(Expected, Qualified)
    <2>1. Qualified = 1 .. Len(opportunities) /\ Len(opportunities) \in Nat
        BY <1>t DEF PortfolioTypeOK, Qualified
    <2>2. IsFiniteSet(Qualified)
        BY <2>1, FS_Interval
    <2>3. \A o \in Qualified : Expected[o] \in Nat
        <3> SUFFICES ASSUME NEW o \in Qualified PROVE Expected[o] \in Nat
            OBVIOUS
        <3>1. opportunities[o] \in Opportunity
            BY <1>t DEF PortfolioTypeOK, Qualified
        <3>2. opportunities[o].expected \in Amounts
            BY <3>1 DEF Opportunity
        <3>3. Expected[o] = opportunities[o].expected
            BY DEF Expected
        <3> QED  BY <1>a, <3>2, <3>3
    <2> QED  BY <2>2, <2>3 DEF Natural
<1>2. \A U \in SUBSET Qualified : Natural(Expected, U) /\ Gross(U) \in Nat
    <2>1. \A U \in SUBSET Qualified : Natural(Expected, U)
        BY <1>1, FS_Subset DEF Natural
    <2> QED  BY <2>1, SumNatural DEF Gross
<1>3. opps \in SUBSET Qualified
    BY DEF InBucket
<1>4. Natural(Twice, Within(opps)) /\ twice \in Nat
    <2>1. IsFiniteSet(Within(opps))
        BY <1>t, FS_Subset DEF Within, PortfolioRows
    <2>2. ASSUME NEW rel \in Within(opps) PROVE Twice[rel] \in Nat
        <3>1. rel \in relations /\ rel \in Relation /\ rel.left \in Qualified /\ rel.right \in Qualified
            BY <1>t, <1>3 DEF Within, Pair, PortfolioTypeOK
        <3>2. Expected[rel.left] \in Nat /\ Expected[rel.right] \in Nat
            BY <1>1, <3>1 DEF Natural
        <3>r. rel.overlap \in Amounts \cup {0}
            BY <3>1 DEF Relation
        <3>o. rel.overlap \in Nat
            <4>1. Amounts \cup {0} \subseteq Nat
                BY <1>a
            <4> QED  BY <3>r, <4>1, Zenon
        <3>3. /\ Least({rel.overlap, Expected[rel.left], Expected[rel.right]}) \in Nat
              /\ Least({Expected[rel.left], Expected[rel.right]}) \in Nat
            BY <3>2, <3>o, LeastOf
        <3> QED  BY <3>1, <3>3 DEF Twice
    <2>3. Natural(Twice, Within(opps))
        BY <2>1, <2>2 DEF Natural
    <2> QED  BY <2>3, SumNatural
<1>5. ASSUME NEW e \in here
      PROVE  /\ Natural(Expected, e.members) /\ e.cap \in Nat /\ e.members \subseteq opps
             /\ Gross(e.members) \in Nat
             /\ Excess(e) \in Int /\ Excess(e) >= Gross(e.members) - e.cap
    <2>1. e.members \subseteq opps /\ e.cap \in Nat
        BY <1>t, <1>a DEF PortfolioTypeOK, PortfolioRows, Envelope
    <2>2. Natural(Expected, e.members) /\ Gross(e.members) \in Nat
        BY <1>2, <1>3, <2>1
    <2>3. Excess(e) \in Int /\ Excess(e) >= Gross(e.members) - e.cap
        <3>1. e.cap \in Int /\ Gross(e.members) - e.cap \in Int
            BY <2>1, <2>2
        <3>2. Excess(e) = Greatest({0, Gross(e.members) - e.cap})
            BY DEF Excess
        <3> QED  BY <3>1, <3>2, GreatestOfTwo, SMTT(30)
    <2> QED  BY <2>1, <2>2, <2>3
<1>6. IsFiniteSet({twice} \cup excesses)
    <2> DEFINE f == [e \in here |-> Excess(e)]
    <2>1. IsFiniteSet(here)
        BY <1>t, FS_Subset DEF PortfolioRows
    <2>2. DOMAIN f = here /\ excesses = {f[e] : e \in here}
        OBVIOUS
    <2> HIDE DEF f, here, excesses, twice
    <2>3. IsFiniteSet(excesses)
        BY <2>1, <2>2, FiniteImage
    <2>4. {twice} \cup excesses = excesses \cup {twice}
        OBVIOUS
    <2> QED  BY <2>3, <2>4, FS_AddElement
<1>7. {twice} \cup excesses \subseteq Int
    BY <1>4, <1>5
<1>8. Deduction(run, bucket) = Greatest({twice} \cup excesses)
    BY DEF Deduction
<1>9. /\ Deduction(run, bucket) \in {twice} \cup excesses
      /\ \A y \in {twice} \cup excesses : Deduction(run, bucket) >= y
    <2> HIDE DEF excesses, twice
    <2>1. {twice} \cup excesses # {}
        OBVIOUS
    <2> QED  BY <1>6, <1>7, <1>8, <2>1, GreatestOf
<1>10. Deduction(run, bucket) \in Int /\ Deduction(run, bucket) >= twice
    <2> HIDE DEF excesses, twice
    <2> QED  BY <1>7, <1>9
<1>11. ASSUME NEW e \in here PROVE Deduction(run, bucket) >= Gross(e.members) - e.cap
    <2>1. Deduction(run, bucket) >= Excess(e)
        BY <1>9
    <2> QED  BY <1>5, <1>10, <2>1
<1>12. Natural(Expected, opps)
    BY <1>2, <1>3
<1> QED  BY <1>4, <1>5, <1>10, <1>11, <1>12

\* Of two opportunities' estimates and an overlap, what counts twice is no more
\* than one of the estimates.
LEMMA TwiceAtMost ==
    ASSUME PortfolioInv, NEW rel \in relations, Pair(rel) \subseteq Qualified
    PROVE  Twice[rel] \in Nat /\ Expected[rel.left] \in Nat /\ Twice[rel] <= Expected[rel.left]
<1>t. PortfolioTypeOK /\ Amounts \subseteq Nat
    BY PortfolioAssumption DEF PortfolioAssumption, PortfolioInv
<1>1. \A o \in Qualified : Expected[o] \in Nat
    <2> SUFFICES ASSUME NEW o \in Qualified PROVE Expected[o] \in Nat
        OBVIOUS
    <2>1. opportunities[o] \in Opportunity
        BY <1>t DEF PortfolioTypeOK, Qualified
    <2>2. opportunities[o].expected \in Amounts /\ Expected[o] = opportunities[o].expected
        BY <2>1 DEF Opportunity, Expected
    <2> QED  BY <1>t, <2>2
<1>2. Expected[rel.left] \in Nat /\ Expected[rel.right] \in Nat
    BY <1>1 DEF Pair
<1>3. rel.overlap \in Amounts \cup {0}
    BY <1>t DEF PortfolioTypeOK, Relation
<1>4. rel.overlap \in Nat
    <2>1. Amounts \cup {0} \subseteq Nat
        BY <1>t
    <2> QED  BY <1>3, <2>1, Zenon
<1>5. LET s == {rel.overlap, Expected[rel.left], Expected[rel.right]}
      IN  Least(s) \in Nat /\ Least(s) <= Expected[rel.left]
    BY <1>2, <1>4, LeastOf
<1>6. LET s == {Expected[rel.left], Expected[rel.right]}
      IN  Least(s) \in Nat /\ Least(s) <= Expected[rel.left]
    BY <1>2, LeastOf
<1> QED  BY <1>2, <1>5, <1>6 DEF Twice

\* A bucket is never worth more than any one of its envelopes allows (economic/
\* portfolio.py:78-85): the deduction is at least what the envelope's members
\* are worth beyond its cap.
LEMMA EnvelopesCapHolds == PortfolioInv => EnvelopesCap
<1> SUFFICES ASSUME PortfolioInv, NEW e \in envelopes
             PROVE  Net(CandidateRun[e.of], BucketOf[e.of])
                      <= e.cap + Gross(InBucket(CandidateRun[e.of], BucketOf[e.of]) \ e.members)
    BY DEF EnvelopesCap
<1> DEFINE run == CandidateRun[e.of]
           bucket == BucketOf[e.of]
           opps == InBucket(run, bucket)
<1>1. /\ Natural(Expected, opps) /\ Natural(Expected, e.members) /\ e.cap \in Nat /\ e.members \subseteq opps
      /\ Deduction(run, bucket) \in Int /\ Deduction(run, bucket) >= Gross(e.members) - e.cap
    BY DeductionBounds
<1>2. Natural(Expected, opps \ e.members)
    BY <1>1, FS_Difference DEF Natural
<1>3. Gross(opps) \in Nat /\ Gross(e.members) \in Nat /\ Gross(opps \ e.members) \in Nat
    BY <1>1, <1>2, SumNatural DEF Gross
<1>4. Gross(opps) = Gross(e.members) + Gross(opps \ e.members)
    BY <1>1, SumSplits DEF Gross
<1>5. Net(run, bucket) = IF Gross(opps) - Deduction(run, bucket) > 0
                         THEN Gross(opps) - Deduction(run, bucket) ELSE 0
    <2> DEFINE d == Gross(opps) - Deduction(run, bucket)
    <2>1. d \in Int
        BY <1>1, <1>3
    <2>2. Net(run, bucket) = Greatest({0, d})
        BY DEF Net
    <2> HIDE DEF d
    <2>3. Net(run, bucket) = IF d > 0 THEN d ELSE 0
        BY <2>1, <2>2, GreatestOfTwo
    <2> QED  BY <2>3 DEF d
<1> HIDE DEF run, bucket, opps
<1>6. Net(run, bucket) <= e.cap + Gross(opps \ e.members)
    BY <1>1, <1>3, <1>4, <1>5
<1> QED  BY <1>6 DEF run, bucket, opps

\* A related pair is counted once in its bucket (economic/portfolio.py:63-76).
LEMMA PairsCountOnceHolds == PortfolioInv => PairsCountOnce
<1> SUFFICES ASSUME PortfolioInv PROVE PairsCountOnce
    OBVIOUS
<1>1. ASSUME NEW rel \in relations,
             rel \in Within(InBucket(RunOf(rel.left), BucketAt(rel.left)))
      PROVE  Net(RunOf(rel.left), BucketAt(rel.left))
               <= Gross(InBucket(RunOf(rel.left), BucketAt(rel.left))) - Twice[rel]
    <2> DEFINE run == RunOf(rel.left)
               bucket == BucketAt(rel.left)
               opps == InBucket(run, bucket)
               twice == SumFunctionOnSet(Twice, Within(opps))
    <2>1. /\ Natural(Expected, opps) /\ Natural(Twice, Within(opps))
          /\ Deduction(run, bucket) \in Int /\ Deduction(run, bucket) >= twice
        BY DeductionBounds
    <2>2. rel \in Within(opps) /\ rel.left \in opps /\ Pair(rel) \subseteq Qualified
        BY <1>1 DEF Within, Pair, InBucket
    <2>3. Twice[rel] \in Nat /\ Expected[rel.left] \in Nat /\ Twice[rel] <= Expected[rel.left]
        BY <2>2, TwiceAtMost
    <2>4. Net(run, bucket) = Greatest({0, Gross(opps) - Deduction(run, bucket)})
        BY DEF Net
    <2> HIDE DEF run, bucket, opps
    <2>5. twice \in Nat /\ Twice[rel] <= twice
        <3>1. {rel} \in SUBSET Within(opps)
            BY <2>2
        <3>2. SumFunctionOnSet(Twice, {rel}) = Twice[rel]
            BY <2>3, SumOfOne
        <3> QED  BY <2>1, <3>1, <3>2, SumMonotone
    <2>6. Gross(opps) \in Nat /\ Expected[rel.left] <= Gross(opps)
        <3>1. {rel.left} \in SUBSET opps
            BY <2>2
        <3>2. SumFunctionOnSet(Expected, {rel.left}) = Expected[rel.left]
            BY <2>3, SumOfOne
        <3> QED  BY <2>1, <3>1, <3>2, SumMonotone DEF Gross
    <2> HIDE DEF twice
    <2> DEFINE d == Gross(opps) - Deduction(run, bucket)
    <2>7. d \in Int /\ d <= Gross(opps) - Twice[rel]
        BY <2>1, <2>3, <2>5, <2>6
    <2>8. Net(run, bucket) = Greatest({0, d})
        BY <2>4
    <2> HIDE DEF d
    <2>9. Net(run, bucket) = IF d > 0 THEN d ELSE 0
        BY <2>7, <2>8, GreatestOfTwo
    <2>10. Net(run, bucket) <= Gross(opps) - Twice[rel]
        BY <2>3, <2>6, <2>7, <2>9
    <2> QED  BY <2>10 DEF run, bucket, opps
<1>2. \A x, y \in relations :
          (Pair(x) = Pair(y) /\ x.type = y.type /\ x.type \in SymmetricTypes) => x = y
    BY DEF PortfolioInv, PortfolioRows
<1> QED  BY <1>1, <1>2 DEF PairsCountOnce

\* The portfolio's tables keep their shape, for any candidates and amounts.
THEOREM PortfolioTypeCorrect == PortfolioSpec => []PortfolioTypeOK
<1>1. PortfolioSpec => []PortfolioInv
    BY PortfolioInvInit, PortfolioInvNext, PTL DEF PortfolioSpec
<1>2. PortfolioInv => PortfolioTypeOK
    BY DEF PortfolioInv
<1> QED  BY <1>1, <1>2, PTL

\* Whatever was qualified, related and put under envelopes, in whatever order,
\* no envelope and no related pair counts twice in a bucket.
THEOREM PortfolioCountsOnce == PortfolioSpec => [](EnvelopesCap /\ PairsCountOnce)
<1>1. PortfolioSpec => []PortfolioInv
    BY PortfolioInvInit, PortfolioInvNext, PTL DEF PortfolioSpec
<1> QED  BY <1>1, EnvelopesCapHolds, PairsCountOnceHolds, PTL

-----------------------------------------------------------------------------
(* Benefits *)

\* The register's rows: relationships join benefit legs, a pair once by a type
\* that has no order, and a completed action has been through completion.
BenefitRows ==
    /\ IsFiniteSet(related)
    /\ \A rel \in related : rel.left \in DOMAIN legs /\ rel.right \in DOMAIN legs
    /\ \A x, y \in related :
          ({x.left, x.right} = {y.left, y.right} /\ x.type = y.type /\ x.type \in Unordered) => x = y
    /\ \A a \in DOMAIN actions : actions[a].status = "COMPLETED" => "COMPLETED" \in actions[a].progress

\* What BenefitsAreEarned says of one leg.
Earned(b) ==
    /\ legs[b].action \in DOMAIN actions
    /\ "COMPLETED" \in actions[legs[b].action].progress
    /\ actions[legs[b].action].opportunity = legs[b].opportunity
    /\ Verdicts(b) = {} => legs[b].status = "REALISED"
    /\ \A last \in Verdicts(b) : (\A n \in Verdicts(b) : n <= last) =>
          legs[b].status =
             IF "retention" \in DOMAIN legs[b].assessed[last] THEN "RETAINED"
             ELSE IF legs[b].attribution \in Unattributed THEN "REALISED" ELSE "VERIFIED"

BenefitInv == BenefitTypeOK /\ BenefitRows /\ BenefitsAreEarned

\* No benefit has been recorded to begin with.
LEMMA BenefitInvInit == BenefitInit => BenefitInv
<1> SUFFICES ASSUME BenefitInit PROVE BenefitInv
    OBVIOUS
<1>1. legs = <<>> /\ actions = <<>> /\ related = {} /\ decided = {}
    BY DEF BenefitInit
<1>2. DOMAIN legs = {} /\ DOMAIN actions = {} /\ legs \in Seq(Leg) /\ actions \in Seq(Action)
    BY <1>1
<1> QED  BY <1>1, <1>2, FS_EmptySet DEF BenefitInv, BenefitTypeOK, BenefitRows, BenefitsAreEarned

\* One more assessment of a leg: what it claims is still what its record earns.
LEMMA AssessedLeg ==
    ASSUME BenefitInv, NEW b \in DOMAIN legs, NEW leg \in Leg, NEW x \in Assessment,
           legs' = [legs EXCEPT ![b] = leg], UNCHANGED <<decided, actions, related>>,
           leg.action = legs[b].action, leg.opportunity = legs[b].opportunity,
           leg.assessed = Append(legs[b].assessed, x),
           x = [retention |-> "TOO_EARLY"] =>
              leg.status = legs[b].status /\ leg.attribution = legs[b].attribution,
           x # [retention |-> "TOO_EARLY"] =>
              leg.status = IF "retention" \in DOMAIN x THEN "RETAINED"
                           ELSE IF leg.attribution \in Unattributed THEN "REALISED" ELSE "VERIFIED"
    PROVE  BenefitInv'
<1>t. BenefitTypeOK /\ BenefitRows /\ BenefitsAreEarned
    BY DEF BenefitInv
<1>1. /\ legs \in Seq(Leg) /\ legs' \in Seq(Leg) /\ DOMAIN legs' = DOMAIN legs /\ legs'[b] = leg
      /\ \A d \in DOMAIN legs : d # b => legs'[d] = legs[d]
    BY <1>t DEF BenefitTypeOK
<1>2. BenefitTypeOK' /\ BenefitRows'
    BY <1>t, <1>1 DEF BenefitTypeOK, BenefitRows
<1>3. ASSUME NEW d \in DOMAIN legs', d # b
      PROVE  /\ legs'[d] = legs[d] /\ d \in DOMAIN legs /\ Verdicts(d)' = Verdicts(d)
    BY <1>1, <1>3 DEF Verdicts
<1> DEFINE s == legs[b].assessed
<1>4. s \in Seq(Assessment)
    <2>1. legs[b] \in Leg
        BY <1>1
    <2> QED  BY <2>1 DEF Leg
<1>5. /\ Len(s) \in Nat /\ DOMAIN s = 1 .. Len(s) /\ DOMAIN Append(s, x) = 1 .. Len(s) + 1
      /\ Append(s, x)[Len(s) + 1] = x /\ \A i \in 1 .. Len(s) : Append(s, x)[i] = s[i]
    <2> HIDE DEF s
    <2> QED  BY <1>4, Appended
<1>6. Verdicts(b)' = IF x = [retention |-> "TOO_EARLY"] THEN Verdicts(b)
                    ELSE Verdicts(b) \cup {Len(s) + 1}
    <2> DEFINE early == [retention |-> "TOO_EARLY"]
    <2>1. Verdicts(b)' = {n \in DOMAIN Append(s, x) : Append(s, x)[n] # early}
        BY <1>1 DEF Verdicts
    <2>2. Verdicts(b) = {n \in DOMAIN s : s[n] # early}
        BY DEF Verdicts
    <2>3. 1 .. Len(s) + 1 = (1 .. Len(s)) \cup {Len(s) + 1}
        BY <1>5
    <2> HIDE DEF s, early
    <2>4. DOMAIN Append(s, x) = DOMAIN s \cup {Len(s) + 1} /\ Len(s) + 1 \notin DOMAIN s
        BY <1>5, <2>3
    <2>5. \A n \in DOMAIN s : Append(s, x)[n] = s[n]
        BY <1>5
    <2>6. Append(s, x)[Len(s) + 1] = x
        BY <1>5
    <2>7. \A n : n \in Verdicts(b)' <=>
                    ((n \in DOMAIN s /\ s[n] # early) \/ (n = Len(s) + 1 /\ x # early))
        <3>1. \A n : n \in Verdicts(b)' <=> n \in DOMAIN Append(s, x) /\ Append(s, x)[n] # early
            BY <2>1, Zenon
        <3>2. \A n : n \in DOMAIN Append(s, x) <=> n \in DOMAIN s \/ n = Len(s) + 1
            BY <2>4
        <3> QED  BY <2>4, <2>5, <2>6, <3>1, <3>2
    <2>8. \A n : n \in Verdicts(b) <=> n \in DOMAIN s /\ s[n] # early
        BY <2>2, Zenon
    <2>9. CASE x = early
        <3>1. \A n : n \in Verdicts(b)' <=> n \in Verdicts(b)
            BY <2>7, <2>8, <2>9, Zenon
        <3>2. Verdicts(b)' = Verdicts(b)
            BY <3>1
        <3> QED  BY <2>9, <3>2 DEF early
    <2>10. CASE x # early
        <3>1. \A n : n \in Verdicts(b)' <=> n \in Verdicts(b) \/ n = Len(s) + 1
            BY <2>7, <2>8, <2>10, Zenon
        <3>2. Verdicts(b)' = Verdicts(b) \cup {Len(s) + 1}
            BY <3>1
        <3> QED  BY <2>10, <3>2 DEF early
    <2> QED  BY <2>9, <2>10
<1>7. Verdicts(b) \subseteq 1 .. Len(s)
    BY <1>5 DEF Verdicts
<1>8. /\ leg.action \in DOMAIN actions /\ "COMPLETED" \in actions[leg.action].progress
      /\ actions[leg.action].opportunity = leg.opportunity
    BY <1>t DEF BenefitsAreEarned
<1>c. \A d \in DOMAIN legs' : d # b => Earned(d)'
    BY <1>t, <1>2, <1>3 DEF BenefitsAreEarned, Earned
<1>9. CASE x = [retention |-> "TOO_EARLY"]
    <2>1. Verdicts(b)' = Verdicts(b) /\ leg.status = legs[b].status /\ leg.attribution = legs[b].attribution
        BY <1>6, <1>9
    <2>2. \A n \in Verdicts(b) : leg.assessed[n] = legs[b].assessed[n]
        BY <1>5, <1>7
    <2>3. Earned(b)'
        <3>1. Earned(b)
            BY <1>t DEF BenefitsAreEarned, Earned
        <3>2. Verdicts(b)' = {} => leg.status = "REALISED"
            BY <2>1, <3>1 DEF Earned
        <3>3. ASSUME NEW last \in Verdicts(b)', \A n \in Verdicts(b)' : n <= last
              PROVE  leg.status = IF "retention" \in DOMAIN leg.assessed[last] THEN "RETAINED"
                                  ELSE IF leg.attribution \in Unattributed THEN "REALISED" ELSE "VERIFIED"
            BY <2>1, <2>2, <3>1, <3>3 DEF Earned
        <3> QED  BY <1>1, <1>8, <3>2, <3>3 DEF Earned
    <2>4. BenefitsAreEarned'
        BY <1>1, <1>c, <2>3 DEF BenefitsAreEarned, Earned
    <2> QED  BY <1>2, <2>4 DEF BenefitInv
<1>10. CASE x # [retention |-> "TOO_EARLY"]
    <2>1. Verdicts(b)' = Verdicts(b) \cup {Len(s) + 1}
        BY <1>6, <1>10
    <2>2. ASSUME NEW last \in Verdicts(b)', \A n \in Verdicts(b)' : n <= last PROVE last = Len(s) + 1
        BY <1>5, <1>7, <2>1, <2>2
    <2>3. leg.assessed[Len(s) + 1] = x
        BY <1>5
    <2>4. Verdicts(b)' # {}
        BY <2>1
    <2>5. Earned(b)'
        <3> HIDE DEF s
        <3>1. \A last \in Verdicts(b)' : (\A n \in Verdicts(b)' : n <= last) => leg.assessed[last] = x
            BY <2>2, <2>3
        <3> QED  BY <1>1, <1>8, <1>10, <2>4, <3>1 DEF Earned
    <2>6. BenefitsAreEarned'
        BY <1>1, <1>c, <2>5 DEF BenefitsAreEarned, Earned
    <2> QED  BY <1>2, <2>6 DEF BenefitInv
<1> QED  BY <1>9, <1>10

\* A step that leaves the legs alone, and every action where it is or further
\* on, leaves what the legs claim earned.
LEMMA StillEarned ==
    ASSUME BenefitInv, UNCHANGED legs,
           \A a \in DOMAIN actions : /\ a \in DOMAIN actions'
                                     /\ actions'[a].opportunity = actions[a].opportunity
                                     /\ actions[a].progress \subseteq actions'[a].progress
    PROVE  BenefitsAreEarned'
<1>1. \A b \in DOMAIN legs : Earned(b)
    BY DEF BenefitInv, BenefitsAreEarned, Earned
<1>2. \A b \in DOMAIN legs : Verdicts(b)' = Verdicts(b)
    BY DEF Verdicts
<1>3. ASSUME NEW b \in DOMAIN legs PROVE Earned(b)'
    BY <1>1, <1>2 DEF Earned
<1> QED  BY <1>3 DEF BenefitsAreEarned, Earned

\* Every step of the benefit register keeps its invariant.
LEMMA BenefitInvNext == BenefitInv /\ [BenefitNext]_benefitVars => BenefitInv'
<1> SUFFICES ASSUME BenefitInv, [BenefitNext]_benefitVars PROVE BenefitInv'
    OBVIOUS
<1>t. BenefitTypeOK /\ BenefitRows /\ BenefitsAreEarned
    BY DEF BenefitInv
<1>s. actions \in Seq(Action) /\ legs \in Seq(Leg) /\ related \subseteq Related /\ decided \subseteq Supported
    BY <1>t DEF BenefitTypeOK
<1>1. ASSUME NEW o \in Supported, RecordDecision(o) PROVE BenefitInv'
    <2>1. decided' = decided \cup {o} /\ UNCHANGED <<actions, legs, related>>
        BY <1>1 DEF RecordDecision
    <2>2. BenefitTypeOK' /\ BenefitRows'
        BY <1>t, <2>1 DEF BenefitTypeOK, BenefitRows
    <2> QED  BY <2>1, <2>2, StillEarned DEF BenefitInv
<1>2. ASSUME NEW o \in Supported, CreateAction(o) PROVE BenefitInv'
    <2> DEFINE row == [opportunity |-> o, status |-> "OPEN", progress |-> {}]
    <2>1. actions' = Append(actions, row) /\ UNCHANGED <<decided, legs, related>>
        BY <1>2 DEF CreateAction
    <2>2. row \in Action /\ row.status = "OPEN"
        BY DEF Action
    <2> HIDE DEF row
    <2>3. /\ actions' \in Seq(Action) /\ DOMAIN actions = 1 .. Len(actions)
          /\ DOMAIN actions' = 1 .. Len(actions) + 1 /\ Len(actions) \in Nat
          /\ \A a \in DOMAIN actions : actions'[a] = actions[a]
          /\ actions'[Len(actions) + 1] = row
        BY <1>s, <2>1, <2>2, Appended
    <2>4. BenefitTypeOK'
        BY <1>t, <2>1, <2>3 DEF BenefitTypeOK
    <2>5. \A a \in DOMAIN actions' : actions'[a].status = "COMPLETED" => "COMPLETED" \in actions'[a].progress
        <3> SUFFICES ASSUME NEW a \in DOMAIN actions', actions'[a].status = "COMPLETED"
                     PROVE  "COMPLETED" \in actions'[a].progress
            OBVIOUS
        <3>1. a \in DOMAIN actions
            BY <2>2, <2>3
        <3> QED  BY <1>t, <2>3, <3>1 DEF BenefitRows
    <2>6. BenefitRows'
        BY <1>t, <2>1, <2>5 DEF BenefitRows
    <2>7. BenefitsAreEarned'
        BY <2>1, <2>3, StillEarned
    <2> QED  BY <2>4, <2>6, <2>7 DEF BenefitInv
<1>3. ASSUME NEW a \in DOMAIN actions, NEW state \in ProgressStates, UpdateProgress(a, state)
      PROVE  BenefitInv'
    <2> DEFINE row == [actions[a] EXCEPT !.status = state, !.progress = @ \cup {state}]
    <2>1. actions[a] \in Action
        BY <1>s
    <2>2. /\ row \in Action /\ row.opportunity = actions[a].opportunity /\ row.status = state
          /\ row.progress = actions[a].progress \cup {state}
        BY <2>1 DEF Action
    <2>3. actions' = [actions EXCEPT ![a] = row] /\ UNCHANGED <<decided, legs, related>>
        BY <1>3 DEF UpdateProgress
    <2> HIDE DEF row
    <2>4. /\ actions' \in Seq(Action) /\ DOMAIN actions' = DOMAIN actions /\ actions'[a] = row
          /\ \A x \in DOMAIN actions : x # a => actions'[x] = actions[x]
        BY <1>s, <2>2, <2>3
    <2>5. BenefitTypeOK'
        BY <1>t, <2>3, <2>4 DEF BenefitTypeOK
    <2>6. BenefitRows'
        BY <1>t, <2>2, <2>3, <2>4 DEF BenefitRows
    <2>7. BenefitsAreEarned'
        BY <2>2, <2>3, <2>4, StillEarned
    <2> QED  BY <2>5, <2>6, <2>7 DEF BenefitInv
<1>4. ASSUME NEW o \in Supported, NEW a \in DOMAIN actions, NEW net \in NetAmounts,
             NEW attribution \in Attributions, RecordBenefit(o, a, net, attribution)
      PROVE  BenefitInv'
    <2> DEFINE leg == [action |-> a, opportunity |-> o, net |-> net, attribution |-> attribution,
                       status |-> "REALISED", assessed |-> <<>>]
    <2>1. /\ actions[a].opportunity = o /\ actions[a].status = "COMPLETED" /\ net >= 0
          /\ legs' = Append(legs, leg) /\ UNCHANGED <<decided, actions, related>>
        BY <1>4 DEF RecordBenefit
    <2>2. leg \in Leg
        <3>1. net \in Nat
            BY <2>1, BenefitAssumption DEF BenefitAssumption
        <3>2. a \in Nat
            BY <1>s
        <3> QED  BY <3>1, <3>2 DEF Leg
    <2>3. /\ leg.action = a /\ leg.opportunity = o /\ leg.status = "REALISED"
          /\ DOMAIN leg.assessed = {}
        OBVIOUS
    <2> HIDE DEF leg
    <2>4. /\ legs' \in Seq(Leg) /\ DOMAIN legs = 1 .. Len(legs) /\ DOMAIN legs' = 1 .. Len(legs) + 1
          /\ Len(legs) \in Nat /\ \A b \in DOMAIN legs : legs'[b] = legs[b]
          /\ legs'[Len(legs) + 1] = leg
        BY <1>s, <2>1, <2>2, Appended
    <2>5. BenefitTypeOK' /\ BenefitRows'
        <3>1. DOMAIN legs \subseteq DOMAIN legs'
            BY <2>4
        <3>2. BenefitRows'
            BY <1>t, <2>1, <3>1 DEF BenefitRows
        <3> QED  BY <1>t, <2>1, <2>4, <3>2 DEF BenefitTypeOK
    <2>6. ASSUME NEW b \in DOMAIN legs' PROVE Earned(b)'
        <3>1. CASE b \in DOMAIN legs
            <4>1. Earned(b) /\ Verdicts(b)' = Verdicts(b)
                BY <1>t, <2>4, <3>1 DEF BenefitsAreEarned, Earned, Verdicts
            <4> QED  BY <2>1, <2>4, <3>1, <4>1 DEF Earned
        <3>2. CASE b = Len(legs) + 1
            <4>1. legs'[b] = leg /\ Verdicts(b)' = {}
                BY <2>3, <2>4, <3>2 DEF Verdicts
            <4>2. "COMPLETED" \in actions[a].progress
                BY <1>t, <2>1 DEF BenefitRows
            <4> QED  BY <2>1, <2>3, <4>1, <4>2 DEF Earned
        <3> QED  BY <2>4, <3>1, <3>2
    <2>7. BenefitsAreEarned'
        BY <2>6 DEF BenefitsAreEarned, Earned
    <2> QED  BY <2>5, <2>7 DEF BenefitInv
<1>5. ASSUME NEW b \in DOMAIN legs, NEW given \in Attributions \cup {"AS_IT_IS"}, VerifyBenefit(b, given)
      PROVE  BenefitInv'
    <2> DEFINE attribution == IF given = "AS_IT_IS" THEN legs[b].attribution ELSE given
               x == [verified |-> given]
               leg == [legs[b] EXCEPT
                          !.attribution = attribution,
                          !.status = IF attribution \in Unattributed THEN "REALISED" ELSE "VERIFIED",
                          !.assessed = Append(@, x)]
    <2>1. legs[b] \in Leg
        BY <1>s
    <2>2. x \in Assessment /\ "retention" \notin DOMAIN x /\ x # [retention |-> "TOO_EARLY"]
        <3>1. DOMAIN x = {"verified"} /\ DOMAIN [retention |-> "TOO_EARLY"] = {"retention"}
            OBVIOUS
        <3>2. x \in [verified : Attributions \cup {"AS_IT_IS"}]
            OBVIOUS
        <3> QED  BY <3>1, <3>2 DEF Assessment
    <2>3. attribution \in Attributions /\ Append(legs[b].assessed, x) \in Seq(Assessment)
        <3>1. legs[b].attribution \in Attributions /\ legs[b].assessed \in Seq(Assessment)
            BY <2>1 DEF Leg
        <3> HIDE DEF x
        <3> QED  BY <2>2, <3>1, Appended
    <2>4. /\ leg \in Leg /\ leg.action = legs[b].action /\ leg.opportunity = legs[b].opportunity
          /\ leg.assessed = Append(legs[b].assessed, x) /\ leg.attribution = attribution
          /\ leg.status = IF attribution \in Unattributed THEN "REALISED" ELSE "VERIFIED"
        <3> HIDE DEF x, attribution
        <3> QED  BY <2>1, <2>3 DEF Leg
    <2>5. legs' = [legs EXCEPT ![b] = leg] /\ UNCHANGED <<decided, actions, related>>
        BY <1>5 DEF VerifyBenefit
    <2> HIDE DEF x, leg, attribution
    <2> QED  BY <2>2, <2>4, <2>5, AssessedLeg
<1>6. ASSUME NEW b \in DOMAIN legs, NEW state \in Retentions, AssessRetention(b, state)
      PROVE  BenefitInv'
    <2> DEFINE x == [retention |-> state]
               leg == [legs[b] EXCEPT
                          !.status = IF state = "TOO_EARLY" THEN @ ELSE "RETAINED",
                          !.assessed = Append(@, x)]
    <2>1. legs[b] \in Leg
        BY <1>s
    <2>2. /\ x \in Assessment /\ "retention" \in DOMAIN x
          /\ (x = [retention |-> "TOO_EARLY"]) <=> (state = "TOO_EARLY")
        <3>1. x.retention = state /\ [retention |-> "TOO_EARLY"].retention = "TOO_EARLY"
            OBVIOUS
        <3>2. x \in [retention : Retentions]
            OBVIOUS
        <3> QED  BY <3>1, <3>2 DEF Assessment
    <2>3. Append(legs[b].assessed, x) \in Seq(Assessment)
        <3>1. legs[b].assessed \in Seq(Assessment)
            BY <2>1 DEF Leg
        <3> HIDE DEF x
        <3> QED  BY <2>2, <3>1, Appended
    <2>4. /\ leg \in Leg /\ leg.action = legs[b].action /\ leg.opportunity = legs[b].opportunity
          /\ leg.assessed = Append(legs[b].assessed, x) /\ leg.attribution = legs[b].attribution
          /\ leg.status = IF state = "TOO_EARLY" THEN legs[b].status ELSE "RETAINED"
        <3> HIDE DEF x
        <3> QED  BY <2>1, <2>3 DEF Leg
    <2>5. legs' = [legs EXCEPT ![b] = leg] /\ UNCHANGED <<decided, actions, related>>
        BY <1>6 DEF AssessRetention
    <2> HIDE DEF x, leg
    <2> QED  BY <2>2, <2>4, <2>5, AssessedLeg
<1>7. ASSUME NEW l \in DOMAIN legs, NEW r \in DOMAIN legs, NEW type \in BenefitTypes,
             NEW overlap \in IF type = "OVERLAPPING" THEN NetAmounts \cap Nat ELSE {0},
             RelateBenefits(l, r, type, overlap)
      PROVE  BenefitInv'
    <2> DEFINE row == [left |-> l, right |-> r, type |-> type, overlap |-> overlap]
    <2>1. related' = related \cup {row} /\ UNCHANGED <<decided, actions, legs>>
        BY <1>7 DEF RelateBenefits
    <2>2. row \in Related
        <3>1. l \in Nat /\ r \in Nat /\ overlap \in Nat
            BY <1>s
        <3> QED  BY <3>1 DEF Related
    <2>3. row.left = l /\ row.right = r /\ row.type = type
        OBVIOUS
    <2> HIDE DEF row
    <2>4. BenefitTypeOK'
        BY <1>t, <2>1, <2>2 DEF BenefitTypeOK
    <2>5. IsFiniteSet(related')
        BY <1>t, <2>1, FS_AddElement DEF BenefitRows
    <2>6. ASSUME NEW x \in related', NEW y \in related',
                 {x.left, x.right} = {y.left, y.right}, x.type = y.type, x.type \in Unordered
          PROVE  x = y
        <3>1. \A z \in related : z.type = type /\ type \in Unordered => {z.left, z.right} # {l, r}
            BY <1>7 DEF RelateBenefits
        <3> QED  BY <1>t, <2>1, <2>3, <2>6, <3>1 DEF BenefitRows
    <2>7. BenefitRows'
        BY <1>t, <2>1, <2>3, <2>5, <2>6 DEF BenefitRows
    <2> QED  BY <2>1, <2>4, <2>7, StillEarned DEF BenefitInv
<1>8. CASE UNCHANGED benefitVars
    <2>1. UNCHANGED <<decided, actions, legs, related>>
        BY <1>8 DEF benefitVars
    <2>2. BenefitTypeOK' /\ BenefitRows'
        BY <1>t, <2>1 DEF BenefitTypeOK, BenefitRows
    <2> QED  BY <2>1, <2>2, StillEarned DEF BenefitInv
<1> QED  BY <1>1, <1>2, <1>3, <1>4, <1>5, <1>6, <1>7, <1>8 DEF BenefitNext

\* What a related pair of benefits would count twice is no more than the sum of
\* the benefits.
LEMMA CountedAtMost ==
    ASSUME BenefitInv, NEW rel \in related
    PROVE  /\ Natural(NetOf, DOMAIN legs) /\ RealisedGross \in Nat
           /\ CountedTwice[rel] \in Nat /\ CountedTwice[rel] <= RealisedGross
<1>t. BenefitTypeOK /\ BenefitRows
    BY DEF BenefitInv
<1>1. Natural(NetOf, DOMAIN legs)
    <2>1. DOMAIN legs = 1 .. Len(legs) /\ Len(legs) \in Nat
        BY <1>t DEF BenefitTypeOK
    <2>2. IsFiniteSet(DOMAIN legs)
        BY <2>1, FS_Interval
    <2>3. ASSUME NEW b \in DOMAIN legs PROVE NetOf[b] \in Nat
        <3>1. legs[b] \in Leg
            BY <1>t DEF BenefitTypeOK
        <3>2. legs[b].net \in Nat
            BY <3>1 DEF Leg
        <3> QED  BY <3>2 DEF NetOf
    <2> QED  BY <2>2, <2>3 DEF Natural
<1>2. DOMAIN NetOf = DOMAIN legs
    BY DEF NetOf
<1>3. RealisedGross = SumFunctionOnSet(NetOf, DOMAIN legs)
    BY <1>2, Zenon DEF RealisedGross, SumFunction
<1>4. RealisedGross \in Nat
    BY <1>1, <1>3, SumNatural
<1>5. NetOf[rel.left] \in Nat /\ NetOf[rel.right] \in Nat /\ rel.overlap \in Nat
    <2>1. rel.left \in DOMAIN legs /\ rel.right \in DOMAIN legs
        BY <1>t DEF BenefitRows
    <2>2. rel \in Related
        BY <1>t DEF BenefitTypeOK
    <2> QED  BY <1>1, <2>1, <2>2 DEF Natural, Related
<1>6. NetOf[rel.left] <= RealisedGross
    <2>1. {rel.left} \in SUBSET DOMAIN legs
        BY <1>t DEF BenefitRows
    <2>2. SumFunctionOnSet(NetOf, {rel.left}) = NetOf[rel.left]
        BY <1>5, SumOfOne
    <2> QED  BY <1>1, <1>3, <2>1, <2>2, SumMonotone
<1>7. LET s == {rel.overlap, NetOf[rel.left], NetOf[rel.right]}
      IN  Smallest(s) \in Nat /\ Smallest(s) <= NetOf[rel.left]
    BY <1>5, LeastOf
<1>8. LET s == {NetOf[rel.left], NetOf[rel.right]}
      IN  Smallest(s) \in Nat /\ Smallest(s) <= NetOf[rel.left]
    BY <1>5, LeastOf
<1>9. CountedTwice[rel] \in Nat /\ (CountedTwice[rel] <= NetOf[rel.left] \/ CountedTwice[rel] = 0)
    BY <1>7, <1>8 DEF CountedTwice
<1> QED  BY <1>1, <1>4, <1>5, <1>6, <1>9

\* What was realised counts no pair of benefits twice (management/engine.py:
\* 71-94).
LEMMA BenefitsCountOnceHolds == BenefitInv => BenefitsCountOnce
<1> SUFFICES ASSUME BenefitInv PROVE BenefitsCountOnce
    OBVIOUS
<1>t. BenefitTypeOK /\ BenefitRows
    BY DEF BenefitInv
<1>1. ASSUME NEW rel \in related
      PROVE  LET twice == IF rel.type = "CASH_MANIFESTATION" THEN {NetOf[rel.left], NetOf[rel.right]}
                          ELSE IF rel.type = "OVERLAPPING"
                          THEN {rel.overlap, NetOf[rel.left], NetOf[rel.right]} ELSE {0}
             IN Realised <= RealisedGross - Smallest(twice)
    <2> DEFINE twice == IF rel.type = "CASH_MANIFESTATION" THEN {NetOf[rel.left], NetOf[rel.right]}
                        ELSE IF rel.type = "OVERLAPPING"
                        THEN {rel.overlap, NetOf[rel.left], NetOf[rel.right]} ELSE {0}
    <2>1. \A x \in related : RealisedGross \in Nat /\ CountedTwice[x] \in Nat /\ CountedTwice[x] <= RealisedGross
        BY CountedAtMost
    <2>2. Smallest({0}) = 0
        BY LeastOf
    <2>3. Smallest(twice) = CountedTwice[rel]
        BY <2>2 DEF CountedTwice
    <2>4. Natural(CountedTwice, related) /\ RealisedDeduction = SumFunctionOnSet(CountedTwice, related)
        <3>1. IsFiniteSet(related)
            BY <1>t DEF BenefitRows
        <3>2. DOMAIN CountedTwice = related
            BY DEF CountedTwice
        <3>3. Natural(CountedTwice, related)
            BY <2>1, <3>1 DEF Natural
        <3>4. RealisedDeduction = SumFunctionOnSet(CountedTwice, related)
            BY <3>2, Zenon DEF RealisedDeduction, SumFunction
        <3> QED  BY <3>3, <3>4
    <2>5. RealisedDeduction \in Nat /\ CountedTwice[rel] <= RealisedDeduction
        <3>1. {rel} \in SUBSET related
            OBVIOUS
        <3>2. SumFunctionOnSet(CountedTwice, {rel}) = CountedTwice[rel]
            BY <2>1, SumOfOne
        <3> QED  BY <2>4, <3>1, <3>2, SumMonotone
    <2> HIDE DEF twice
    <2>6. Realised <= RealisedGross - Smallest(twice)
        BY <2>1, <2>3, <2>5 DEF Realised
    <2> QED  BY <2>6 DEF twice
<1>2. \A x, y \in related :
          ({x.left, x.right} = {y.left, y.right} /\ x.type = y.type /\ x.type \in Unordered) => x = y
    BY <1>t DEF BenefitRows
<1> QED  BY <1>1, <1>2 DEF BenefitsCountOnce

\* The register's tables keep their shape, for any opportunities and amounts.
THEOREM BenefitTypeCorrect == BenefitSpec => []BenefitTypeOK
<1>1. BenefitSpec => []BenefitInv
    BY BenefitInvInit, BenefitInvNext, PTL DEF BenefitSpec
<1>2. BenefitInv => BenefitTypeOK
    BY DEF BenefitInv
<1> QED  BY <1>1, <1>2, PTL

\* Every benefit belongs to an action that was completed for its opportunity,
\* and its status is the verdict of its last assessment that gave one, whatever
\* became of the action and however often the leg was assessed.
THEOREM BenefitsEarned == BenefitSpec => []BenefitsAreEarned
<1>1. BenefitSpec => []BenefitInv
    BY BenefitInvInit, BenefitInvNext, PTL DEF BenefitSpec
<1>2. BenefitInv => BenefitsAreEarned
    BY DEF BenefitInv
<1> QED  BY <1>1, <1>2, PTL

\* Whatever was qualified, related, capped, recorded and assessed, in whatever
\* order, no envelope, no pair of opportunities and no pair of benefits counts
\* twice.
THEOREM MoneyCountedOnce == PortfolioSpec /\ BenefitSpec => []MoneyCountsOnce
<1>1. PortfolioSpec => [](EnvelopesCap /\ PairsCountOnce)
    BY PortfolioCountsOnce
<1>2. BenefitSpec => []BenefitInv
    BY BenefitInvInit, BenefitInvNext, PTL DEF BenefitSpec
<1>3. BenefitInv => BenefitsCountOnce
    BY BenefitsCountOnceHolds
<1>4. EnvelopesCap /\ PairsCountOnce /\ BenefitsCountOnce => MoneyCountsOnce
    BY DEF MoneyCountsOnce
<1> QED  BY <1>1, <1>2, <1>3, <1>4, PTL

-----------------------------------------------------------------------------
(* Sources and baselines *)

\* A baseline's amounts are of those it was locked at or restated to.
LocksStated ==
    \A b \in Baselines : locks[b].held =>
        locks[b].original \in BaselineAmounts /\ locks[b].current \in BaselineAmounts

\* A name is given out with its revision: no event names one still to come.
EventsName == \A e \in events : Names(e.revision)

RestatementInv == RestatementTypeOK /\ RestatementsReadBack /\ LocksStated /\ EventsName

\* What RevisionsReadBack says of one revision, and of one event of a source.
RevisionReads(s, n) ==
    /\ revisions[s][n] # revisions[s][n - 1]
    /\ [source |-> s, revision |-> <<s, n>>, prior |-> n - 1, class |-> "SOURCE_REVISION"] \in events

EventReads(s, e) ==
    /\ e.class = "SOURCE_REVISION" =>
          \E n \in DOMAIN revisions[s] : n > 1 /\ e.revision = <<s, n>> /\ e.prior = n - 1
    /\ e.class = "DATA_RESTATEMENT" => Others(s, e.revision) # {}
    /\ e.class = "BUSINESS_CHANGE" => \A n \in DOMAIN revisions[s] : n > 1 => e.revision # <<s, n>>

\* The chain of each source, revision by revision and event by event.
LEMMA RevisionsRead ==
    RevisionsReadBack <=>
        \A s \in Sources : /\ \A n \in DOMAIN revisions[s] : n > 1 => RevisionReads(s, n)
                           /\ \A e \in events : e.source = s => EventReads(s, e)
BY Zenon DEF RevisionsReadBack, RevisionReads, EventReads

\* There are no revisions to begin with.
LEMMA RestatementInvInit == RestatementInit => RestatementInv
<1> SUFFICES ASSUME RestatementInit PROVE RestatementInv
    OBVIOUS
<1>1. RestatementTypeOK /\ LocksStated /\ EventsName
    BY DEF RestatementInit, RestatementTypeOK, LocksStated, EventsName, Lock
<1>2. RevisionsReadBack
    BY DEF RestatementInit, RevisionsReadBack
<1>3. BaselinesReadBack
    BY DEF RestatementInit, BaselinesReadBack
<1> QED  BY <1>1, <1>2, <1>3 DEF RestatementInv, RestatementsReadBack

\* A new revision differs from the one before it and leaves the event that
\* names it; no event named it before.
LEMMA RevisionRegistered ==
    ASSUME RestatementInv, NEW s \in Sources, NEW content \in Contents, RegisterRevision(s, content)
    PROVE  RestatementInv'
<1>t. /\ revisions \in [Sources -> Seq(Contents)] /\ events \subseteq Event
      /\ revisions[s] \in Seq(Contents) /\ RevisionsReadBack /\ EventsName
    BY DEF RestatementInv, RestatementTypeOK, RestatementsReadBack
<1> DEFINE chain == revisions[s]
           n == Len(chain)
           event == [source |-> s, revision |-> <<s, n + 1>>, prior |-> n, class |-> "SOURCE_REVISION"]
<1>1. /\ chain # <<>> => chain[n] # content
      /\ revisions' = [revisions EXCEPT ![s] = Append(chain, content)]
      /\ events' = IF chain = <<>> THEN events ELSE events \cup {event}
      /\ UNCHANGED <<locks, moves>>
    BY DEF RegisterRevision, baselineVars
<1>2. /\ n \in Nat /\ DOMAIN chain = 1 .. n /\ DOMAIN revisions'[s] = 1 .. n + 1
      /\ revisions'[s] \in Seq(Contents) /\ revisions'[s][n + 1] = content
      /\ \A i \in 1 .. n : revisions'[s][i] = chain[i]
      /\ chain = <<>> <=> n = 0
    <2>1. revisions'[s] = Append(chain, content)
        BY <1>t, <1>1
    <2>2. chain \in Seq(Contents)
        BY <1>t
    <2> HIDE DEF chain
    <2> QED  BY <2>1, <2>2, Appended
<1>3. \A u \in Sources : u # s => revisions'[u] = revisions[u]
    BY <1>t, <1>1
<1>4. /\ event \in Event /\ event.source = s /\ event.revision = <<s, n + 1>> /\ event.prior = n
      /\ event.class = "SOURCE_REVISION"
    BY <1>2 DEF Event, Revision, Classes
<1>e. events \subseteq events' /\ events' \subseteq events \cup {event} /\ (chain # <<>> => event \in events')
    BY <1>1
<1>g. \A u \in Sources : DOMAIN revisions[u] \subseteq DOMAIN revisions'[u]
    BY <1>2, <1>3
<1>5. RestatementTypeOK'
    <2> HIDE DEF event
    <2>1. revisions' \in [Sources -> Seq(Contents)]
        BY <1>t, <1>1, <1>2
    <2>2. events' \subseteq Event
        BY <1>t, <1>e, <1>4
    <2> QED  BY <1>1, <2>1, <2>2 DEF RestatementInv, RestatementTypeOK
<1>6. LocksStated' /\ BaselinesReadBack'
    BY <1>1 DEF RestatementInv, RestatementsReadBack, LocksStated, BaselinesReadBack
<1>7. EventsName'
    <2> SUFFICES ASSUME NEW e \in events' PROVE Names(e.revision)'
        BY DEF EventsName
    <2> HIDE DEF event
    <2>1. CASE e \in events
        <3>1. e.revision \in Sources \X Nat /\ Names(e.revision)
            BY <1>t, <2>1 DEF EventsName, Event, Revision
        <3>2. e.revision[1] \in Sources
            BY <3>1
        <3> QED  BY <1>g, <3>1, <3>2 DEF Names
    <2>2. CASE e = event
        <3>1. e.revision[1] = s /\ e.revision[2] = n + 1
            BY <1>4, <2>2
        <3>2. n + 1 \in DOMAIN revisions'[s]
            BY <1>2
        <3> QED  BY <3>1, <3>2 DEF Names
    <2> QED  BY <1>e, <2>1, <2>2
<1>8. ASSUME NEW u \in Sources, NEW i \in DOMAIN revisions'[u], i > 1
      PROVE  RevisionReads(u, i)'
    <2>1. \A j \in DOMAIN revisions[u] : j > 1 => RevisionReads(u, j)
        BY <1>t, RevisionsRead
    <2>2. CASE u # s \/ i # n + 1
        <3>1. i \in DOMAIN revisions[u] /\ revisions'[u][i] = revisions[u][i]
              /\ revisions'[u][i - 1] = revisions[u][i - 1]
            <4>1. CASE u # s
                BY <1>3, <1>8, <4>1
            <4>2. CASE u = s
                <5>1. i \in 1 .. n /\ i - 1 \in 1 .. n
                    BY <1>2, <1>8, <2>2, <4>2
                <5> QED  BY <1>2, <4>2, <5>1
            <4> QED  BY <4>1, <4>2
        <3>2. RevisionReads(u, i)
            BY <1>8, <2>1, <3>1
        <3> HIDE DEF event
        <3> QED  BY <1>e, <3>1, <3>2 DEF RevisionReads
    <2>3. CASE u = s /\ i = n + 1
        <3>1. chain # <<>> /\ i - 1 = n /\ n \in 1 .. n
            BY <1>2, <1>8, <2>3
        <3>2. revisions'[u][i] # revisions'[u][i - 1]
            BY <1>1, <1>2, <2>3, <3>1
        <3>3. [source |-> u, revision |-> <<u, i>>, prior |-> i - 1, class |-> "SOURCE_REVISION"] = event
            BY <2>3, <3>1
        <3> HIDE DEF event
        <3> QED  BY <1>e, <3>1, <3>2, <3>3 DEF RevisionReads
    <2> QED  BY <2>2, <2>3
<1>9. ASSUME NEW u \in Sources, NEW e \in events', e.source = u
      PROVE  EventReads(u, e)'
    <2> HIDE DEF event
    <2>1. CASE e \in events
        <3>1. EventReads(u, e)
            BY <1>t, <1>9, <2>1, RevisionsRead
        <3>2. e.class = "SOURCE_REVISION" =>
                  \E j \in DOMAIN revisions'[u] : j > 1 /\ e.revision = <<u, j>> /\ e.prior = j - 1
            BY <1>g, <3>1 DEF EventReads
        <3>3. e.class = "DATA_RESTATEMENT" => Others(u, e.revision)' # {}
            BY <1>g, <3>1 DEF EventReads, Others
        <3>4. ASSUME e.class = "BUSINESS_CHANGE", NEW j \in DOMAIN revisions'[u], j > 1
              PROVE  e.revision # <<u, j>>
            <4>1. CASE j \in DOMAIN revisions[u]
                BY <3>1, <3>4, <4>1 DEF EventReads
            <4>2. CASE j \notin DOMAIN revisions[u]
                <5>1. Names(e.revision)
                    BY <1>t, <2>1 DEF EventsName
                <5>2. ASSUME e.revision = <<u, j>> PROVE FALSE
                    <6>1. e.revision[1] = u /\ e.revision[2] = j /\ j # 0
                        BY <3>4, <5>2
                    <6> QED  BY <4>2, <5>1, <6>1 DEF Names
                <5> QED  BY <5>2
            <4> QED  BY <4>1, <4>2
        <3> QED  BY <3>2, <3>3, <3>4 DEF EventReads
    <2>2. CASE e = event /\ e \notin events
        <3>1. u = s /\ chain # <<>>
            BY <1>1, <1>4, <1>9, <2>2
        <3>2. n + 1 \in DOMAIN revisions'[u] /\ n + 1 > 1 /\ n = (n + 1) - 1
            BY <1>2, <3>1
        <3>3. e.class = "SOURCE_REVISION" /\ e.revision = <<u, n + 1>> /\ e.prior = (n + 1) - 1
            BY <1>4, <2>2, <3>1, <3>2
        <3> QED  BY <3>2, <3>3 DEF EventReads
    <2> QED  BY <1>e, <2>1, <2>2
<1>10. RevisionsReadBack'
    <2>1. RevisionsReadBack' <=>
              \A u \in Sources : /\ \A i \in DOMAIN revisions'[u] : i > 1 => RevisionReads(u, i)'
                                 /\ \A e \in events' : e.source = u => EventReads(u, e)'
        BY Zenon DEF RevisionsReadBack, RevisionReads, EventReads
    <2> QED  BY <1>8, <1>9, <2>1
<1> QED  BY <1>5, <1>6, <1>7, <1>10 DEF RestatementInv, RestatementsReadBack

\* A classified change names what there is, or nothing, and is a restatement
\* exactly when its source holds more than that.
LEMMA ChangeClassified ==
    ASSUME RestatementInv, NEW s \in Sources, NEW r \in Nameable, ClassifyChange(s, r)
    PROVE  RestatementInv'
<1>t. /\ revisions \in [Sources -> Seq(Contents)] /\ events \subseteq Event
      /\ revisions[s] \in Seq(Contents) /\ RevisionsReadBack /\ EventsName
    BY DEF RestatementInv, RestatementTypeOK, RestatementsReadBack
<1> DEFINE event == [source |-> s, revision |-> r, prior |-> 0,
                     class |-> IF Others(s, r) = {} THEN "BUSINESS_CHANGE" ELSE "DATA_RESTATEMENT"]
<1>1. Names(r) /\ events' = events \cup {event} /\ UNCHANGED <<revisions, locks, moves>>
    BY DEF ClassifyChange, baselineVars
<1>2. r \in Revision
    BY DEF Nameable, Revision
<1>3. /\ event \in Event /\ event.source = s /\ event.revision = r /\ event.class # "SOURCE_REVISION"
      /\ event.class = "BUSINESS_CHANGE" <=> Others(s, r) = {}
    BY <1>2 DEF Event, Classes
<1> HIDE DEF event
<1>4. RestatementTypeOK' /\ EventsName'
    BY <1>t, <1>1, <1>3 DEF RestatementInv, RestatementTypeOK, EventsName, Names
<1>5. LocksStated' /\ BaselinesReadBack'
    BY <1>1 DEF RestatementInv, RestatementsReadBack, LocksStated, BaselinesReadBack
<1>6. EventReads(s, event)
    <2>1. ASSUME event.class = "BUSINESS_CHANGE", NEW j \in DOMAIN revisions[s], j > 1
          PROVE  event.revision # <<s, j>>
        <3>1. DOMAIN revisions[s] = 1 .. Len(revisions[s]) /\ Len(revisions[s]) \in Nat
            BY <1>t
        <3>2. 1 \in DOMAIN revisions[s] /\ j # 1
            BY <2>1, <3>1
        <3>3. 1 \notin Others(s, r)
            BY <1>3, <2>1
        <3>4. r = <<s, 1>>
            BY <3>2, <3>3 DEF Others
        <3> QED  BY <1>3, <3>2, <3>4
    <2>2. event.class = "DATA_RESTATEMENT" => Others(s, event.revision) # {}
        BY <1>3
    <2> QED  BY <1>3, <2>1, <2>2 DEF EventReads
<1>7. RevisionsReadBack'
    <2>1. \A u \in Sources : /\ \A i \in DOMAIN revisions[u] : i > 1 => RevisionReads(u, i)
                             /\ \A e \in events : e.source = u => EventReads(u, e)
        BY <1>t, RevisionsRead
    <2>2. RevisionsReadBack' <=>
              \A u \in Sources : /\ \A i \in DOMAIN revisions'[u] : i > 1 => RevisionReads(u, i)'
                                 /\ \A e \in events' : e.source = u => EventReads(u, e)'
        BY Zenon DEF RevisionsReadBack, RevisionReads, EventReads
    <2>3. \A u, i : RevisionReads(u, i) => RevisionReads(u, i)'
        BY <1>1 DEF RevisionReads
    <2>4. \A u, e : EventReads(u, e) => EventReads(u, e)'
        BY <1>1 DEF EventReads, Others
    <2> QED  BY <1>1, <1>3, <1>6, <2>1, <2>2, <2>3, <2>4
<1> QED  BY <1>4, <1>5, <1>7 DEF RestatementInv, RestatementsReadBack

\* A baseline's path is continued from where it ended.
LEMMA BaselineMoved ==
    ASSUME RestatementInv, NEW b \in Baselines, NEW amount \in BaselineAmounts,
           LockBaseline(b, amount) \/ RestateBaseline(b, amount)
    PROVE  RestatementInv'
<1>t. /\ locks \in [Baselines -> Lock] /\ moves \in [Baselines -> Seq(Move)] /\ moves[b] \in Seq(Move)
      /\ locks[b] \in Lock /\ BaselinesReadBack /\ LocksStated /\ RestatementTypeOK /\ RevisionsReadBack
      /\ EventsName
    BY DEF RestatementInv, RestatementTypeOK, RestatementsReadBack
<1>a. BaselineAmounts \subseteq Int
    BY RestatementAssumption DEF RestatementAssumption
<1> DEFINE Path(d) == moves[d]
           Start(d, n) == IF n = 1 THEN locks[d].original ELSE moves[d][n - 1].restated
           Read(d) == /\ moves[d] # <<>> => locks[d].held
                      /\ \A n \in DOMAIN moves[d] : /\ moves[d][n].prior = Start(d, n)
                                                    /\ moves[d][n].restated = moves[d][n].prior + moves[d][n].delta
                      /\ locks[d].current = Start(d, Len(moves[d]) + 1)
<1>1. \A d \in Baselines : Read(d)
    BY <1>t DEF BaselinesReadBack
<1>2. UNCHANGED <<revisions, events>>
    BY DEF LockBaseline, RestateBaseline, sourceVars
<1>3. RevisionsReadBack' /\ EventsName'
    BY <1>t, <1>2 DEF RevisionsReadBack, Others, EventsName, Names
<1>4. CASE LockBaseline(b, amount)
    <2> DEFINE lock == [held |-> TRUE, original |-> amount, current |-> amount]
    <2>1. locks' = [locks EXCEPT ![b] = lock] /\ UNCHANGED moves /\ ~locks[b].held
        BY <1>4 DEF LockBaseline
    <2>2. lock \in Lock
        BY DEF Lock
    <2>3. /\ locks' \in [Baselines -> Lock] /\ locks'[b] = lock
          /\ \A d \in Baselines : d # b => locks'[d] = locks[d]
        BY <1>t, <2>1, <2>2
    <2>4. RestatementTypeOK' /\ LocksStated'
        BY <1>t, <1>2, <2>1, <2>3 DEF RestatementTypeOK, LocksStated
    <2>5. moves[b] = <<>> /\ Len(moves[b]) = 0
        BY <1>1, <2>1
    <2>6. BaselinesReadBack'
        <3> SUFFICES ASSUME NEW d \in Baselines PROVE Read(d)'
            BY DEF BaselinesReadBack
        <3>1. CASE d = b
            BY <2>1, <2>3, <2>5, <3>1
        <3>2. CASE d # b
            BY <1>1, <2>1, <2>3, <3>2
        <3> QED  BY <3>1, <3>2
    <2> QED  BY <1>3, <2>4, <2>6 DEF RestatementInv, RestatementsReadBack
<1>5. CASE RestateBaseline(b, amount)
    <2> DEFINE move == [prior |-> locks[b].current, restated |-> amount, delta |-> amount - locks[b].current]
               lock == [locks[b] EXCEPT !.current = amount]
    <2>1. /\ locks[b].held /\ moves' = [moves EXCEPT ![b] = Append(@, move)]
          /\ locks' = [locks EXCEPT ![b] = lock]
        BY <1>5 DEF RestateBaseline
    <2>2. lock \in Lock /\ lock.held /\ lock.original = locks[b].original /\ lock.current = amount
        BY <1>t, <2>1 DEF Lock
    <2>3. locks[b].current \in BaselineAmounts /\ locks[b].original \in BaselineAmounts
        BY <1>t, <2>1 DEF LocksStated
    <2>4. amount \in Int /\ locks[b].current \in Int
        BY <1>a, <2>3
    <2>5. move \in Move /\ move.prior = locks[b].current /\ move.restated = amount
          /\ move.restated = move.prior + move.delta
        BY <2>3, <2>4 DEF Move
    <2> HIDE DEF move, lock
    <2>6. /\ locks' \in [Baselines -> Lock] /\ locks'[b] = lock
          /\ \A d \in Baselines : d # b => locks'[d] = locks[d]
        BY <1>t, <2>1, <2>2
    <2> DEFINE n == Len(moves[b])
    <2>7. /\ n \in Nat /\ DOMAIN moves[b] = 1 .. n /\ DOMAIN moves'[b] = 1 .. n + 1
          /\ moves'[b] \in Seq(Move) /\ moves'[b][n + 1] = move /\ Len(moves'[b]) = n + 1
          /\ \A i \in 1 .. n : moves'[b][i] = moves[b][i]
        <3>1. moves'[b] = Append(moves[b], move)
            BY <1>t, <2>1
        <3> QED  BY <1>t, <2>5, <3>1, Appended
    <2>8. moves' \in [Baselines -> Seq(Move)] /\ \A d \in Baselines : d # b => moves'[d] = moves[d]
        BY <1>t, <2>1, <2>7
    <2>9. RestatementTypeOK' /\ LocksStated'
        BY <1>t, <1>2, <2>2, <2>3, <2>6, <2>8 DEF RestatementTypeOK, LocksStated
    <2>10. BaselinesReadBack'
        <3> SUFFICES ASSUME NEW d \in Baselines PROVE Read(d)'
            BY DEF BaselinesReadBack
        <3>1. CASE d # b
            BY <1>1, <2>6, <2>8, <3>1
        <3>2. CASE d = b
            <4> DEFINE Onward(i) == IF i = 1 THEN locks'[b].original ELSE moves'[b][i - 1].restated
            <4>1. \A i \in 1 .. n + 1 : Onward(i) = Start(b, i)
                <5> SUFFICES ASSUME NEW i \in 1 .. n + 1 PROVE Onward(i) = Start(b, i)
                    OBVIOUS
                <5>1. CASE i = 1
                    BY <2>2, <2>6, <5>1
                <5>2. CASE i # 1
                    <6>1. i - 1 \in 1 .. n
                        BY <2>7, <5>2
                    <6> QED  BY <2>7, <5>2, <6>1
                <5> QED  BY <5>1, <5>2
            <4>2. \A i \in 1 .. n : moves'[b][i].prior = Onward(i)
                                    /\ moves'[b][i].restated = moves'[b][i].prior + moves'[b][i].delta
                <5> SUFFICES ASSUME NEW i \in 1 .. n
                             PROVE  moves'[b][i].prior = Onward(i)
                                    /\ moves'[b][i].restated = moves'[b][i].prior + moves'[b][i].delta
                    OBVIOUS
                <5>1. i \in 1 .. n + 1 /\ moves'[b][i] = moves[b][i] /\ i \in DOMAIN moves[b]
                    BY <2>7
                <5> HIDE DEF Start, Onward
                <5>2. Onward(i) = Start(b, i)
                    BY <4>1, <5>1
                <5> QED  BY <1>1, <5>1, <5>2
            <4>3. move.prior = Onward(n + 1)
                <5>1. n + 1 \in 1 .. n + 1
                    BY <2>7
                <5> HIDE DEF Start, Onward
                <5> QED  BY <1>1, <2>5, <4>1, <5>1
            <4>4. locks'[b].current = Onward(n + 2)
                <5>1. n + 2 # 1 /\ (n + 2) - 1 = n + 1
                    BY <2>7
                <5> QED  BY <2>2, <2>5, <2>6, <2>7, <5>1
            <4>5. \A i \in 1 .. n + 1 : i \in 1 .. n \/ i = n + 1
                BY <2>7
            <4>6. Len(moves'[b]) + 1 = n + 2
                BY <2>7
            <4>7. \A i \in DOMAIN moves'[b] : /\ moves'[b][i].prior = Onward(i)
                                              /\ moves'[b][i].restated = moves'[b][i].prior + moves'[b][i].delta
                <5> HIDE DEF Onward
                <5> QED  BY <2>5, <2>7, <4>2, <4>3, <4>5
            <4>8. locks'[b].current = Onward(Len(moves'[b]) + 1) /\ locks'[b].held
                BY <2>2, <2>6, <4>4, <4>6
            <4>9. Read(b)'
                BY <4>7, <4>8
            <4> QED  BY <3>2, <4>9
        <3> QED  BY <3>1, <3>2
    <2> QED  BY <1>3, <2>9, <2>10 DEF RestatementInv, RestatementsReadBack
<1> QED  BY <1>4, <1>5

\* Every step of a restatement keeps the invariant.
LEMMA RestatementInvNext == RestatementInv /\ [RestatementNext]_restatementVars => RestatementInv'
<1> SUFFICES ASSUME RestatementInv, [RestatementNext]_restatementVars PROVE RestatementInv'
    OBVIOUS
<1>1. CASE SourceNext
    BY <1>1, RevisionRegistered, ChangeClassified DEF SourceNext
<1>2. CASE BaselineNext
    BY <1>2, BaselineMoved DEF BaselineNext
<1>3. CASE UNCHANGED restatementVars
    BY <1>3 DEF restatementVars, RestatementInv, RestatementTypeOK, RestatementsReadBack, LocksStated,
       RevisionsReadBack, BaselinesReadBack, Others, EventsName, Names
<1> QED  BY <1>1, <1>2, <1>3 DEF RestatementNext

\* Revisions are one chain, each with the event that names its prior, a change
\* is called a restatement only over another revision, and a baseline is what
\* its restatements moved it to, for any sources, names and amounts.
THEOREM RestatementsTraced == RestatementSpec => [](RestatementTypeOK /\ RestatementsReadBack)
<1>1. RestatementSpec => []RestatementInv
    BY RestatementInvInit, RestatementInvNext, PTL DEF RestatementSpec
<1>2. RestatementInv => RestatementTypeOK /\ RestatementsReadBack
    BY DEF RestatementInv
<1> QED  BY <1>1, <1>2, PTL

-----------------------------------------------------------------------------
(* Issue threads *)

\* The observations of a thread that reopened it.
Reopenings(seen) == {n \in 2 .. Len(seen) : /\ seen[n].state \in {"OPEN", "RECURRED"}
                                            /\ seen[n - 1].state \in {"RESOLVED"}}

\* What ThreadsReadBack says of one thread and its observations.
ThreadReads(thread, seen) ==
    /\ (thread.lifecycle = "NONE") <=> (seen = <<>>)
    /\ seen # <<>> => ((thread.lifecycle = "RESOLVED") <=> seen[Len(seen)].state \in {"RESOLVED"})
    /\ thread.reopened = Cardinality(Reopenings(seen))
    /\ thread.closed => \E n \in DOMAIN seen : seen[n].state \in {"RESOLVED"}

\* What ThreadsReadBack says, of one issue.
LEMMA ThreadsRead == ThreadsReadBack <=> \A i \in Issues \ torn : ThreadReads(threads[i], sightings[i])
BY DEF ThreadsReadBack, ThreadReads, Reopenings

\* One more observation reopens the thread exactly when it is open or recurring
\* and follows a resolved one.
LEMMA OneMoreSighting ==
    ASSUME NEW seen \in Seq(Sighting), NEW x \in Sighting
    PROVE  /\ Cardinality(Reopenings(seen)) \in Nat
           /\ Cardinality(Reopenings(Append(seen, x))) =
                 IF seen # <<>> /\ x.state \in {"OPEN", "RECURRED"} /\ seen[Len(seen)].state \in {"RESOLVED"}
                 THEN Cardinality(Reopenings(seen)) + 1 ELSE Cardinality(Reopenings(seen))
<1> DEFINE n == Len(seen)
           more == Append(seen, x)
           again == n \in Nat \ {0} /\ x.state \in {"OPEN", "RECURRED"} /\ seen[n].state \in {"RESOLVED"}
<1>1. /\ n \in Nat /\ Len(more) = n + 1 /\ more[n + 1] = x /\ (seen = <<>> <=> n = 0)
      /\ \A i \in 1 .. n : more[i] = seen[i]
    BY Appended
<1>2. Reopenings(seen) \subseteq 1 .. n /\ IsFiniteSet(Reopenings(seen))
    <2>1. Reopenings(seen) \subseteq 1 .. n
        BY <1>1 DEF Reopenings
    <2> HIDE DEF n
    <2>2. IsFiniteSet(1 .. n)
        BY <1>1, FS_Interval
    <2> QED  BY <2>1, <2>2, FS_Subset
<1>3. Cardinality(Reopenings(seen)) \in Nat /\ n + 1 \notin Reopenings(seen)
    <2>1. n + 1 \notin 1 .. n
        BY <1>1
    <2> QED  BY <1>2, <2>1, FS_CardinalityType
<1> HIDE DEF n, more
<1>4. \A i \in 2 .. n : more[i] = seen[i] /\ more[i - 1] = seen[i - 1] /\ i \in 2 .. n + 1 /\ i # n + 1
    <2> SUFFICES ASSUME NEW i \in 2 .. n
                 PROVE  more[i] = seen[i] /\ more[i - 1] = seen[i - 1] /\ i \in 2 .. n + 1 /\ i # n + 1
        OBVIOUS
    <2>1. i \in 1 .. n /\ i - 1 \in 1 .. n /\ i \in 2 .. n + 1 /\ i # n + 1
        BY <1>1
    <2> QED  BY <1>1, <2>1
<1>5. \A i \in 2 .. n + 1 : i \in 2 .. n \/ i = n + 1
    BY <1>1
<1>6. CASE again
    <2>1. n + 1 \in 2 .. n + 1 /\ (n + 1) - 1 = n /\ n \in 1 .. n
        BY <1>1, <1>6
    <2>2. more[n + 1].state \in {"OPEN", "RECURRED"} /\ more[(n + 1) - 1].state \in {"RESOLVED"}
        BY <1>1, <1>6, <2>1
    <2>3. Reopenings(more) = Reopenings(seen) \cup {n + 1}
        BY <1>1, <1>4, <1>5, <2>1, <2>2 DEF Reopenings, n
    <2>4. Cardinality(Reopenings(more)) = Cardinality(Reopenings(seen)) + 1
        BY <1>2, <1>3, <2>3, FS_AddElement
    <2> QED  BY <1>1, <1>3, <1>6, <2>4 DEF n, more
<1>7. CASE ~again
    <2>1. ~(/\ n + 1 \in 2 .. n + 1 /\ more[n + 1].state \in {"OPEN", "RECURRED"}
            /\ more[(n + 1) - 1].state \in {"RESOLVED"})
        <3> SUFFICES ASSUME n + 1 \in 2 .. n + 1, more[n + 1].state \in {"OPEN", "RECURRED"},
                            more[(n + 1) - 1].state \in {"RESOLVED"}
                     PROVE  FALSE
            OBVIOUS
        <3>1. n # 0 /\ n \in 1 .. n /\ (n + 1) - 1 = n
            BY <1>1
        <3> QED  BY <1>1, <1>7, <3>1
    <2>2. Reopenings(more) = Reopenings(seen)
        BY <1>1, <1>4, <1>5, <2>1 DEF Reopenings, n
    <2>3. ~(seen # <<>> /\ x.state \in {"OPEN", "RECURRED"} /\ seen[Len(seen)].state \in {"RESOLVED"})
        BY <1>1, <1>7 DEF n
    <2> QED  BY <1>3, <2>2, <2>3 DEF more
<1> QED  BY <1>6, <1>7

\* A thread that read back as its observations still does after one more.
LEMMA ThreadMoves ==
    ASSUME NEW thread \in Thread, NEW seen \in Seq(Sighting), NEW run \in AnalysisRuns,
           NEW state \in ObservedStates, ThreadReads(thread, seen)
    PROVE  LET after == IF thread.lifecycle = "NONE" THEN Opened(state) ELSE Moved(thread, state)
           IN ThreadReads(after, Append(seen, [run |-> run, state |-> state]))
<1> DEFINE x == [run |-> run, state |-> state]
           after == IF thread.lifecycle = "NONE" THEN Opened(state) ELSE Moved(thread, state)
           n == Len(seen)
           more == Append(seen, x)
<1>1. x \in Sighting /\ x.state = state
    BY DEF Sighting
<1> HIDE DEF x
<1>2. /\ n \in Nat /\ Len(more) = n + 1 /\ more[n + 1] = x /\ (seen = <<>> <=> n = 0)
      /\ DOMAIN seen = 1 .. n /\ DOMAIN more = 1 .. n + 1 /\ \A i \in 1 .. n : more[i] = seen[i]
    BY <1>1, Appended
<1>3. more # <<>> /\ n + 1 \in DOMAIN more /\ DOMAIN seen \subseteq DOMAIN more
    <2>1. n + 1 \in 1 .. n + 1 /\ 1 .. n \subseteq 1 .. n + 1
        <3> HIDE DEF n
        <3> QED  BY <1>2
    <2> HIDE DEF n, more
    <2> QED  BY <1>2, <2>1
<1>4. /\ Cardinality(Reopenings(seen)) \in Nat
      /\ Cardinality(Reopenings(more)) =
            IF seen # <<>> /\ state \in {"OPEN", "RECURRED"} /\ seen[n].state \in {"RESOLVED"}
            THEN Cardinality(Reopenings(seen)) + 1 ELSE Cardinality(Reopenings(seen))
    BY <1>1, OneMoreSighting
<1>5. /\ (thread.lifecycle = "NONE") <=> (seen = <<>>)
      /\ seen # <<>> => ((thread.lifecycle = "RESOLVED") <=> seen[n].state \in {"RESOLVED"})
      /\ thread.reopened = Cardinality(Reopenings(seen))
      /\ thread.closed => \E i \in DOMAIN seen : seen[i].state \in {"RESOLVED"}
    BY DEF ThreadReads
<1>6. /\ thread.lifecycle \in {"NONE", "OPEN", "RESOLVED"} /\ thread.reopened \in Nat
      /\ thread.closed \in BOOLEAN /\ DOMAIN thread = {"lifecycle", "reopened", "closed"}
    BY DEF Thread
<1>7. /\ after.lifecycle = IF state = "RESOLVED" THEN "RESOLVED" ELSE "OPEN"
      /\ after.reopened = Cardinality(Reopenings(more))
      /\ after.closed => state = "RESOLVED" \/ thread.closed
    <2>1. CASE thread.lifecycle = "NONE"
        <3>1. seen = <<>> /\ Reopenings(seen) = {}
            BY <1>2, <1>5, <2>1 DEF Reopenings
        <3>2. Cardinality(Reopenings(more)) = 0
            BY <1>4, <3>1, FS_EmptySet
        <3> QED  BY <2>1, <3>2 DEF Opened
    <2>2. CASE thread.lifecycle # "NONE"
        <3>1. after = Moved(thread, state) /\ seen # <<>>
            BY <1>5, <2>2
        <3> HIDE DEF after, more, n
        <3>2. CASE state \in {"OPEN", "RECURRED"} /\ thread.lifecycle = "RESOLVED"
            BY <1>4, <1>5, <3>1, <3>2 DEF Moved
        <3>3. CASE ~(state \in {"OPEN", "RECURRED"} /\ thread.lifecycle = "RESOLVED")
            <4>1. Cardinality(Reopenings(more)) = thread.reopened
                BY <1>4, <1>5, <3>1, <3>3
            <4>2. CASE state = "RESOLVED"
                BY <1>6, <3>1, <3>3, <4>1, <4>2 DEF Moved
            <4>3. CASE state = "RECURRED"
                BY <1>6, <2>2, <3>1, <3>3, <4>1, <4>3 DEF Moved
            <4>4. CASE state \notin {"RESOLVED", "RECURRED"}
                BY <1>6, <3>1, <3>3, <4>1, <4>4 DEF Moved
            <4> QED  BY <4>2, <4>3, <4>4
        <3> QED  BY <3>2, <3>3
    <2> QED  BY <2>1, <2>2
<1>8. after.closed => \E i \in DOMAIN more : more[i].state \in {"RESOLVED"}
    <2> HIDE DEF after, more, n
    <2>1. CASE state = "RESOLVED"
        BY <1>1, <1>2, <1>3, <2>1
    <2>2. CASE state # "RESOLVED"
        <3> SUFFICES ASSUME after.closed PROVE \E i \in DOMAIN more : more[i].state \in {"RESOLVED"}
            OBVIOUS
        <3>1. PICK i \in DOMAIN seen : seen[i].state \in {"RESOLVED"}
            BY <1>5, <1>7, <2>2
        <3> QED  BY <1>2, <1>3, <3>1
    <2> QED  BY <2>1, <2>2
<1>9. more[Len(more)].state \in {"RESOLVED"} <=> state = "RESOLVED"
    <2> HIDE DEF more, n
    <2> QED  BY <1>1, <1>2
<1> HIDE DEF after, more
<1>10. ThreadReads(after, more)
    BY <1>3, <1>7, <1>8, <1>9 DEF ThreadReads
<1> QED  BY <1>10 DEF after, more, x

-----------------------------------------------------------------------------
(* Tracked opportunities and their claims *)

\* What a row says of what is left of it by the sum that is read.
KeyReads(row, left) ==
    /\ row.state = "ACTIVE" => row.remaining = left
    /\ row.state = "EXHAUSTED" => row.remaining = 0 /\ left = 0
    /\ row.state = "STALE" => row.remaining \in {0, left}

\* What the sum that is read leaves of a key.
LeftNow(k) == LeftOf(keyed[k].expected, CountedOf(claims[k]))

RemainingIsRead == \A k \in OpportunityKeys : KeyReads(keyed[k], LeftNow(k))
ClaimsRevive ==
    \A k \in OpportunityKeys : keyed[k].state = "STALE" /\ claims[k] = <<>> => keyed[k].remaining = 0
ClaimedOnce == \A j, k \in OpportunityKeys : j # k => Range(claims[j]) \cap Range(claims[k]) = {}

LongitudinalInv == LongitudinalTypeOK /\ ThreadsReadBack /\ RemainingIsRead /\ ClaimsRevive /\ ClaimedOnce

\* A leg that is not yet among the claims of a key can be added to them.
LEMMA OrderExtends ==
    ASSUME NEW paid \in Orders, NEW b \in BenefitLegs, b \notin Range(paid)
    PROVE  Append(paid, b) \in Orders /\ Range(Append(paid, b)) = Range(paid) \cup {b}
<1>1. PICK n \in 0 .. Cardinality(BenefitLegs) : paid \in [1 .. n -> BenefitLegs]
    BY DEF Orders
<1>2. n \in Nat /\ paid \in Seq(BenefitLegs) /\ Len(paid) = n /\ IsInjective(paid)
    BY <1>1 DEF Orders
<1> DEFINE more == Append(paid, b)
<1>3. /\ more \in Seq(BenefitLegs) /\ DOMAIN more = 1 .. n + 1 /\ more[n + 1] = b
      /\ \A i \in 1 .. n : more[i] = paid[i]
    BY <1>2, Appended
<1>4. more \in [1 .. n + 1 -> BenefitLegs]
    <2>1. \A i \in 1 .. n + 1 : i \in 1 .. n \/ i = n + 1
        BY <1>2
    <2> HIDE DEF more
    <2>2. \A i \in 1 .. n + 1 : more[i] \in BenefitLegs
        BY <1>1, <1>3, <2>1
    <2>3. more = [i \in 1 .. n + 1 |-> more[i]]
        <3>1. \A f \in Seq(BenefitLegs) : f = [i \in DOMAIN f |-> f[i]]
            OBVIOUS
        <3> QED  BY <1>3, <3>1
    <2> QED  BY <2>2, <2>3
<1> HIDE DEF more
<1>5. \A i \in 1 .. n + 1 : i \in 1 .. n \/ i = n + 1
    BY <1>2
<1>6. n + 1 \notin 1 .. n /\ 1 .. n \subseteq 1 .. n + 1 /\ n + 1 \in 1 .. n + 1 /\ DOMAIN paid = 1 .. n
    BY <1>1, <1>2
<1>7. \A i \in 1 .. n : paid[i] # b
    BY <1>6 DEF Range
<1>8. IsInjective(more)
    <2> SUFFICES ASSUME NEW i \in 1 .. n + 1, NEW j \in 1 .. n + 1, more[i] = more[j] PROVE i = j
        BY <1>3 DEF IsInjective
    <2>1. CASE i \in 1 .. n /\ j \in 1 .. n
        BY <1>2, <1>3, <1>6, <2>1 DEF IsInjective
    <2> QED  BY <1>3, <1>5, <1>7, <2>1
<1>9. Range(more) = Range(paid) \cup {b}
    <2>1. Range(more) = {more[i] : i \in 1 .. n + 1} /\ Range(paid) = {paid[i] : i \in 1 .. n}
        BY <1>3, <1>6 DEF Range
    <2> QED  BY <1>3, <1>5, <1>6, <2>1
<1>10. n + 1 <= Cardinality(BenefitLegs)
    <2>1. IsFiniteSet(BenefitLegs)
        BY LongitudinalAssumption DEF LongitudinalAssumption
    <2>2. more \in Injection(1 .. n + 1, BenefitLegs)
        BY <1>4, <1>8 DEF Injection
    <2>3. Cardinality(1 .. n + 1) <= Cardinality(BenefitLegs)
        BY <2>1, <2>2, FS_Injection
    <2>4. Cardinality(1 .. n + 1) = n + 1
        <3>1. n + 1 \in Int /\ 1 \in Int /\ ~(1 > n + 1) /\ (n + 1) - 1 + 1 = n + 1
            BY <1>2
        <3> QED  BY <3>1, FS_Interval
    <2> QED  BY <2>3, <2>4
<1>11. n + 1 \in 0 .. Cardinality(BenefitLegs)
    <2>1. Cardinality(BenefitLegs) \in Nat
        BY LongitudinalAssumption, FS_CardinalityType DEF LongitudinalAssumption
    <2> QED  BY <1>2, <1>10, <2>1
<1>12. more \in Orders
    BY <1>4, <1>8, <1>11 DEF Orders
<1> QED  BY <1>9, <1>12 DEF more

\* The sum that is read is a natural number, within Drift of the claims to the
\* penny, and a further claim never lowers it.
LEMMA CountsAreNear ==
    ASSUME NEW paid \in Orders
    PROVE  /\ CountedOf(paid) \in Nat /\ SumFunctionOnSet(Claimable, Range(paid)) \in Nat
           /\ Near(CountedOf(paid), SumFunctionOnSet(Claimable, Range(paid)))
           /\ \A b \in BenefitLegs : Append(paid, b) \in Orders => CountedOf(paid) <= CountedOf(Append(paid, b))
<1>1. /\ CountedOf(paid) \in Nat
      /\ Near(CountedOf(paid), SumFunctionOnSet(Claimable, Range(paid)))
      /\ \A b \in BenefitLegs : Append(paid, b) \in Orders => CountedOf(paid) <= CountedOf(Append(paid, b))
    BY LongitudinalAssumption DEF LongitudinalAssumption, CountedOf
<1>2. Range(paid) \in SUBSET BenefitLegs
    BY DEF Orders, Range
<1>3. Natural(Claimable, BenefitLegs)
    BY LongitudinalAssumption DEF LongitudinalAssumption, Natural
<1> QED  BY <1>1, <1>2, <1>3, SumMonotone

\* What is left is a natural number, no more when more is claimed, and as near
\* as what was claimed.
LEMMA LeftShrinks ==
    ASSUME NEW expected \in Nat, NEW claimed \in Nat, NEW more \in Nat
    PROVE  /\ LeftOf(expected, claimed) \in Nat
           /\ claimed <= more /\ LeftOf(expected, claimed) = 0 => LeftOf(expected, more) = 0
           /\ Near(claimed, more) => /\ Near(LeftOf(expected, claimed), LeftOf(expected, more))
                                     /\ LeftOf(expected, claimed) = 0 => LeftOf(expected, more) <= Drift
<1>1. Drift \in Nat
    BY LongitudinalAssumption DEF LongitudinalAssumption
<1> QED  BY <1>1 DEF LeftOf, Near

\* There are no threads and no tracked opportunities to begin with.
LEMMA LongitudinalInvInit == LongitudinalInit => LongitudinalInv
<1> SUFFICES ASSUME LongitudinalInit PROVE LongitudinalInv
    OBVIOUS
<1>1. <<>> \in Orders
    <2>1. Cardinality(BenefitLegs) \in Nat
        BY LongitudinalAssumption, FS_CardinalityType DEF LongitudinalAssumption
    <2>2. 0 \in 0 .. Cardinality(BenefitLegs) /\ <<>> \in [1 .. 0 -> BenefitLegs] /\ IsInjective(<<>>)
        BY <2>1 DEF IsInjective
    <2> QED  BY <2>2 DEF Orders
<1>2. LongitudinalTypeOK
    BY <1>1 DEF LongitudinalInit, LongitudinalTypeOK, Thread, KeyedRow
<1>3. ThreadsReadBack
    <2> SUFFICES ASSUME NEW i \in Issues PROVE ThreadReads(threads[i], sightings[i])
        BY ThreadsRead
    <2>1. /\ threads[i].lifecycle = "NONE" /\ threads[i].reopened = 0 /\ threads[i].closed = FALSE
          /\ sightings[i] = <<>>
        BY DEF LongitudinalInit
    <2>2. Reopenings(<<>>) = {}
        BY DEF Reopenings
    <2> QED  BY <2>1, <2>2, FS_EmptySet DEF ThreadReads
<1>4. RemainingIsRead /\ ClaimsRevive /\ ClaimedOnce
    BY DEF LongitudinalInit, RemainingIsRead, KeyReads, ClaimsRevive, ClaimedOnce, Range
<1> QED  BY <1>2, <1>3, <1>4 DEF LongitudinalInv

\* Every step about an issue keeps the invariant.
LEMMA IssueKeeps == LongitudinalInv /\ IssueNext => LongitudinalInv'
<1> SUFFICES ASSUME LongitudinalInv, NEW i \in Issues, NEW run \in AnalysisRuns, NEW state \in ObservedStates,
                    ObserveIssue(i, run, state) \/ ObserveAgain(i, run, state)
             PROVE  LongitudinalInv'
    BY DEF IssueNext
<1>t. /\ threads \in [Issues -> Thread] /\ sightings \in [Issues -> Seq(Sighting)] /\ torn \subseteq Issues
      /\ LongitudinalTypeOK /\ ThreadsReadBack /\ RemainingIsRead /\ ClaimsRevive /\ ClaimedOnce
    BY DEF LongitudinalInv, LongitudinalTypeOK
<1>r. \A j \in Issues \ torn : ThreadReads(threads[j], sightings[j])
    BY <1>t, ThreadsRead
<1> DEFINE after == After(i, state)
<1>1. threads' = [threads EXCEPT ![i] = after] /\ UNCHANGED <<keyed, seenIn, claims>>
    BY DEF ObserveIssue, ObserveAgain
<1>2. after \in Thread
    <2>1. threads[i] \in Thread
        BY <1>t
    <2>2. threads[i].lifecycle \in {"NONE", "OPEN", "RESOLVED"} /\ threads[i].reopened \in Nat
        BY <2>1 DEF Thread
    <2>3. Opened(state) \in Thread
        BY DEF Opened, Thread
    <2>4. Moved(threads[i], state) \in Thread
        <3> DEFINE thread == threads[i]
        <3>0. \A t \in Thread : /\ [t EXCEPT !.lifecycle = "RESOLVED", !.closed = TRUE] \in Thread
                                /\ [t EXCEPT !.lifecycle = "OPEN"] \in Thread
            BY DEF Thread
        <3>1. /\ [lifecycle |-> "OPEN", reopened |-> thread.reopened + 1, closed |-> FALSE] \in Thread
              /\ [thread EXCEPT !.lifecycle = "RESOLVED", !.closed = TRUE] \in Thread
              /\ [thread EXCEPT !.lifecycle = "OPEN"] \in Thread
            <4>1. [lifecycle |-> "OPEN", reopened |-> thread.reopened + 1, closed |-> FALSE] \in Thread
                BY <2>2 DEF Thread
            <4> HIDE DEF thread
            <4>2. thread \in Thread
                BY <2>1 DEF thread
            <4> QED  BY <3>0, <4>1, <4>2
        <3> HIDE DEF thread
        <3>2. thread \in Thread
            BY <2>1 DEF thread
        <3>3. Moved(thread, state) \in Thread
            BY <3>1, <3>2, Zenon DEF Moved
        <3> QED  BY <3>3 DEF thread
    <2> QED  BY <2>3, <2>4 DEF After
<1> HIDE DEF after
<1>3. /\ threads' \in [Issues -> Thread] /\ threads'[i] = after
      /\ \A j \in Issues : j # i => threads'[j] = threads[j]
    BY <1>t, <1>1, <1>2
<1>4. RemainingIsRead' /\ ClaimsRevive' /\ ClaimedOnce'
    BY <1>t, <1>1 DEF RemainingIsRead, LeftNow, ClaimsRevive, ClaimedOnce
<1>5. CASE ObserveIssue(i, run, state)
    <2> DEFINE x == [run |-> run, state |-> state]
    <2>1. sightings' = [sightings EXCEPT ![i] = Append(@, x)] /\ UNCHANGED torn
        BY <1>5 DEF ObserveIssue
    <2>2. x \in Sighting
        BY DEF Sighting
    <2>3. /\ Append(sightings[i], x) \in Seq(Sighting) /\ sightings[i] \in Seq(Sighting)
        <3> HIDE DEF x
        <3> QED  BY <1>t, <2>2, Appended
    <2>4. /\ sightings' \in [Issues -> Seq(Sighting)] /\ sightings'[i] = Append(sightings[i], x)
          /\ \A j \in Issues : j # i => sightings'[j] = sightings[j]
        <3> HIDE DEF x
        <3> QED  BY <1>t, <2>1, <2>3
    <2>5. LongitudinalTypeOK'
        BY <1>t, <1>1, <1>3, <2>1, <2>4 DEF LongitudinalTypeOK
    <2>6. ASSUME NEW j \in Issues \ torn PROVE ThreadReads(threads'[j], sightings'[j])
        <3>1. CASE j # i
            BY <1>r, <1>3, <2>4, <3>1
        <3>2. CASE j = i
            <4>1. threads[i] \in Thread /\ ThreadReads(threads[i], sightings[i])
                BY <1>r, <1>t, <3>2
            <4>2. ThreadReads(after, Append(sightings[i], x))
                BY <2>3, <4>1, ThreadMoves DEF after, After
            <4> QED  BY <1>3, <2>4, <3>2, <4>2
        <3> QED  BY <3>1, <3>2
    <2>7. ThreadsReadBack'
        <3>1. ThreadsReadBack' <=> \A j \in Issues \ torn' : ThreadReads(threads'[j], sightings'[j])
            BY DEF ThreadsReadBack, ThreadReads, Reopenings
        <3> QED  BY <2>1, <2>6, <3>1
    <2> QED  BY <1>4, <2>5, <2>7 DEF LongitudinalInv
<1>6. CASE ObserveAgain(i, run, state)
    <2>1. torn' = torn \cup {i} /\ UNCHANGED sightings
        BY <1>6 DEF ObserveAgain
    <2>2. LongitudinalTypeOK'
        BY <1>t, <1>1, <1>3, <2>1 DEF LongitudinalTypeOK
    <2>3. ThreadsReadBack'
        <3>1. ThreadsReadBack' <=> \A j \in Issues \ torn' : ThreadReads(threads'[j], sightings'[j])
            BY DEF ThreadsReadBack, ThreadReads, Reopenings
        <3> QED  BY <1>r, <1>3, <2>1, <3>1
    <2> QED  BY <1>4, <2>2, <2>3 DEF LongitudinalInv
<1> QED  BY <1>5, <1>6

\* Every step about a tracked opportunity keeps it.
LEMMA TrackKeeps == LongitudinalInv /\ TrackNext => LongitudinalInv'
<1> SUFFICES ASSUME LongitudinalInv, TrackNext PROVE LongitudinalInv'
    OBVIOUS
<1>t. /\ keyed \in [OpportunityKeys -> KeyedRow] /\ seenIn \subseteq OpportunityKeys \X AnalysisRuns
      /\ claims \in [OpportunityKeys -> Orders]
      /\ LongitudinalTypeOK /\ ThreadsReadBack /\ RemainingIsRead /\ ClaimsRevive /\ ClaimedOnce
    BY DEF LongitudinalInv, LongitudinalTypeOK
<1>1. UNCHANGED <<threads, sightings, torn>>
    BY DEF TrackNext, TrackOpportunity, TrackAgain, RegisterClaim
<1>2. ThreadsReadBack'
    BY <1>t, <1>1 DEF ThreadsReadBack
<1>3. ASSUME NEW k \in OpportunityKeys, NEW run \in AnalysisRuns, NEW o \in Tracked, NEW stale \in BOOLEAN,
             TrackOpportunity(k, run, o, stale) \/ TrackAgain(k, run, o, stale)
      PROVE  LongitudinalInv'
    <2> DEFINE row == Reestimated(k, o, stale)
               left == LeftOf(Estimate[o], CountedOf(claims[k]))
    <2>1. /\ keyed' = [keyed EXCEPT ![k] = row] /\ UNCHANGED claims
          /\ seenIn' \subseteq seenIn \cup {<<k, run>>}
        BY <1>3 DEF TrackOpportunity, TrackAgain
    <2>2. Estimate[o] \in Nat /\ left \in Nat
        <3>1. Estimate[o] \in Nat
            BY LongitudinalAssumption DEF LongitudinalAssumption
        <3>2. CountedOf(claims[k]) \in Nat
            BY <1>t, CountsAreNear
        <3> QED  BY <3>1, <3>2, LeftShrinks
    <2>3. /\ row \in KeyedRow /\ row.expected = Estimate[o] /\ KeyReads(row, left)
          /\ row.state = "STALE" => row.remaining = 0
        <3> HIDE DEF left
        <3>1. row = [state |-> IF stale THEN "STALE"
                               ELSE IF left = 0 /\ keyed[k].state # "NONE" THEN "EXHAUSTED" ELSE "ACTIVE",
                     expected |-> Estimate[o], remaining |-> IF stale THEN 0 ELSE left]
            BY DEF Reestimated, left
        <3> HIDE DEF row
        <3>2. row \in KeyedRow
            BY <2>2, <3>1 DEF KeyedRow
        <3> QED  BY <3>1, <3>2 DEF KeyReads
    <2> HIDE DEF row
    <2>4. /\ keyed' \in [OpportunityKeys -> KeyedRow] /\ keyed'[k] = row
          /\ \A j \in OpportunityKeys : j # k => keyed'[j] = keyed[j]
        BY <1>t, <2>1, <2>3
    <2>5. LongitudinalTypeOK' /\ ClaimedOnce'
        BY <1>t, <1>1, <2>1, <2>4 DEF LongitudinalTypeOK, ClaimedOnce
    <2>6. RemainingIsRead'
        <3> SUFFICES ASSUME NEW j \in OpportunityKeys PROVE KeyReads(keyed'[j], LeftNow(j)')
            BY DEF RemainingIsRead
        <3>1. CASE j = k
            BY <2>1, <2>3, <2>4, <3>1 DEF LeftNow
        <3>2. CASE j # k
            BY <1>t, <2>1, <2>4, <3>2 DEF RemainingIsRead, LeftNow
        <3> QED  BY <3>1, <3>2
    <2>7. ClaimsRevive'
        BY <1>t, <2>1, <2>3, <2>4 DEF ClaimsRevive
    <2> QED  BY <1>2, <2>5, <2>6, <2>7 DEF LongitudinalInv
<1>4. ASSUME NEW k \in OpportunityKeys, NEW b \in BenefitLegs, RegisterClaim(k, b)
      PROVE  LongitudinalInv'
    <2> DEFINE more == Append(claims[k], b)
               left == LeftOf(keyed[k].expected, CountedOf(more))
               row == [keyed[k] EXCEPT !.remaining = left, !.state = IF left = 0 THEN "EXHAUSTED" ELSE @]
    <2>1. /\ claims' = [claims EXCEPT ![k] = more] /\ UNCHANGED seenIn
          /\ \A j \in OpportunityKeys : b \notin Range(claims[j])
        BY <1>4 DEF RegisterClaim
    <2>2. claims[k] \in Orders /\ more \in Orders /\ Range(more) = Range(claims[k]) \cup {b}
        BY <1>t, <2>1, OrderExtends
    <2>o. more # <<>>
        <3>1. claims[k] \in Seq(BenefitLegs)
            BY <2>2 DEF Orders
        <3>2. Len(more) = Len(claims[k]) + 1 /\ Len(claims[k]) \in Nat
            BY <3>1, Appended
        <3> HIDE DEF more
        <3> QED  BY <3>2
    <2> HIDE DEF more
    <2>3. /\ claims' \in [OpportunityKeys -> Orders] /\ claims'[k] = more
          /\ \A j \in OpportunityKeys : j # k => claims'[j] = claims[j]
        BY <1>t, <2>1, <2>2
    <2>4. keyed' = [keyed EXCEPT ![k] = row]
        BY <1>4, <2>3 DEF RegisterClaim
    <2>5. keyed[k] \in KeyedRow /\ keyed[k].expected \in Nat
        BY <1>t DEF KeyedRow
    <2>6. left \in Nat /\ (LeftNow(k) = 0 => left = 0)
        <3>1. CountedOf(claims[k]) \in Nat /\ CountedOf(more) \in Nat /\ CountedOf(claims[k]) <= CountedOf(more)
            BY <2>2, CountsAreNear DEF more
        <3> QED  BY <2>5, <3>1, LeftShrinks DEF LeftNow
    <2>7. KeyReads(keyed[k], LeftNow(k))
        BY <1>t DEF RemainingIsRead
    <2> HIDE DEF left
    <2>8. /\ row \in KeyedRow /\ row.expected = keyed[k].expected /\ row.remaining = left
          /\ row.state = IF left = 0 THEN "EXHAUSTED" ELSE keyed[k].state
        BY <2>5, <2>6 DEF KeyedRow
    <2> HIDE DEF row
    <2>9. KeyReads(row, left)
        BY <2>6, <2>7, <2>8 DEF KeyReads
    <2>10. /\ keyed' \in [OpportunityKeys -> KeyedRow] /\ keyed'[k] = row
           /\ \A j \in OpportunityKeys : j # k => keyed'[j] = keyed[j]
        BY <1>t, <2>4, <2>8
    <2>11. LongitudinalTypeOK'
        BY <1>t, <1>1, <2>1, <2>3, <2>10 DEF LongitudinalTypeOK
    <2>12. RemainingIsRead'
        <3> SUFFICES ASSUME NEW j \in OpportunityKeys PROVE KeyReads(keyed'[j], LeftNow(j)')
            BY DEF RemainingIsRead
        <3>1. CASE j = k
            <4>1. LeftNow(j)' = left
                BY <2>3, <2>8, <2>10, <3>1 DEF LeftNow, left
            <4> QED  BY <2>9, <2>10, <3>1, <4>1
        <3>2. CASE j # k
            BY <1>t, <2>3, <2>10, <3>2 DEF RemainingIsRead, LeftNow
        <3> QED  BY <3>1, <3>2
    <2>13. ClaimedOnce'
        <3> SUFFICES ASSUME NEW i \in OpportunityKeys, NEW j \in OpportunityKeys, i # j
                     PROVE  Range(claims'[i]) \cap Range(claims'[j]) = {}
            BY DEF ClaimedOnce
        <3>1. Range(claims[i]) \cap Range(claims[j]) = {}
            BY <1>t DEF ClaimedOnce
        <3>2. \A u \in OpportunityKeys :
                  Range(claims'[u]) = IF u = k THEN Range(claims[u]) \cup {b} ELSE Range(claims[u])
            BY <2>2, <2>3
        <3>3. b \notin Range(claims[i]) /\ b \notin Range(claims[j])
            BY <2>1
        <3>4. CASE i = k
            BY <3>1, <3>2, <3>3, <3>4
        <3>5. CASE i # k
            BY <3>1, <3>2, <3>3, <3>5
        <3> QED  BY <3>4, <3>5
    <2>14. ClaimsRevive'
        BY <1>t, <2>o, <2>3, <2>10 DEF ClaimsRevive
    <2> QED  BY <1>2, <2>11, <2>12, <2>13, <2>14 DEF LongitudinalInv
<1>5. CASE \E k \in OpportunityKeys, run \in AnalysisRuns, o \in Tracked, stale \in BOOLEAN :
              TrackOpportunity(k, run, o, stale) \/ TrackAgain(k, run, o, stale)
    BY <1>3, <1>5, Zenon
<1>6. CASE \E k \in OpportunityKeys, b \in BenefitLegs : RegisterClaim(k, b)
    BY <1>4, <1>6, Zenon
<1> QED  BY <1>5, <1>6, Zenon DEF TrackNext

\* Every step of the register keeps it.
LEMMA LongitudinalInvNext == LongitudinalInv /\ [LongitudinalNext]_longitudinalVars => LongitudinalInv'
<1>1. ASSUME LongitudinalInv, UNCHANGED longitudinalVars PROVE LongitudinalInv'
    <2>1. UNCHANGED <<threads, sightings, torn, keyed, seenIn, claims>>
        BY <1>1 DEF longitudinalVars
    <2>2. LongitudinalTypeOK' /\ ClaimsRevive' /\ ClaimedOnce'
        BY <1>1, <2>1 DEF LongitudinalInv, LongitudinalTypeOK, ClaimsRevive, ClaimedOnce
    <2>3. ThreadsReadBack'
        BY <1>1, <2>1 DEF LongitudinalInv, ThreadsReadBack
    <2>4. RemainingIsRead'
        BY <1>1, <2>1 DEF LongitudinalInv, RemainingIsRead, LeftNow
    <2> QED  BY <2>2, <2>3, <2>4 DEF LongitudinalInv
<1> QED  BY <1>1, IssueKeeps, TrackKeeps DEF LongitudinalNext

\* What is left by the sum that is read is left to the penny, but for Drift.
LEMMA ReadIsUnclaimed == LongitudinalInv => LongitudinalReadsBack
<1> SUFFICES ASSUME LongitudinalInv PROVE RemainingIsUnclaimed
    BY DEF LongitudinalReadsBack, LongitudinalInv
<1>t. /\ keyed \in [OpportunityKeys -> KeyedRow] /\ claims \in [OpportunityKeys -> Orders]
      /\ RemainingIsRead /\ ClaimsRevive /\ ClaimedOnce
    BY DEF LongitudinalInv, LongitudinalTypeOK
<1>1. ASSUME NEW k \in OpportunityKeys
      PROVE  LET unclaimed == LeftOf(keyed[k].expected, ClaimedOf(k)) IN
             /\ keyed[k].state = "ACTIVE" => Near(keyed[k].remaining, unclaimed)
             /\ keyed[k].state = "EXHAUSTED" => keyed[k].remaining = 0 /\ unclaimed <= Drift
             /\ keyed[k].state = "STALE" /\ keyed[k].remaining # 0 =>
                   claims[k] # <<>> /\ Near(keyed[k].remaining, unclaimed)
    <2>1. keyed[k].expected \in Nat
        BY <1>t DEF KeyedRow
    <2>2. /\ CountedOf(claims[k]) \in Nat /\ ClaimedOf(k) \in Nat
          /\ Near(CountedOf(claims[k]), ClaimedOf(k))
        BY <1>t, CountsAreNear DEF ClaimedOf
    <2>3. /\ Near(LeftNow(k), LeftOf(keyed[k].expected, ClaimedOf(k)))
          /\ LeftNow(k) = 0 => LeftOf(keyed[k].expected, ClaimedOf(k)) <= Drift
        BY <2>1, <2>2, LeftShrinks DEF LeftNow
    <2>4. KeyReads(keyed[k], LeftNow(k))
        BY <1>t DEF RemainingIsRead
    <2>5. keyed[k].state = "STALE" /\ claims[k] = <<>> => keyed[k].remaining = 0
        BY <1>t DEF ClaimsRevive
    <2> QED  BY <2>3, <2>4, <2>5 DEF KeyReads
<1> QED  BY <1>t, <1>1 DEF RemainingIsUnclaimed, ClaimedOnce

\* The tables keep their shape; a thread no failed observation tore is what its
\* observations say, and what remains of an opportunity is its latest estimate
\* less whatever was claimed, to the digits that a binary sum of the claims
\* leaves, for any issues, keys, runs and amounts and any such sum.
THEOREM LongitudinalTraced == LongitudinalSpec => [](LongitudinalTypeOK /\ LongitudinalReadsBack)
<1>1. LongitudinalSpec => []LongitudinalInv
    BY LongitudinalInvInit, LongitudinalInvNext, PTL DEF LongitudinalSpec
<1>2. LongitudinalInv => LongitudinalTypeOK /\ LongitudinalReadsBack
    BY ReadIsUnclaimed DEF LongitudinalInv
<1> QED  BY <1>1, <1>2, PTL

\* Threads, tracked opportunities, revisions and baselines read back as their
\* histories say.
THEOREM RegistersTraced == LongitudinalSpec /\ RestatementSpec => []RegistersReadBack
<1>1. LongitudinalReadsBack /\ RestatementsReadBack => RegistersReadBack
    BY DEF RegistersReadBack
<1> QED  BY <1>1, LongitudinalTraced, RestatementsTraced, PTL

-----------------------------------------------------------------------------
(* The agenda *)

Reasoned(r) == step[r] \notin {"ABSENT", "DRAWN"}

\* Rows belong to runs that have come far enough to have written them, and what
\* each rests on is there: a version on its bundle, its finding and a signal
\* nothing suppressed, a row of the economics on a version.
AgendaRows ==
    /\ \A v \in versions :
          /\ Reasoned(v.run) /\ <<v.run, v.at>> \notin suppressed /\ v.key \in DOMAIN findings
    /\ (\A p \in profiles : Reasoned(p.run)) /\ (\A row \in suppressed : Reasoned(row[1]))
    /\ \A o \in economics :
          /\ o.run \in AgendaRuns /\ step[o.run] \in {"RESOLVED", "REGISTERED"}
          /\ o.amount => \E v \in versions : v.run = o.run /\ v.key = o.finding /\ Theoretical(SignalAt(v.run, v.at))
    /\ \A o, p \in economics : o.run = p.run /\ o.kind = p.kind /\ o.finding = p.finding => o = p

\* The tables that have a row per run have one for every run.
AgendaTables ==
    /\ DOMAIN queue = AgendaRuns /\ DOMAIN agenda = AgendaRuns /\ DOMAIN register = AgendaRuns

AgendaInv == AgendaTypeOK /\ AgendaTables /\ AgendaRows /\ AdviceIsTraceable

\* What AgendaIsEarned says of one run, and what RegisterIsTraceable does.
AgendaEarned(r, items, queued) ==
    LET chosen == {item.theme : item \in Range(items)}
    IN  /\ Len(items) = Cardinality(chosen) /\ Len(items) <= MaxItems
        /\ \A item \in Range(items) :
              /\ item.evidence = {} => item.theme = "DATA_CAPACITY"
              /\ \A i \in DOMAIN SignalsOf[r] :
                    i \in item.evidence <=> Theme(SignalAt(r, i)) = item.theme /\ SignalAt(r, i).mat \in {"MEDIUM", "HIGH"}
              /\ \A theme \in ThemesOf(r) \ chosen : Score(r, theme) <= Score(r, item.theme)
        /\ [k \in DOMAIN queued |-> queued[k].id] = [k \in DOMAIN items |-> items[k].theme]

RegisterEarned(r, rows, items) ==
    /\ [k \in DOMAIN rows |-> rows[k].theme] = [k \in DOMAIN items |-> items[k].theme]
    /\ \A k \in DOMAIN rows : \A o \in rows[k].candidate :
          /\ \E v \in versions : /\ v.run = r /\ v.key = o.finding /\ <<r, v.at>> \notin suppressed
                                 /\ Theme(SignalAt(r, v.at)) = rows[k].theme
          /\ rows[k].amount =>
                \E v \in versions : v.run = r /\ v.key = o.finding /\ (SignalAt(r, v.at).fall \/ SignalAt(r, v.at).type \in Receivables)

Agreed(r) == step[r] \notin {"ABSENT", "DRAWN", "REASONED"}

\* The advice of all the runs is that of each.
LEMMA AdviceByRun ==
    ASSUME AgendaTypeOK, AgendaRows
    PROVE  /\ AgendaIsEarned <=> \A r \in AgendaRuns : Agreed(r) => AgendaEarned(r, agenda[r], queue[r])
           /\ RegisterIsTraceable <=>
                 \A r \in AgendaRuns : step[r] = "REGISTERED" => RegisterEarned(r, register[r], agenda[r])
<1>1. AgendaIsEarned <=> \A r \in AgendaRuns : Agreed(r) => AgendaEarned(r, agenda[r], queue[r])
    BY DEF AgendaIsEarned, AgendaEarned, Agreed
<1>2. \A o, p \in economics : o.run = p.run /\ o.kind = p.kind /\ o.finding = p.finding => o = p
    BY DEF AgendaRows
<1>3. RegisterIsTraceable <=>
         \A r \in AgendaRuns : step[r] = "REGISTERED" => RegisterEarned(r, register[r], agenda[r])
    BY <1>2, SMTT(30) DEF RegisterIsTraceable, RegisterEarned
<1> QED  BY <1>1, <1>3

\* The steps of a run.
LEMMA StepsAre == Range(Steps) = {"DRAWN", "REASONED", "AGREED", "RESOLVED", "REGISTERED"}
<1>1. DOMAIN Steps = {1, 2, 3, 4, 5}
    BY DEF Steps
<1>2. Range(Steps) = {Steps[i] : i \in {1, 2, 3, 4, 5}}
    BY <1>1, Zenon DEF Range
<1> QED  BY <1>2 DEF Steps

\* A step of one run that leaves its rows as they are, or of none.
LEMMA OnlyStepMoves ==
    ASSUME AgendaInv, NEW r \in AgendaRuns, (step' = [step EXCEPT ![r] = "DRAWN"] /\ step[r] = "ABSENT") \/ UNCHANGED step,
           contexts' \subseteq ContextEvents,
           UNCHANGED <<suppressed, profiles, bundles, clusters, findings, versions, queue, agenda, stories,
                       economics, register>>
    PROVE  AgendaInv'
<1>t. AgendaTypeOK /\ AgendaTables /\ AgendaRows /\ FindingsAreEarned /\ AgendaIsEarned /\ RegisterIsTraceable
    BY DEF AgendaInv, AdviceIsTraceable
<1>1. /\ step' \in [AgendaRuns -> {"ABSENT"} \cup Range(Steps)]
      /\ \A s \in AgendaRuns : /\ Reasoned(s) => Reasoned(s)'
                               /\ Agreed(s)' => Agreed(s)
                               /\ step'[s] \in {"RESOLVED", "REGISTERED"} <=> step[s] \in {"RESOLVED", "REGISTERED"}
                               /\ step'[s] = "REGISTERED" => step[s] = "REGISTERED"
    BY <1>t, StepsAre DEF AgendaTypeOK, Reasoned, Agreed
<1>2. AgendaTypeOK' /\ AgendaTables'
    BY <1>t, <1>1 DEF AgendaTypeOK, AgendaTables
<1>3. AgendaRows'
    BY <1>t, <1>1 DEF AgendaRows, AgendaTypeOK
<1>4. FindingsAreEarned'
    BY <1>t DEF FindingsAreEarned
<1>5. \A s \in AgendaRuns : Agreed(s)' => AgendaEarned(s, agenda[s], queue[s])'
    BY <1>t, <1>1, AdviceByRun DEF AgendaEarned
<1>6. \A s \in AgendaRuns : step'[s] = "REGISTERED" => RegisterEarned(s, register[s], agenda[s])'
    BY <1>t, <1>1, AdviceByRun DEF RegisterEarned
<1>7. AgendaIsEarned' /\ RegisterIsTraceable'
    <2>1. AgendaIsEarned'
        BY <1>5 DEF AgendaIsEarned, AgendaEarned, Agreed
    <2>2. RegisterIsTraceable'
        BY <1>3, <1>6, SMTT(30) DEF RegisterIsTraceable, RegisterEarned, AgendaRows
    <2> QED  BY <2>1, <2>2
<1> QED  BY <1>2, <1>3, <1>4, <1>7 DEF AgendaInv, AdviceIsTraceable

\* Nothing has been reasoned about to begin with.
LEMMA AgendaInvInit == AgendaInit => AgendaInv
<1> SUFFICES ASSUME AgendaInit PROVE AgendaInv
    OBVIOUS
<1>1. /\ contexts = {} /\ step = [r \in AgendaRuns |-> "ABSENT"]
      /\ suppressed = {} /\ profiles = {} /\ bundles = {} /\ versions = {} /\ economics = {}
      /\ DOMAIN findings = {} /\ DOMAIN stories = {}
      /\ DOMAIN queue = AgendaRuns /\ DOMAIN agenda = AgendaRuns /\ DOMAIN register = AgendaRuns
    BY DEF AgendaInit
<1>2. AgendaTypeOK /\ AgendaTables /\ AgendaRows
    BY <1>1 DEF AgendaTypeOK, AgendaTables, AgendaRows
<1>3. FindingsAreEarned
    BY <1>1 DEF FindingsAreEarned
<1>4. AgendaIsEarned /\ RegisterIsTraceable
    BY <1>1 DEF AgendaIsEarned, RegisterIsTraceable
<1> QED  BY <1>2, <1>3, <1>4 DEF AgendaInv, AdviceIsTraceable

\* What a run's findings rest on is of its signals, and no context of those
\* that become a finding explains or disputes them.
LEMMA ReasonKeeps ==
    ASSUME AgendaInv, NEW r \in AgendaRuns, Reason(r) PROVE AgendaInv'
<1> DEFINE effect(i) == Effect(Context(SignalAt(r, i)))
           read == DOMAIN SignalsOf[r]
           quiet == {i \in read : effect(i) = "SUPPRESS"}
           told == {i \in read \ quiet : Rank[SignalAt(r, i).mat] > 0}
           raised == {i \in told : Rank[SignalAt(r, i).mat] >= 2 /\ effect(i) # "CONTRADICT"}
           key(i) == FindingKey(SignalAt(r, i))
           version(i) == [run |-> r, at |-> i, key |-> FindingKey(SignalAt(r, i)), mat |-> SignalAt(r, i).mat,
                          priority |-> Priority(SignalAt(r, i).mat, Confidence(SignalAt(r, i), FALSE))]
           profile(i) == [run |-> r, at |-> i, state |-> IF Repeats(r, SignalAt(r, i)) THEN "REPEATED" ELSE "EMERGING"]
           bundle(i) == [run |-> r, at |-> i, context |-> Context(SignalAt(r, i)),
                         confidence |-> Confidence(SignalAt(r, i), effect(i) = "CONTRADICT"),
                         status |-> IF effect(i) = "CONTRADICT" THEN "HELD_CONTRADICTORY" ELSE "READY_FOR_FD_REVIEW"]
           keys == {key(i) : i \in raised}
<1>t. AgendaTypeOK /\ AgendaTables /\ AgendaRows /\ FindingsAreEarned /\ AgendaIsEarned /\ RegisterIsTraceable
    BY DEF AgendaInv, AdviceIsTraceable
<1>1. /\ step[r] = "DRAWN" /\ step' = [step EXCEPT ![r] = "REASONED"]
      /\ UNCHANGED <<contexts, agenda, stories, economics, register>>
    BY DEF Reason, Advance, economicVars
<1>2. /\ suppressed' = suppressed \cup {<<r, i>> : i \in quiet}
      /\ profiles' = profiles \cup {profile(i) : i \in read}
    BY DEF Reason
<1>3. bundles' = bundles \cup {bundle(i) : i \in told}
    BY DEF Reason
<1>4. versions' = versions \cup {version(i) : i \in raised} /\ findings' = Reached(findings, keys, r)
    BY DEF Reason
<1>5. DOMAIN queue' = AgendaRuns /\ \A s \in AgendaRuns : s # r => queue'[s] = queue[s]
    BY <1>t DEF Reason, AgendaTables
<1>6. /\ quiet \subseteq read /\ told \subseteq read /\ raised \subseteq told
      /\ \A i \in told : i \notin quiet
      /\ \A i \in read : /\ version(i).run = r /\ version(i).at = i /\ version(i).key = key(i)
                         /\ profile(i).run = r /\ profile(i).at = i /\ bundle(i).run = r /\ bundle(i).at = i
                         /\ bundle(i).context = Context(SignalAt(r, i))
    OBVIOUS
<1>7. ASSUME NEW i \in raised
      PROVE  /\ bundle(i).status = "READY_FOR_FD_REVIEW"
             /\ \A c \in bundle(i).context : c.type \notin HardContext \cup Dispute
    <2>1. effect(i) # "CONTRADICT" /\ effect(i) # "SUPPRESS"
        OBVIOUS
    <2>2. \A c \in Context(SignalAt(r, i)) : c.type \notin HardContext \cup Dispute
        BY <2>1 DEF Effect
    <2> QED  BY <2>1, <2>2
<1>8. \A i \in read : profile(i).state = IF Repeats(r, SignalAt(r, i)) THEN "REPEATED" ELSE "EMERGING"
    OBVIOUS
<1> HIDE DEF effect, read, quiet, told, raised, key, version, profile, bundle
<1>9. /\ step' \in [AgendaRuns -> {"ABSENT"} \cup Range(Steps)] /\ step'[r] = "REASONED"
      /\ \A s \in AgendaRuns : s # r => step'[s] = step[s]
    BY <1>t, <1>1, StepsAre DEF AgendaTypeOK
<1>10. \A s \in AgendaRuns : /\ Reasoned(s) => s # r /\ Reasoned(s)'
                             /\ Agreed(s)' => s # r /\ Agreed(s)
                             /\ step'[s] = "REGISTERED" => s # r /\ step[s] = "REGISTERED"
                             /\ step[s] \in {"RESOLVED", "REGISTERED"} => step'[s] \in {"RESOLVED", "REGISTERED"}
    BY <1>1, <1>9 DEF Reasoned, Agreed
<1>11. Reasoned(r)'
    BY <1>9 DEF Reasoned
<1>12. /\ DOMAIN findings' = DOMAIN findings \cup keys
       /\ \A k \in keys : findings'[k].last = r /\ findings'[k].first \in {r} \cup
                              {findings[j].first : j \in {k} \cap DOMAIN findings}
       /\ \A k \in DOMAIN findings \ keys : findings'[k] = findings[k]
    <2> HIDE DEF keys
    <2> QED  BY <1>4 DEF Reached
<1>13. AgendaTypeOK'
    <2>1. \A k \in DOMAIN findings' : findings'[k].first \in AgendaRuns /\ findings'[k].last \in AgendaRuns
        <3> HIDE DEF keys
        <3> QED  BY <1>t, <1>12 DEF AgendaTypeOK
    <2>2. \A row \in suppressed' : row[1] \in AgendaRuns /\ row[2] \in DOMAIN SignalsOf[row[1]]
        BY <1>t, <1>2, <1>6 DEF AgendaTypeOK, read
    <2>3. \A row \in profiles' : row.run \in AgendaRuns /\ row.at \in DOMAIN SignalsOf[row.run]
        BY <1>t, <1>2, <1>6 DEF AgendaTypeOK, read
    <2>4. \A row \in bundles' : row.run \in AgendaRuns /\ row.at \in DOMAIN SignalsOf[row.run]
        BY <1>t, <1>3, <1>6 DEF AgendaTypeOK, read
    <2>5. \A row \in versions' : row.run \in AgendaRuns /\ row.at \in DOMAIN SignalsOf[row.run]
        BY <1>t, <1>4, <1>6 DEF AgendaTypeOK, read
    <2>6. /\ \A k \in DOMAIN stories' : stories'[k].first \in AgendaRuns /\ stories'[k].last \in AgendaRuns
          /\ \A o \in economics' : o.finding \in DOMAIN findings' /\ o.story \in DOMAIN stories'
        BY <1>t, <1>1, <1>12 DEF AgendaTypeOK
    <2>7. contexts' \subseteq ContextEvents
        BY <1>t, <1>1 DEF AgendaTypeOK
    <2> QED  BY <1>9, <2>1, <2>2, <2>3, <2>4, <2>5, <2>6, <2>7 DEF AgendaTypeOK
<1>14. AgendaTables'
    BY <1>t, <1>1, <1>5 DEF AgendaTables
<1>15. \A v \in versions' : v \in versions \/ \E i \in raised : v = version(i)
    BY <1>4
<1>16. AgendaRows'
    <2>1. ASSUME NEW v \in versions'
          PROVE  Reasoned(v.run)' /\ <<v.run, v.at>> \notin suppressed' /\ v.key \in DOMAIN findings'
        <3>1. CASE v \in versions
            <4>1. v.run \in AgendaRuns /\ Reasoned(v.run) /\ <<v.run, v.at>> \notin suppressed /\ v.key \in DOMAIN findings
                BY <1>t, <3>1 DEF AgendaTypeOK, AgendaRows
            <4> QED  BY <1>2, <1>10, <1>12, <4>1
        <3>2. CASE \E i \in raised : v = version(i)
            <4>1. PICK i \in raised : v = version(i)
                BY <3>2
            <4>2. i \in read /\ i \notin quiet /\ v.run = r /\ v.at = i /\ v.key \in keys
                BY <1>6, <4>1
            <4>3. <<r, i>> \notin suppressed
                <5>1. \A row \in suppressed : Reasoned(row[1])
                    BY <1>t DEF AgendaRows
                <5>2. ~Reasoned(r)
                    BY <1>1 DEF Reasoned
                <5> QED  BY <5>1, <5>2
            <4> QED  BY <1>2, <1>11, <1>12, <4>2, <4>3
        <3> QED  BY <1>15, <3>1, <3>2
    <2>2. \A p \in profiles' : Reasoned(p.run)'
        BY <1>t, <1>2, <1>6, <1>10, <1>11 DEF AgendaRows, AgendaTypeOK
    <2>3. \A row \in suppressed' : Reasoned(row[1])'
        BY <1>t, <1>2, <1>10, <1>11 DEF AgendaRows, AgendaTypeOK
    <2>4. \A o \in economics' :
              /\ o.run \in AgendaRuns /\ step'[o.run] \in {"RESOLVED", "REGISTERED"}
              /\ o.amount => \E v \in versions' : v.run = o.run /\ v.key = o.finding /\ Theoretical(SignalAt(v.run, v.at))
        BY <1>t, <1>1, <1>4, <1>10 DEF AgendaRows
    <2>5. \A o, p \in economics' : o.run = p.run /\ o.kind = p.kind /\ o.finding = p.finding => o = p
        BY <1>t, <1>1 DEF AgendaRows
    <2> QED  BY <2>1, <2>2, <2>3, <2>4, <2>5 DEF AgendaRows
<1>17. ASSUME NEW v \in versions'
       PROVE  \E b \in bundles' : /\ b.run = v.run /\ b.at = v.at /\ b.status = "READY_FOR_FD_REVIEW"
                                  /\ \A c \in b.context : c.type \notin HardContext \cup Dispute
    <2>1. CASE v \in versions
        <3>1. PICK b \in bundles : /\ b.run = v.run /\ b.at = v.at /\ b.status = "READY_FOR_FD_REVIEW"
                                   /\ \A c \in b.context : c.type \notin HardContext \cup Dispute
            BY <1>t, <2>1 DEF FindingsAreEarned
        <3> QED  BY <1>3, <3>1
    <2>2. CASE \E i \in raised : v = version(i)
        <3>1. PICK i \in raised : v = version(i)
            BY <2>2
        <3>2. i \in read /\ i \in told /\ bundle(i) \in bundles'
            BY <1>3, <1>6
        <3> QED  BY <1>6, <1>7, <3>1, <3>2
    <2> QED  BY <1>15, <2>1, <2>2
<1>18. ASSUME NEW k \in DOMAIN findings', NEW s \in {findings'[k].first, findings'[k].last}
       PROVE  \E v \in versions' : v.run = s /\ v.key = k
    <2>1. CASE k \in DOMAIN findings /\ s \in {findings[k].first, findings[k].last}
        BY <1>t, <1>4, <2>1 DEF FindingsAreEarned
    <2>2. CASE k \in keys /\ s = r
        <3>1. PICK i \in raised : k = key(i)
            BY <2>2 DEF keys
        <3>2. version(i) \in versions' /\ version(i).run = r /\ version(i).key = k
            BY <1>4, <1>6, <3>1
        <3> QED  BY <2>2, <3>2
    <2>3. \/ k \in DOMAIN findings /\ s \in {findings[k].first, findings[k].last}
          \/ k \in keys /\ s = r
        <3> HIDE DEF keys
        <3> QED  BY <1>12
    <2> QED  BY <2>1, <2>2, <2>3
<1>19. ASSUME NEW p \in profiles', NEW q \in profiles', p.run # q.run,
              Alike(SignalAt(p.run, p.at), SignalAt(q.run, q.at))
       PROVE  "REPEATED" \in {p.state, q.state}
    <2>1. ASSUME NEW i \in read, NEW o \in profiles, o.run # r,
                 Alike(SignalAt(o.run, o.at), SignalAt(r, i))
          PROVE  profile(i).state = "REPEATED"
        <3>1. o.run \in AgendaRuns \ {r} /\ o.at \in DOMAIN SignalsOf[o.run] /\ step[o.run] # "ABSENT"
            BY <1>t, <2>1 DEF AgendaTypeOK, AgendaRows, Reasoned
        <3>2. SignalAt(o.run, o.at) \in Range(SignalsOf[o.run])
            BY <3>1 DEF SignalAt, Range
        <3>3. Repeats(r, SignalAt(r, i))
            BY <2>1, <3>1, <3>2 DEF Repeats
        <3> QED  BY <1>8, <3>3
    <2>2. \A x \in profiles' : x \in profiles \/ \E i \in read : x = profile(i)
        BY <1>2
    <2>3. CASE p \in profiles /\ q \in profiles
        BY <1>t, <1>19, <2>3 DEF FindingsAreEarned
    <2>4. CASE p \in profiles /\ \E i \in read : q = profile(i)
        <3>1. PICK i \in read : q = profile(i)
            BY <2>4
        <3> QED  BY <1>6, <1>19, <2>1, <2>4, <3>1
    <2>5. CASE q \in profiles /\ \E i \in read : p = profile(i)
        <3>1. PICK i \in read : p = profile(i)
            BY <2>5
        <3>2. q.run # r /\ Alike(SignalAt(q.run, q.at), SignalAt(r, i))
            BY <1>6, <1>19, <3>1 DEF Alike
        <3> QED  BY <2>1, <2>5, <3>1, <3>2
    <2>6. ~((\E i \in read : p = profile(i)) /\ (\E i \in read : q = profile(i)))
        BY <1>6, <1>19
    <2> QED  BY <2>2, <2>3, <2>4, <2>5, <2>6
<1>20. FindingsAreEarned'
    BY <1>17, <1>18, <1>19 DEF FindingsAreEarned
<1>21. AgendaIsEarned'
    <2>1. \A s \in AgendaRuns : Agreed(s)' => AgendaEarned(s, agenda'[s], queue'[s])
        BY <1>t, <1>1, <1>5, <1>10, AdviceByRun
    <2> QED  BY <2>1 DEF AgendaIsEarned, AgendaEarned, Agreed
<1>22. RegisterIsTraceable'
    <2>1. ASSUME NEW s \in AgendaRuns, step'[s] = "REGISTERED"
          PROVE  RegisterEarned(s, register[s], agenda[s])'
        <3>1. s # r /\ step[s] = "REGISTERED" /\ RegisterEarned(s, register[s], agenda[s])
            BY <1>t, <1>10, <2>1, AdviceByRun
        <3>2. versions \subseteq versions' /\ \A i : <<s, i>> \in suppressed' => <<s, i>> \in suppressed
            BY <1>2, <1>4, <3>1
        <3> QED  BY <1>1, <3>1, <3>2, SMTT(30) DEF RegisterEarned
    <2> QED  BY <1>16, <2>1 DEF RegisterIsTraceable, RegisterEarned, AgendaRows
<1> QED  BY <1>13, <1>14, <1>16, <1>20, <1>21, <1>22 DEF AgendaInv, AdviceIsTraceable

\* An order of a finite set names each of its elements once.
LEMMA OrdersASet ==
    ASSUME NEW S, IsFiniteSet(S), NEW order \in SetToSeqs(S)
    PROVE  /\ order \in Seq(S) /\ Len(order) = Cardinality(S) /\ DOMAIN order = 1..Len(order)
           /\ \A i, j \in DOMAIN order : i # j => order[i] # order[j]
           /\ \A x \in S : \E i \in DOMAIN order : order[i] = x
<1> DEFINE n == Cardinality(S)
<1>1. n \in Nat
    BY FS_CardinalityType
<1>2. order \in [1..n -> S] /\ \A i, j \in 1..n : i # j => order[i] # order[j]
    BY DEF SetToSeqs
<1>3. order \in Seq(S) /\ Len(order) = n /\ DOMAIN order = 1..n
    BY <1>1, <1>2
<1>4. order \in Injection(1..n, S)
    BY <1>2 DEF Injection, IsInjective
<1>5. IsFiniteSet(1..n) /\ Cardinality(1..n) = n
    <2>1. 1..n = {} => n = 0
        BY <1>1
    <2> QED  BY <1>1, <2>1, FS_Interval
<1>6. order \in Surjection(1..n, S)
    BY <1>4, <1>5, FS_Injection
<1> QED  BY <1>2, <1>3, <1>6 DEF Surjection

\* The first elements of a sequence, at most a number of them, and all where
\* those were too few.
LEMMA SelectsFirst ==
    ASSUME NEW S, NEW order \in Seq(S), NEW least \in Nat, NEW most \in Nat, least <= most,
           NEW some, some = SubSeq(order, 1, IF Len(order) < most THEN Len(order) ELSE most),
           NEW selected, selected = IF Len(some) < least THEN order ELSE some
    PROVE  /\ selected \in Seq(S) /\ DOMAIN selected = 1..Len(selected) /\ Len(selected) \in Nat
           /\ Len(selected) <= Len(order) /\ Len(selected) <= most
           /\ \A k \in 1..Len(selected) : selected[k] = order[k]
<1> DEFINE m == IF Len(order) < most THEN Len(order) ELSE most
<1>1. m \in Nat /\ m <= Len(order) /\ m <= most /\ (m < least => m = Len(order))
    OBVIOUS
<1>2. \A i \in 1..m : order[i] \in S
    BY <1>1
<1>3. /\ some \in Seq(S) /\ Len(some) = m
      /\ \A i \in 1..m : some[i] = order[i]
    <2>1. some = SubSeq(order, 1, m)
        OBVIOUS
    <2> HIDE DEF m
    <2>2. /\ some \in Seq(S)
          /\ Len(some) = IF 1 <= m THEN m - 1 + 1 ELSE 0
          /\ \A i \in 1..(m - 1 + 1) : some[i] = order[1 + i - 1]
        <3> HIDE <1>1
        <3>1. m \in Int /\ 1 \in Int
            BY <1>1
        <3> QED  BY <1>2, <2>1, <3>1, SubSeqProperties
    <2> QED  BY <1>1, <2>2
<1>4. CASE Len(some) < least
    BY <1>1, <1>3, <1>4
<1>5. CASE ~ (Len(some) < least)
    <2>1. selected = some
        BY <1>5
    <2> HIDE DEF m
    <2> QED  BY <1>1, <1>3, <2>1
<1> QED  BY <1>4, <1>5

\* There are finitely many themes.
LEMMA ThemesFinite == ASSUME NEW r PROVE IsFiniteSet(ThemesOf(r))
<1>1. DOMAIN Tie = {"FINANCIAL_INTEGRITY", "CAPACITY_CONSTRAINT", "MARGIN_PRICING", "WORKING_CAPITAL",
                    "CUSTOMER_ECONOMICS", "SUPPLIER_DEPENDENCY", "REVENUE_PERFORMANCE", "FORECAST_CONTROL",
                    "PEOPLE_PRODUCTIVITY", "DATA_CAPACITY"}
    BY DEF Tie
<1>2. ThemesOf(r) \subseteq DOMAIN Tie
    BY <1>1 DEF ThemesOf
<1>3. ASSUME NEW a, NEW b, NEW c, NEW d, NEW e PROVE IsFiniteSet({a, b, c, d, e})
    <2>1. IsFiniteSet({a} \cup {b})
        BY FS_Singleton, FS_AddElement
    <2>2. IsFiniteSet({a} \cup {b} \cup {c})
        BY <2>1, FS_AddElement
    <2>3. IsFiniteSet({a} \cup {b} \cup {c} \cup {d})
        BY <2>2, FS_AddElement
    <2>4. IsFiniteSet({a} \cup {b} \cup {c} \cup {d} \cup {e})
        BY <2>3, FS_AddElement
    <2>5. {a} \cup {b} \cup {c} \cup {d} \cup {e} = {a, b, c, d, e}
        OBVIOUS
    <2> QED  BY <2>4, <2>5
<1>4. IsFiniteSet({"FINANCIAL_INTEGRITY", "CAPACITY_CONSTRAINT", "MARGIN_PRICING", "WORKING_CAPITAL",
                   "CUSTOMER_ECONOMICS"} \cup
                  {"SUPPLIER_DEPENDENCY", "REVENUE_PERFORMANCE", "FORECAST_CONTROL",
                   "PEOPLE_PRODUCTIVITY", "DATA_CAPACITY"})
    BY <1>3, FS_Union
<1>5. IsFiniteSet(DOMAIN Tie)
    BY <1>1, <1>4
<1> QED  BY <1>2, <1>5, FS_Subset

\* The weight of a theme begins with its score, a number.
LEMMA ScoreIsANumber == ASSUME NEW r, NEW theme PROVE Score(r, theme) \in Nat
BY DEF Score

\* The first themes of a sorted order are an agenda that is earned.
LEMMA SortedIsEarned ==
    ASSUME NEW r \in AgendaRuns, NEW order, NEW n \in Nat, DOMAIN order = 1..n, Sorted(r, order),
           \A i \in 1..n : order[i] \in ThemesOf(r),
           \A i, j \in 1..n : i # j => order[i] # order[j],
           \A x \in ThemesOf(r) : \E i \in 1..n : order[i] = x,
           NEW m \in Nat, m <= n, m <= MaxItems,
           NEW items, Len(items) = m, DOMAIN items = 1..m,
           \A k \in 1..m : items[k].theme = order[k] /\ items[k].evidence = Grouped(r, order[k]),
           NEW queued, DOMAIN queued = 1..m, \A k \in 1..m : queued[k].id = order[k]
    PROVE  AgendaEarned(r, items, queued)
<1> DEFINE chosen == {item.theme : item \in Range(items)}
<1>1. \A k \in 1..m : k \in 1..n
    OBVIOUS
<1>2. Range(items) = {items[k] : k \in 1..m}
    BY Zenon DEF Range
<1>3. \A item \in Range(items) : \E k \in 1..m : item = items[k]
    BY <1>2, Zenon
<1>4. chosen = {order[k] : k \in 1..m}
    <2>1. chosen = {items[k].theme : k \in 1..m}
        BY <1>2
    <2> HIDE DEF chosen
    <2> QED  BY <2>1
<1>5. Cardinality(chosen) = m
    <2> DEFINE f == [k \in 1..m |-> order[k]]
    <2> HIDE DEF chosen
    <2>1. f \in [1..m -> chosen] /\ \A t \in chosen : \E k \in 1..m : f[k] = t
        BY <1>4
    <2>2. \A i, j \in 1..m : f[i] = f[j] => i = j
        BY <1>1
    <2> HIDE DEF f
    <2>3. f \in Surjection(1..m, chosen)
        BY <2>1 DEF Surjection
    <2>4. f \in Injection(1..m, chosen)
        BY <2>1, <2>2 DEF Injection, IsInjective
    <2>5. ExistsBijection(1..m, chosen)
        BY <2>3, <2>4 DEF ExistsBijection, Bijection
    <2> QED  BY <2>5, FS_CountingElements
<1>6. ASSUME NEW item \in Range(items) PROVE item.evidence = {} => item.theme = "DATA_CAPACITY"
    <2>1. PICK k \in 1..m : item = items[k]
        BY <1>3
    <2>2. item.theme \in ThemesOf(r) /\ item.evidence = Grouped(r, item.theme)
        BY <1>1, <2>1
    <2> QED  BY <2>2 DEF ThemesOf
<1>7. ASSUME NEW item \in Range(items), NEW i \in DOMAIN SignalsOf[r]
      PROVE  i \in item.evidence <=> (Theme(SignalAt(r, i)) = item.theme /\ SignalAt(r, i).mat \in {"MEDIUM", "HIGH"})
    <2>1. PICK k \in 1..m : item = items[k]
        BY <1>3
    <2>2. item.evidence = Grouped(r, item.theme)
        BY <2>1
    <2>3. SignalAt(r, i) \in SignalRow
        BY AgendaAssumption DEF SignalAt
    <2>4. SignalAt(r, i).mat \in DOMAIN Rank
        BY <2>3 DEF SignalRow
    <2>5. Rank[SignalAt(r, i).mat] >= 2 <=> SignalAt(r, i).mat \in {"MEDIUM", "HIGH"}
        BY <2>4 DEF Rank
    <2> QED  BY <2>2, <2>5 DEF Grouped
<1>8. ASSUME NEW item \in Range(items), NEW theme \in ThemesOf(r) \ chosen
      PROVE  Score(r, theme) <= Score(r, item.theme)
    <2>1. PICK k \in 1..m : item = items[k]
        BY <1>3
    <2>2. PICK j \in 1..n : order[j] = theme
        BY <1>8
    <2>3. j \notin 1..m
        BY <1>4, <1>8, <2>2
    <2>4. k < j /\ k \in 1..n /\ item.theme = order[k]
        <3>1. item.theme = order[k]
            BY <2>1
        <3> QED  BY <1>1, <2>3, <3>1
    <2>5. ~ Heavier(Weight(r, theme), Weight(r, item.theme))
        BY <2>2, <2>4 DEF Sorted
    <2>6. Weight(r, theme)[1] = Score(r, theme) /\ Weight(r, item.theme)[1] = Score(r, item.theme)
        BY DEF Weight
    <2>7. ~ (Score(r, theme) > Score(r, item.theme))
        <3>1. 1 \in 1..3 /\ 1..(1 - 1) = {}
            OBVIOUS
        <3> QED  BY <2>5, <2>6, <3>1, Zenon DEF Heavier
    <2> QED  BY <2>7, ScoreIsANumber
<1>9. [k \in DOMAIN queued |-> queued[k].id] = [k \in DOMAIN items |-> items[k].theme]
    OBVIOUS
<1> HIDE DEF chosen
<1>10. Len(items) = Cardinality(chosen) /\ Len(items) <= MaxItems
    BY <1>5
<1> QED  BY <1>6, <1>7, <1>8, <1>9, <1>10 DEF AgendaEarned, chosen

\* The agenda is built from the signals, and the review queue from the agenda.
LEMMA BuildKeeps ==
    ASSUME AgendaInv, NEW r \in AgendaRuns, BuildAgenda(r) PROVE AgendaInv'
<1>t. AgendaTypeOK /\ AgendaTables /\ AgendaRows /\ FindingsAreEarned /\ AgendaIsEarned /\ RegisterIsTraceable
    BY DEF AgendaInv, AdviceIsTraceable
<1>1. /\ step[r] = "REASONED" /\ step' = [step EXCEPT ![r] = "AGREED"]
      /\ UNCHANGED <<contexts, suppressed, profiles, bundles, clusters, findings, versions, stories, economics, register>>
    BY DEF BuildAgenda, Advance, economicVars, reasoningVars
<1>2. /\ step' \in [AgendaRuns -> {"ABSENT"} \cup Range(Steps)] /\ step'[r] = "AGREED"
      /\ \A s \in AgendaRuns : s # r => step'[s] = step[s]
    BY <1>t, <1>1, StepsAre DEF AgendaTypeOK
<1>3. \A s \in AgendaRuns : /\ Reasoned(s) => Reasoned(s)'
                            /\ Agreed(s)' => s = r \/ Agreed(s)
                            /\ step'[s] = "REGISTERED" => s # r /\ step[s] = "REGISTERED"
                            /\ step[s] \in {"RESOLVED", "REGISTERED"} => step'[s] \in {"RESOLVED", "REGISTERED"}
    BY <1>1, <1>2 DEF Reasoned, Agreed
<1>4. /\ \A s \in AgendaRuns : s # r => agenda'[s] = agenda[s] /\ queue'[s] = queue[s]
      /\ DOMAIN agenda' = AgendaRuns /\ DOMAIN queue' = AgendaRuns
    BY <1>t DEF BuildAgenda, AgendaTables
<1>5. AgendaEarned(r, agenda'[r], queue'[r])
    <2>1. PICK order \in SetToSeqs(ThemesOf(r)) :
            /\ Sorted(r, order)
            /\ LET some == SubSeq(order, 1, IF Len(order) < MaxItems THEN Len(order) ELSE MaxItems)
                   selected == IF Len(some) < MinItems THEN order ELSE some
                   item(k) == LET theme == selected[k] IN
                       [theme |-> theme, priority |-> IF Score(r, theme) >= 4 THEN 3 ELSE 2, evidence |-> Grouped(r, theme)]
               IN  /\ agenda' = [agenda EXCEPT ![r] = [k \in DOMAIN selected |-> item(k)]]
                   /\ queue' = [queue EXCEPT ![r] = [k \in DOMAIN selected |->
                          [object |-> "MANAGEMENT_ATTENTION", id |-> selected[k], priority |-> item(k).priority]]]
        BY DEF BuildAgenda
    <2>2. PICK some : some = SubSeq(order, 1, IF Len(order) < MaxItems THEN Len(order) ELSE MaxItems)
        OBVIOUS
    <2>3. PICK selected : selected = IF Len(some) < MinItems THEN order ELSE some
        OBVIOUS
    <2> DEFINE n == Len(order)
               m == Len(selected)
               item(k) == [theme |-> selected[k], priority |-> IF Score(r, selected[k]) >= 4 THEN 3 ELSE 2,
                           evidence |-> Grouped(r, selected[k])]
               queueItem(k) == [object |-> "MANAGEMENT_ATTENTION", id |-> selected[k], priority |-> item(k).priority]
               items == [k \in DOMAIN selected |-> item(k)]
               queued == [k \in DOMAIN selected |-> queueItem(k)]
    <2>4. agenda'[r] = items /\ queue'[r] = queued
        BY <1>t, <2>1, <2>2, <2>3 DEF AgendaTables
    <2>5. /\ order \in Seq(ThemesOf(r)) /\ n \in Nat /\ DOMAIN order = 1..n /\ Sorted(r, order)
          /\ \A i, j \in 1..n : i # j => order[i] # order[j]
          /\ \A x \in ThemesOf(r) : \E i \in 1..n : order[i] = x
          /\ \A i \in 1..n : order[i] \in ThemesOf(r)
        BY <2>1, ThemesFinite, OrdersASet
    <2> HIDE <2>1
    <2>6. /\ DOMAIN selected = 1..m /\ m \in Nat /\ m <= n /\ m <= MaxItems
          /\ \A k \in 1..m : selected[k] = order[k]
        BY <2>2, <2>3, <2>5, AgendaAssumption, SelectsFirst
    <2> HIDE <2>2, <2>3 DEF n, m
    <2>7. \A k \in 1..m : /\ item(k).theme = order[k] /\ item(k).evidence = Grouped(r, order[k])
                          /\ queueItem(k).id = order[k]
        BY <2>6
    <2> HIDE DEF item, queueItem
    <2>8. /\ DOMAIN items = 1..m /\ Len(items) = m /\ DOMAIN queued = 1..m
          /\ \A k \in 1..m : items[k] = item(k) /\ queued[k] = queueItem(k)
        BY <2>6
    <2> HIDE DEF items, queued
    <2>9. AgendaEarned(r, items, queued)
        <3>1. \A k \in 1..m : items[k].theme = order[k] /\ items[k].evidence = Grouped(r, order[k])
            BY <2>7, <2>8, Zenon
        <3>2. \A k \in 1..m : queued[k].id = order[k]
            BY <2>7, <2>8, Zenon
        <3>3. \A given, asked :
                  /\ Len(given) = m /\ DOMAIN given = 1..m
                  /\ \A k \in 1..m : given[k].theme = order[k] /\ given[k].evidence = Grouped(r, order[k])
                  /\ DOMAIN asked = 1..m /\ \A k \in 1..m : asked[k].id = order[k]
                  => AgendaEarned(r, given, asked)
            <4> SUFFICES ASSUME NEW given, NEW asked, Len(given) = m, DOMAIN given = 1..m,
                                \A k \in 1..m : given[k].theme = order[k] /\ given[k].evidence = Grouped(r, order[k]),
                                DOMAIN asked = 1..m, \A k \in 1..m : asked[k].id = order[k]
                         PROVE  AgendaEarned(r, given, asked)
                OBVIOUS
            <4>1. n \in Nat /\ m \in Nat
                BY <2>5, <2>6
            <4> QED  BY <2>5, <2>6, <4>1, SortedIsEarned, ZenonT(40)
        <3> QED  BY <2>8, <3>1, <3>2, <3>3
    <2> QED  BY <2>4, <2>9
<1>6. AgendaTypeOK' /\ AgendaTables'
    BY <1>t, <1>1, <1>2, <1>4 DEF AgendaTypeOK, AgendaTables
<1>7. AgendaRows'
    BY <1>t, <1>1, <1>3 DEF AgendaRows, AgendaTypeOK
<1>8. FindingsAreEarned'
    BY <1>t, <1>1 DEF FindingsAreEarned
<1>9. AgendaIsEarned'
    <2>1. \A s \in AgendaRuns : Agreed(s)' => AgendaEarned(s, agenda'[s], queue'[s])
        BY <1>t, <1>3, <1>4, <1>5, AdviceByRun
    <2> QED  BY <2>1 DEF AgendaIsEarned, AgendaEarned, Agreed
<1>10. RegisterIsTraceable'
    <2>1. \A s \in AgendaRuns : step'[s] = "REGISTERED" => RegisterEarned(s, register[s], agenda[s])'
        BY <1>t, <1>1, <1>3, <1>4, AdviceByRun, SMTT(30) DEF RegisterEarned
    <2> QED  BY <1>7, <2>1 DEF RegisterIsTraceable, RegisterEarned, AgendaRows
<1> QED  BY <1>6, <1>7, <1>8, <1>9, <1>10 DEF AgendaInv, AdviceIsTraceable

\* Some number of a set that is bounded is the greatest.
LEMMA GreatestBelow ==
    ASSUME NEW n \in Nat, NEW T, \A i \in T : i \in 0..n, T # {} PROVE \E i \in T : \A j \in T : j <= i
<1> DEFINE U == {n - i : i \in T}
<1>1. U \subseteq Nat /\ U # {}
    <2>1. \A d \in U : d \in Nat
        OBVIOUS
    <2>2. U # {}
        OBVIOUS
    <2> QED  BY <2>1, <2>2
<1>2. PICK d \in U : \A e \in U : d <= e
    <2> HIDE DEF U
    <2> QED  BY <1>1, LeastNatural, Zenon
<1>3. PICK i \in T : d = n - i
    OBVIOUS
<1>4. \A j \in T : n - i <= n - j
    BY <1>2, <1>3
<1> QED  BY <1>4

\* One version of a run speaks for a finding the run made.
LEMMA OneSpeaks ==
    ASSUME AgendaTypeOK, NEW r \in AgendaRuns, NEW k, \E v \in versions : v.run = r /\ v.key = k
    PROVE  \E v \in versions : v.run = r /\ v.key = k /\ \A w \in versions : w.run = r /\ w.key = k => w.at <= v.at
<1> DEFINE T == {v.at : v \in {w \in versions : w.run = r /\ w.key = k}}
           n == Len(SignalsOf[r])
<1>1. n \in Nat /\ DOMAIN SignalsOf[r] = 1..n
    BY AgendaAssumption
<1>2. (\A i \in T : i \in 0..n) /\ T # {}
    <2>1. \A w \in versions : w.run = r => w.at \in 1..n
        BY <1>1 DEF AgendaTypeOK
    <2> HIDE DEF n
    <2> QED  BY <1>1, <2>1
<1>3. PICK i \in T : \A j \in T : j <= i
    <2> HIDE DEF T, n
    <2> QED  BY <1>1, <1>2, GreatestBelow
<1> QED  BY <1>3

\* A row of the economics is of one finding and one kind, and the finding is
\* one the run made.
LEMMA ResolveKeeps ==
    ASSUME AgendaInv, NEW r \in AgendaRuns, ResolveEconomics(r) PROVE AgendaInv'
<1> DEFINE found == {v.key : v \in {w \in versions : w.run = r}}
           speaks(k) == CHOOSE v \in versions : v.run = r /\ v.key = k /\ \A w \in versions : w.run = r /\ w.key = k => w.at <= v.at
           said(k) == SignalAt(r, speaks(k).at)
           row(k, kind) == [run |-> r, kind |-> kind, finding |-> k, story |-> StoryKey(said(k)), amount |-> Theoretical(said(k))]
           told == {StoryKey(said(k)) : k \in found}
<1>t. AgendaTypeOK /\ AgendaTables /\ AgendaRows /\ FindingsAreEarned /\ AgendaIsEarned /\ RegisterIsTraceable
    BY DEF AgendaInv, AdviceIsTraceable
<1>1. /\ step[r] = "AGREED" /\ step' = [step EXCEPT ![r] = "RESOLVED"]
      /\ UNCHANGED <<contexts, suppressed, profiles, bundles, clusters, findings, versions, queue, agenda, register>>
    BY DEF ResolveEconomics, Advance, reasoningVars
<1>2. stories' = Reached(stories, told, r)
    BY DEF ResolveEconomics
<1>3. economics' = economics \cup UNION {{row(k, kind) : kind \in KindsOf(said(k))} : k \in found}
    BY DEF ResolveEconomics
<1>4. \A o \in economics' : o \in economics \/ \E k \in found : \E kind \in KindsOf(said(k)) : o = row(k, kind)
    <2> HIDE DEF row, said, found
    <2> QED  BY <1>3
<1>5. ASSUME NEW k \in found
      PROVE  /\ speaks(k) \in versions /\ speaks(k).run = r /\ speaks(k).key = k
             /\ k \in DOMAIN findings /\ said(k) = SignalAt(speaks(k).run, speaks(k).at) /\ StoryKey(said(k)) \in told
    <2>1. \E v \in versions : v.run = r /\ v.key = k
        OBVIOUS
    <2>2. \E v \in versions : v.run = r /\ v.key = k /\ \A w \in versions : w.run = r /\ w.key = k => w.at <= v.at
        BY <1>t, <2>1, OneSpeaks
    <2>3. speaks(k) \in versions /\ speaks(k).run = r /\ speaks(k).key = k
        BY <2>2
    <2> HIDE DEF speaks
    <2> QED  BY <1>t, <2>3 DEF AgendaRows
<1>6. \A k, kind : /\ row(k, kind).run = r /\ row(k, kind).kind = kind /\ row(k, kind).finding = k
                   /\ row(k, kind).story = StoryKey(said(k)) /\ row(k, kind).amount = Theoretical(said(k))
    <2> HIDE DEF said
    <2> QED  OBVIOUS
<1> HIDE DEF found, speaks, said, row, told
<1>7. /\ step' \in [AgendaRuns -> {"ABSENT"} \cup Range(Steps)] /\ step'[r] = "RESOLVED"
      /\ \A s \in AgendaRuns : s # r => step'[s] = step[s]
    BY <1>t, <1>1, StepsAre DEF AgendaTypeOK
<1>8. \A s \in AgendaRuns : /\ Reasoned(s) => Reasoned(s)'
                            /\ Agreed(s)' => Agreed(s)
                            /\ step'[s] = "REGISTERED" => s # r /\ step[s] = "REGISTERED"
                            /\ step[s] \in {"RESOLVED", "REGISTERED"} => step'[s] \in {"RESOLVED", "REGISTERED"}
    BY <1>1, <1>7 DEF Reasoned, Agreed
<1>9. /\ DOMAIN stories' = DOMAIN stories \cup told
      /\ \A k \in DOMAIN stories' : /\ stories'[k].last \in {r} \cup {stories[j].last : j \in {k} \cap DOMAIN stories}
                                    /\ stories'[k].first \in {r} \cup {stories[j].first : j \in {k} \cap DOMAIN stories}
    BY <1>2 DEF Reached
<1>10. AgendaTypeOK'
    <2>1. \A k \in DOMAIN stories' : stories'[k].first \in AgendaRuns /\ stories'[k].last \in AgendaRuns
        BY <1>t, <1>9 DEF AgendaTypeOK
    <2>2. \A o \in economics' : o.finding \in DOMAIN findings' /\ o.story \in DOMAIN stories'
        BY <1>t, <1>1, <1>4, <1>5, <1>6, <1>9 DEF AgendaTypeOK
    <2> QED  BY <1>t, <1>1, <1>7, <2>1, <2>2 DEF AgendaTypeOK
<1>11. AgendaTables'
    BY <1>t, <1>1 DEF AgendaTables
<1>12. AgendaRows'
    <2>1. ASSUME NEW o \in economics'
          PROVE  /\ o.run \in AgendaRuns /\ step'[o.run] \in {"RESOLVED", "REGISTERED"}
                 /\ o.amount => \E v \in versions' : v.run = o.run /\ v.key = o.finding /\ Theoretical(SignalAt(v.run, v.at))
        <3>1. CASE o \in economics
            BY <1>t, <1>1, <1>8, <3>1 DEF AgendaRows
        <3>2. CASE \E k \in found : \E kind \in KindsOf(said(k)) : o = row(k, kind)
            <4>k. PICK k \in found : \E kind \in KindsOf(said(k)) : o = row(k, kind)
                BY <3>2
            <4>1. PICK kind \in KindsOf(said(k)) : o = row(k, kind)
                BY <4>k
            <4>2. o.run = r /\ o.finding = k /\ o.amount = Theoretical(said(k))
                BY <1>6, <4>1
            <4>3. o.amount => Theoretical(SignalAt(speaks(k).run, speaks(k).at))
                BY <1>5, <4>2, Zenon
            <4> QED  BY <1>1, <1>5, <1>7, <4>2, <4>3
        <3> QED  BY <1>4, <3>1, <3>2
    <2>2. ASSUME NEW o \in economics', NEW p \in economics', o.run = p.run, o.kind = p.kind, o.finding = p.finding
          PROVE  o = p
        <3>1. \A x \in economics : x.run # r
            BY <1>t, <1>1 DEF AgendaRows
        <3>2. CASE o \in economics /\ p \in economics
            BY <1>t, <2>2, <3>2 DEF AgendaRows
        <3>3. CASE o \notin economics /\ p \notin economics
            BY <1>4, <1>6, <2>2, <3>3
        <3> QED  BY <1>4, <1>6, <2>2, <3>1, <3>2, <3>3
    <2>3. /\ \A v \in versions' : Reasoned(v.run)' /\ <<v.run, v.at>> \notin suppressed' /\ v.key \in DOMAIN findings'
          /\ (\A p \in profiles' : Reasoned(p.run)') /\ (\A x \in suppressed' : Reasoned(x[1])')
        BY <1>t, <1>1, <1>8 DEF AgendaRows, AgendaTypeOK
    <2> QED  BY <2>1, <2>2, <2>3 DEF AgendaRows
<1>13. FindingsAreEarned'
    BY <1>t, <1>1 DEF FindingsAreEarned
<1>14. AgendaIsEarned'
    <2>1. \A s \in AgendaRuns : Agreed(s)' => AgendaEarned(s, agenda'[s], queue'[s])
        BY <1>t, <1>1, <1>8, AdviceByRun
    <2> QED  BY <2>1 DEF AgendaIsEarned, AgendaEarned, Agreed
<1>15. RegisterIsTraceable'
    <2>1. \A s \in AgendaRuns : step'[s] = "REGISTERED" => RegisterEarned(s, register[s], agenda[s])'
        BY <1>t, <1>1, <1>8, AdviceByRun, SMTT(30) DEF RegisterEarned
    <2> QED  BY <1>12, <2>1 DEF RegisterIsTraceable, RegisterEarned, AgendaRows
<1> QED  BY <1>10, <1>11, <1>12, <1>13, <1>14, <1>15 DEF AgendaInv, AdviceIsTraceable

\* Beside a theme of the agenda stands a candidate of a signal of the theme.
LEMMA RegisterKeeps ==
    ASSUME AgendaInv, NEW r \in AgendaRuns, BuildRegister(r) PROVE AgendaInv'
<1>t. AgendaTypeOK /\ AgendaTables /\ AgendaRows /\ FindingsAreEarned /\ AgendaIsEarned /\ RegisterIsTraceable
    BY DEF AgendaInv, AdviceIsTraceable
<1>1. /\ step[r] = "RESOLVED" /\ step' = [step EXCEPT ![r] = "REGISTERED"]
      /\ UNCHANGED <<contexts, suppressed, profiles, bundles, clusters, findings, versions, queue, agenda, stories, economics>>
    BY DEF BuildRegister, Advance, reasoningVars, economicVars
<1>2. /\ step' \in [AgendaRuns -> {"ABSENT"} \cup Range(Steps)] /\ step'[r] = "REGISTERED"
      /\ \A s \in AgendaRuns : s # r => step'[s] = step[s]
    BY <1>t, <1>1, StepsAre DEF AgendaTypeOK
<1>3. \A s \in AgendaRuns : /\ Reasoned(s) => Reasoned(s)'
                            /\ Agreed(s)' => Agreed(s)
                            /\ step'[s] = "REGISTERED" => s = r \/ step[s] = "REGISTERED"
                            /\ step[s] \in {"RESOLVED", "REGISTERED"} => step'[s] \in {"RESOLVED", "REGISTERED"}
    BY <1>1, <1>2 DEF Reasoned, Agreed
<1>4. DOMAIN register' = AgendaRuns /\ \A s \in AgendaRuns : s # r => register'[s] = register[s]
    BY <1>t DEF BuildRegister, AgendaTables
<1>5. AgendaEarned(r, agenda[r], queue[r])
    <2>1. Agreed(r)
        BY <1>1 DEF Agreed
    <2> QED  BY <1>t, <2>1, AdviceByRun
<1>6. RegisterEarned(r, register[r], agenda[r])'
    <2>1. PICK chosen \in [DOMAIN agenda[r] -> {{}} \cup {{o} : o \in economics}] :
            /\ \A k \in DOMAIN chosen :
                  LET able == Supporting(r, agenda[r][k])
                  IN  IF able = {} THEN chosen[k] = {} ELSE \E o \in able : chosen[k] = {o}
            /\ register' = [register EXCEPT ![r] = [k \in DOMAIN chosen |->
                  LET theme == agenda[r][k].theme
                  IN  [theme |-> theme, candidate |-> chosen[k],
                       amount |-> theme \notin Unpriced /\ \E o \in chosen[k] : o.amount]]]
        BY DEF BuildRegister
    <2> DEFINE entry(k) == [theme |-> agenda[r][k].theme, candidate |-> chosen[k],
                            amount |-> agenda[r][k].theme \notin Unpriced /\ \E o \in chosen[k] : o.amount]
    <2>2. register'[r] = [k \in DOMAIN agenda[r] |-> entry(k)]
        BY <1>t, <2>1 DEF AgendaTables
    <2>3. ASSUME NEW k \in DOMAIN agenda[r]
          PROVE  /\ register'[r][k].theme = agenda[r][k].theme /\ register'[r][k].candidate = chosen[k]
                 /\ register'[r][k].amount => \E o \in chosen[k] : o.amount
                 /\ \A o, p \in chosen[k] : o \in Supporting(r, agenda[r][k]) /\ o = p
        <3>1. register'[r][k] = entry(k)
            <4> HIDE DEF entry
            <4> QED  BY <2>2
        <3>2. \A o, p \in chosen[k] : o \in Supporting(r, agenda[r][k]) /\ o = p
            <4>1. DOMAIN chosen = DOMAIN agenda[r]
                OBVIOUS
            <4>2. LET able == Supporting(r, agenda[r][k])
                  IN  IF able = {} THEN chosen[k] = {} ELSE \E o \in able : chosen[k] = {o}
                BY <2>1, <4>1, Zenon
            <4>3. chosen[k] = {} \/ \E o \in Supporting(r, agenda[r][k]) : chosen[k] = {o}
                BY <4>2, Zenon
            <4> QED  BY <4>3, Zenon
        <3>3. /\ entry(k).theme = agenda[r][k].theme /\ entry(k).candidate = chosen[k]
              /\ entry(k).amount => \E o \in chosen[k] : o.amount
            OBVIOUS
        <3> HIDE DEF entry
        <3> QED  BY <3>1, <3>2, <3>3, Zenon
    <2>4. DOMAIN register'[r] = DOMAIN agenda[r]
        BY <2>2
    <2>5. ASSUME NEW k \in DOMAIN agenda[r], NEW o \in chosen[k]
          PROVE  \E v \in versions : /\ v.run = r /\ v.key = o.finding /\ <<r, v.at>> \notin suppressed
                                     /\ Theme(SignalAt(r, v.at)) = agenda[r][k].theme
        <3>1. PICK v \in versions : v.run = r /\ v.key = o.finding /\ v.at \in agenda[r][k].evidence
            BY <2>3 DEF Supporting
        <3>2. v.at \in DOMAIN SignalsOf[r] /\ <<r, v.at>> \notin suppressed
            BY <1>t, <3>1 DEF AgendaTypeOK, AgendaRows
        <3>3. agenda[r][k] \in Range(agenda[r])
            BY DEF Range
        <3>4. Theme(SignalAt(r, v.at)) = agenda[r][k].theme
            BY <1>5, <3>1, <3>2, <3>3 DEF AgendaEarned
        <3> QED  BY <3>1, <3>2, <3>4
    <2>6. ASSUME NEW k \in DOMAIN agenda[r], NEW o \in chosen[k], register'[r][k].amount
          PROVE  \E v \in versions : v.run = r /\ v.key = o.finding
                                     /\ (SignalAt(r, v.at).fall \/ SignalAt(r, v.at).type \in Receivables)
        <3>1. o.amount /\ o \in economics /\ o.run = r
            BY <2>3, <2>6 DEF Supporting
        <3>2. PICK v \in versions : v.run = r /\ v.key = o.finding /\ Theoretical(SignalAt(v.run, v.at))
            BY <1>t, <3>1 DEF AgendaRows
        <3>3. SignalAt(r, v.at).fall \/ SignalAt(r, v.at).type \in Receivables
            BY <3>2 DEF Theoretical, Falls, Receivables
        <3> QED  BY <3>2, <3>3
    <2>7. [k \in DOMAIN register'[r] |-> register'[r][k].theme] = [k \in DOMAIN agenda[r] |-> agenda[r][k].theme]
        BY <2>3, <2>4
    <2> QED  BY <1>1, <2>3, <2>4, <2>5, <2>6, <2>7 DEF RegisterEarned
<1>7. AgendaTypeOK' /\ AgendaTables'
    BY <1>t, <1>1, <1>2, <1>4 DEF AgendaTypeOK, AgendaTables
<1>8. AgendaRows'
    BY <1>t, <1>1, <1>3 DEF AgendaRows, AgendaTypeOK
<1>9. FindingsAreEarned'
    BY <1>t, <1>1 DEF FindingsAreEarned
<1>10. AgendaIsEarned'
    <2>1. \A s \in AgendaRuns : Agreed(s)' => AgendaEarned(s, agenda'[s], queue'[s])
        BY <1>t, <1>1, <1>3, AdviceByRun
    <2> QED  BY <2>1 DEF AgendaIsEarned, AgendaEarned, Agreed
<1>11. RegisterIsTraceable'
    <2>1. \A s \in AgendaRuns : step'[s] = "REGISTERED" => RegisterEarned(s, register[s], agenda[s])'
        <3>1. ASSUME NEW s \in AgendaRuns, s # r, step'[s] = "REGISTERED"
              PROVE  RegisterEarned(s, register[s], agenda[s])'
            <4>1. RegisterEarned(s, register[s], agenda[s])
                BY <1>t, <1>3, <3>1, AdviceByRun
            <4>2. register'[s] = register[s] /\ agenda'[s] = agenda[s] /\ versions' = versions /\ suppressed' = suppressed
                BY <1>1, <1>4, <3>1
            <4>3. PICK rows, items : rows = register[s] /\ items = agenda[s]
                OBVIOUS
            <4>4. [k \in DOMAIN rows |-> rows[k].theme] = [k \in DOMAIN items |-> items[k].theme]
                BY <4>1, <4>3, Zenon DEF RegisterEarned
            <4>5. \A k \in DOMAIN rows : \A o \in rows[k].candidate :
                      \E v \in versions : /\ v.run = s /\ v.key = o.finding /\ <<s, v.at>> \notin suppressed
                                          /\ Theme(SignalAt(s, v.at)) = rows[k].theme
                BY <4>1, <4>3, Zenon DEF RegisterEarned
            <4>6. \A k \in DOMAIN rows : \A o \in rows[k].candidate : rows[k].amount =>
                      \E v \in versions : /\ v.run = s /\ v.key = o.finding
                                          /\ SignalAt(s, v.at).fall \/ SignalAt(s, v.at).type \in Receivables
                BY <4>1, <4>3, Zenon DEF RegisterEarned
            <4>7. register'[s] = rows /\ agenda'[s] = items
                BY <4>2, <4>3
            <4> QED  BY <4>2, <4>4, <4>5, <4>6, <4>7, Zenon DEF RegisterEarned
        <3> QED  BY <1>6, <3>1
    <2> QED  BY <1>8, <2>1 DEF RegisterIsTraceable, RegisterEarned, AgendaRows
<1> QED  BY <1>7, <1>8, <1>9, <1>10, <1>11 DEF AgendaInv, AdviceIsTraceable

\* Every step keeps the invariant.
LEMMA AgendaInvNext == AgendaInv /\ [AgendaNext]_agendaVars => AgendaInv'
<1> SUFFICES ASSUME AgendaInv, [AgendaNext]_agendaVars PROVE AgendaInv'
    OBVIOUS
<1>1. ASSUME NEW c \in ContextEvents, AddContext(c) PROVE AgendaInv'
    <2>1. /\ contexts' \subseteq ContextEvents
          /\ UNCHANGED <<step, suppressed, profiles, bundles, clusters, findings, versions, queue, agenda, stories,
                         economics, register>>
        BY <1>1 DEF AddContext, AgendaInv, AgendaTypeOK, reasoningVars, economicVars
    <2>2. CASE AgendaRuns = {}
        BY <2>1, <2>2 DEF AgendaInv, AdviceIsTraceable, AgendaTypeOK, AgendaTables, AgendaRows, FindingsAreEarned,
                          AgendaIsEarned, RegisterIsTraceable
    <2>3. CASE AgendaRuns # {}
        BY <2>1, <2>3, OnlyStepMoves
    <2> QED  BY <2>2, <2>3
<1>2. ASSUME NEW r \in AgendaRuns, DrawSignals(r) PROVE AgendaInv'
    <2>1. /\ step' = [step EXCEPT ![r] = "DRAWN"] /\ step[r] = "ABSENT" /\ contexts' \subseteq ContextEvents
          /\ UNCHANGED <<suppressed, profiles, bundles, clusters, findings, versions, queue, agenda, stories,
                         economics, register>>
        BY <1>2 DEF DrawSignals, AgendaInv, AgendaTypeOK, reasoningVars, economicVars
    <2> QED  BY <2>1, OnlyStepMoves
<1>3. CASE UNCHANGED agendaVars
    <2>1. UNCHANGED <<contexts, step, suppressed, profiles, bundles, clusters, findings, versions, queue, agenda,
                      stories, economics, register>>
        BY <1>3 DEF agendaVars, reasoningVars, economicVars
    <2>2. AgendaTypeOK' <=> AgendaTypeOK
        BY <2>1 DEF AgendaTypeOK
    <2>3. (AgendaTables' <=> AgendaTables) /\ (AgendaRows' <=> AgendaRows)
        BY <2>1 DEF AgendaTables, AgendaRows, Reasoned
    <2>4. FindingsAreEarned' <=> FindingsAreEarned
        BY <2>1 DEF FindingsAreEarned
    <2>5. AgendaIsEarned' <=> AgendaIsEarned
        BY <2>1 DEF AgendaIsEarned
    <2>6. RegisterIsTraceable' <=> RegisterIsTraceable
        BY <2>1 DEF RegisterIsTraceable
    <2> QED  BY <2>2, <2>3, <2>4, <2>5, <2>6 DEF AgendaInv, AdviceIsTraceable
<1> QED  BY <1>1, <1>2, <1>3, ReasonKeeps, BuildKeeps, ResolveKeeps, RegisterKeeps, Zenon DEF AgendaNext

\* The tables of the agenda hold rows of runs, signals, findings and stories
\* there are.
THEOREM AgendaTypeCorrect == AgendaSpec => []AgendaTypeOK
<1>1. AgendaInv => AgendaTypeOK
    BY DEF AgendaInv
<1> QED  BY <1>1, AgendaInvInit, AgendaInvNext, PTL DEF AgendaSpec

\* Findings, agendas and registers can be followed back to the signals of
\* their runs, however the runs and the context interleave.
THEOREM AgendaTraced == AgendaSpec => []AdviceIsTraceable
<1>1. AgendaInv => AdviceIsTraceable
    BY DEF AgendaInv
<1> QED  BY <1>1, AgendaInvInit, AgendaInvNext, PTL DEF AgendaSpec

-----------------------------------------------------------------------------
(* The list of tests *)

\* The tests of family k; the family a test is of, and its position there.
Listed(k) == Families[k].tests
FamilyOf(t) ==
    IF t \in {"REV-01", "REV-02", "REV-03"} THEN 1
    ELSE IF t \in {"REV-04", "REV-05", "REV-06"} THEN 2
    ELSE IF t \in {"GM-01", "GM-02", "GM-03", "GM-04", "GM-05", "GM-06", "GM-07"} THEN 3
    ELSE IF t \in {"CUS-01", "CUS-02", "CUS-03", "CUS-04", "CUS-05", "CUS-06", "CUS-07"} THEN 4
    ELSE IF t \in {"PROD-01", "PROD-02", "PROD-03", "PROD-04", "PROD-05"} THEN 5
    ELSE IF t \in {"PRI-01", "PRI-02", "PRI-03", "PRI-04", "PRI-05"} THEN 6
    ELSE IF t \in {"PEO-01", "PEO-02", "PEO-03", "PEO-04", "PEO-05"} THEN 7
    ELSE IF t \in {"SUP-01", "SUP-02", "SUP-03", "SUP-04", "SUP-05", "SUP-06"} THEN 8
    ELSE IF t \in {"WC-01", "WC-02", "WC-03", "WC-04", "WC-05", "WC-06", "WC-07"} THEN 9
    ELSE IF t \in {"FCST-01", "FCST-02", "FCST-03", "FCST-04"} THEN 10
    ELSE 11
PositionOf(t) ==
    IF t \in {"REV-01", "REV-04", "GM-01", "CUS-01", "PROD-01", "PRI-01", "PEO-01", "SUP-01", "WC-01", "FCST-01", "RISK-01"}
       THEN 1
    ELSE IF t \in {"REV-02", "REV-05", "GM-02", "CUS-02", "PROD-02", "PRI-02", "PEO-02", "SUP-02", "WC-02", "FCST-02", "RISK-02"}
            THEN 2
    ELSE IF t \in {"REV-03", "REV-06", "GM-03", "CUS-03", "PROD-03", "PRI-03", "PEO-03", "SUP-03", "WC-03", "FCST-03", "RISK-03"}
            THEN 3
    ELSE IF t \in {"GM-04", "CUS-04", "PROD-04", "PRI-04", "PEO-04", "SUP-04", "WC-04", "FCST-04", "RISK-04"}
            THEN 4
    ELSE IF t \in {"GM-05", "CUS-05", "PROD-05", "PRI-05", "PEO-05", "SUP-05", "WC-05"}
            THEN 5
    ELSE IF t \in {"GM-06", "CUS-06", "SUP-06", "WC-06"}
            THEN 6
    ELSE 7

\* There are eleven families; each has so many tests, all of which are its own.
LEMMA FamilyIs ==
    /\ DOMAIN Families = 1 .. 11 /\ Len(Families) = 11
    /\ Families[1] = Revenue
    /\ Families[2] = ExtendedRevenue
    /\ Families[3] = Margin
    /\ Families[4] = Customer
    /\ Families[5] = Product
    /\ Families[6] = Pricing
    /\ Families[7] = Workforce
    /\ Families[8] = Supply
    /\ Families[9] = Capital
    /\ Families[10] = Forecasting
    /\ Families[11] = Risk
BY DEF Families

\* What family k lists is its own, at the position it is listed.
LEMMA OwnTests ==
    ASSUME NEW k \in 1 .. 11
    PROVE  /\ DOMAIN Listed(k) = 1 .. Len(Listed(k)) /\ Len(Listed(k)) \in Int /\ 3 <= Len(Listed(k))
           /\ \A i \in DOMAIN Listed(k) : FamilyOf(Listed(k)[i]) = k /\ PositionOf(Listed(k)[i]) = i
<1> DEFINE Good(n) == /\ DOMAIN Listed(n) = 1 .. Len(Listed(n)) /\ Len(Listed(n)) \in Int /\ 3 <= Len(Listed(n))
                      /\ \A i \in DOMAIN Listed(n) : FamilyOf(Listed(n)[i]) = n /\ PositionOf(Listed(n)[i]) = i
<1>1. Good(1)
    <2>1. Listed(1) = <<"REV-01", "REV-02", "REV-03">>
        BY FamilyIs DEF Listed, Revenue, Family, Refused
    <2>2. ASSUME NEW i \in 1 .. 3
          PROVE  FamilyOf(Listed(1)[i]) = 1 /\ PositionOf(Listed(1)[i]) = i
        <3>1. i \in {1, 2, 3}
            OBVIOUS
        <3> QED  BY <2>1, <3>1 DEF FamilyOf, PositionOf
    <2> QED  BY <2>1, <2>2
<1>2. Good(2)
    <2>1. Listed(2) = <<"REV-04", "REV-05", "REV-06">>
        BY FamilyIs DEF Listed, ExtendedRevenue, Family, Refused
    <2>2. ASSUME NEW i \in 1 .. 3
          PROVE  FamilyOf(Listed(2)[i]) = 2 /\ PositionOf(Listed(2)[i]) = i
        <3>1. i \in {1, 2, 3}
            OBVIOUS
        <3> QED  BY <2>1, <3>1 DEF FamilyOf, PositionOf
    <2> QED  BY <2>1, <2>2
<1>3. Good(3)
    <2>1. Listed(3) = <<"GM-01", "GM-02", "GM-03", "GM-04", "GM-05", "GM-06", "GM-07">>
        BY FamilyIs DEF Listed, Margin, Family, Refused
    <2>2. ASSUME NEW i \in 1 .. 7
          PROVE  FamilyOf(Listed(3)[i]) = 3 /\ PositionOf(Listed(3)[i]) = i
        <3>1. i \in {1, 2, 3, 4, 5, 6, 7}
            OBVIOUS
        <3> QED  BY <2>1, <3>1 DEF FamilyOf, PositionOf
    <2> QED  BY <2>1, <2>2
<1>4. Good(4)
    <2>1. Listed(4) = <<"CUS-01", "CUS-02", "CUS-03", "CUS-04", "CUS-05", "CUS-06", "CUS-07">>
        BY FamilyIs DEF Listed, Customer, Family, Refused
    <2>2. ASSUME NEW i \in 1 .. 7
          PROVE  FamilyOf(Listed(4)[i]) = 4 /\ PositionOf(Listed(4)[i]) = i
        <3>1. i \in {1, 2, 3, 4, 5, 6, 7}
            OBVIOUS
        <3> QED  BY <2>1, <3>1 DEF FamilyOf, PositionOf
    <2> QED  BY <2>1, <2>2
<1>5. Good(5)
    <2>1. Listed(5) = <<"PROD-01", "PROD-02", "PROD-03", "PROD-04", "PROD-05">>
        BY FamilyIs DEF Listed, Product, Family, Refused
    <2>2. ASSUME NEW i \in 1 .. 5
          PROVE  FamilyOf(Listed(5)[i]) = 5 /\ PositionOf(Listed(5)[i]) = i
        <3>1. i \in {1, 2, 3, 4, 5}
            OBVIOUS
        <3> QED  BY <2>1, <3>1 DEF FamilyOf, PositionOf
    <2> QED  BY <2>1, <2>2
<1>6. Good(6)
    <2>1. Listed(6) = <<"PRI-01", "PRI-02", "PRI-03", "PRI-04", "PRI-05">>
        BY FamilyIs DEF Listed, Pricing, Family, Refused
    <2>2. ASSUME NEW i \in 1 .. 5
          PROVE  FamilyOf(Listed(6)[i]) = 6 /\ PositionOf(Listed(6)[i]) = i
        <3>1. i \in {1, 2, 3, 4, 5}
            OBVIOUS
        <3> QED  BY <2>1, <3>1 DEF FamilyOf, PositionOf
    <2> QED  BY <2>1, <2>2
<1>7. Good(7)
    <2>1. Listed(7) = <<"PEO-01", "PEO-02", "PEO-03", "PEO-04", "PEO-05">>
        BY FamilyIs DEF Listed, Workforce, Family, Refused
    <2>2. ASSUME NEW i \in 1 .. 5
          PROVE  FamilyOf(Listed(7)[i]) = 7 /\ PositionOf(Listed(7)[i]) = i
        <3>1. i \in {1, 2, 3, 4, 5}
            OBVIOUS
        <3> QED  BY <2>1, <3>1 DEF FamilyOf, PositionOf
    <2> QED  BY <2>1, <2>2
<1>8. Good(8)
    <2>1. Listed(8) = <<"SUP-01", "SUP-02", "SUP-03", "SUP-04", "SUP-05", "SUP-06">>
        BY FamilyIs DEF Listed, Supply, Family
    <2>2. ASSUME NEW i \in 1 .. 6
          PROVE  FamilyOf(Listed(8)[i]) = 8 /\ PositionOf(Listed(8)[i]) = i
        <3>1. i \in {1, 2, 3, 4, 5, 6}
            OBVIOUS
        <3> QED  BY <2>1, <3>1 DEF FamilyOf, PositionOf
    <2> QED  BY <2>1, <2>2
<1>9. Good(9)
    <2>1. Listed(9) = <<"WC-01", "WC-02", "WC-03", "WC-04", "WC-05", "WC-06", "WC-07">>
        BY FamilyIs DEF Listed, Capital, Family
    <2>2. ASSUME NEW i \in 1 .. 7
          PROVE  FamilyOf(Listed(9)[i]) = 9 /\ PositionOf(Listed(9)[i]) = i
        <3>1. i \in {1, 2, 3, 4, 5, 6, 7}
            OBVIOUS
        <3> QED  BY <2>1, <3>1 DEF FamilyOf, PositionOf
    <2> QED  BY <2>1, <2>2
<1>10. Good(10)
    <2>1. Listed(10) = <<"FCST-01", "FCST-02", "FCST-03", "FCST-04">>
        BY FamilyIs DEF Listed, Forecasting, Family
    <2>2. ASSUME NEW i \in 1 .. 4
          PROVE  FamilyOf(Listed(10)[i]) = 10 /\ PositionOf(Listed(10)[i]) = i
        <3>1. i \in {1, 2, 3, 4}
            OBVIOUS
        <3> QED  BY <2>1, <3>1 DEF FamilyOf, PositionOf
    <2> QED  BY <2>1, <2>2
<1>11. Good(11)
    <2>1. Listed(11) = <<"RISK-01", "RISK-02", "RISK-03", "RISK-04">>
        BY FamilyIs DEF Listed, Risk, Family
    <2>2. ASSUME NEW i \in 1 .. 4
          PROVE  FamilyOf(Listed(11)[i]) = 11 /\ PositionOf(Listed(11)[i]) = i
        <3>1. i \in {1, 2, 3, 4}
            OBVIOUS
        <3> QED  BY <2>1, <3>1 DEF FamilyOf, PositionOf
    <2> QED  BY <2>1, <2>2
<1>12. k \in {1, 2, 3, 4, 5, 6, 7, 8, 9, 10, 11}
    OBVIOUS
<1> HIDE DEF Good
<1>13. Good(k)
    BY <1>1, <1>2, <1>3, <1>4, <1>5, <1>6, <1>7, <1>8, <1>9, <1>10, <1>11, <1>12
<1> QED  BY <1>13 DEF Good

\* A test is in one place, of its family.
LEMMA PlacesAre ==
    /\ \A p \in Places : /\ p = <<p[1], p[2]>> /\ p[1] \in 1 .. 11 /\ p[2] \in 1 .. Len(Listed(p[1]))
                         /\ TestAt(p) \in Tests /\ FamilyOf(TestAt(p)) = p[1] /\ PositionOf(TestAt(p)) = p[2]
    /\ \A k \in 1 .. 11 : \A i \in DOMAIN Listed(k) : <<k, i>> \in Places /\ TestAt(<<k, i>>) = Listed(k)[i]
    /\ \A t \in Tests : \E p \in Places : TestAt(p) = t
<1>1. ASSUME NEW p \in Places
      PROVE  \E k \in 1 .. 11 : \E i \in DOMAIN Listed(k) : p = <<k, i>>
    BY FamilyIs DEF Places, Listed
<1>2. ASSUME NEW k \in 1 .. 11, NEW i \in DOMAIN Listed(k)
      PROVE  <<k, i>> \in Places /\ TestAt(<<k, i>>) = Listed(k)[i]
    BY <1>2, FamilyIs DEF Places, Listed, TestAt
<1>3. ASSUME NEW p \in Places
      PROVE  /\ p = <<p[1], p[2]>> /\ p[1] \in 1 .. 11 /\ p[2] \in 1 .. Len(Listed(p[1]))
             /\ TestAt(p) \in Tests /\ FamilyOf(TestAt(p)) = p[1] /\ PositionOf(TestAt(p)) = p[2]
    <2>1. PICK k \in 1 .. 11 : \E i \in DOMAIN Listed(k) : p = <<k, i>>
        BY <1>1
    <2>2. PICK i \in DOMAIN Listed(k) : p = <<k, i>>
        BY <2>1
    <2>3. i \in 1 .. Len(Listed(k)) /\ FamilyOf(Listed(k)[i]) = k /\ PositionOf(Listed(k)[i]) = i
        BY OwnTests
    <2>4. p[1] = k /\ p[2] = i /\ TestAt(p) = Listed(k)[i]
        BY <1>2, <2>2
    <2> QED  BY <2>2, <2>3, <2>4 DEF Tests
<1> QED  BY <1>2, <1>3 DEF Tests

\* No test is in two places.
LEMMA TestsApart ==
    ASSUME NEW p \in Places, NEW q \in Places, TestAt(p) = TestAt(q) PROVE p = q
<1>1. \A r \in Places : r = <<FamilyOf(TestAt(r)), PositionOf(TestAt(r))>>
    BY PlacesAre
<1> QED  BY <1>1

\* Where the tests are that a synthesis reads or that are asked again.
LEMMA NamedPlaces ==
    /\ \A k \in 1 .. 11 : Len(Listed(k)) \in Nat
    /\ /\ Len(Listed(4)) = 7 /\ Listed(4)[1] = "CUS-01" /\ Listed(4)[2] = "CUS-02" /\ Listed(4)[7] = "CUS-07"
    /\ /\ Len(Listed(6)) = 5 /\ Listed(6)[2] = "PRI-02" /\ Listed(6)[3] = "PRI-03" /\ Listed(6)[5] = "PRI-05"
    /\ /\ Len(Listed(7)) = 5 /\ Listed(7)[4] = "PEO-04"
    /\ /\ Len(Listed(8)) = 6 /\ Listed(8)[1] = "SUP-01" /\ Listed(8)[2] = "SUP-02" /\ Listed(8)[3] = "SUP-03"
       /\ Listed(8)[4] = "SUP-04" /\ Listed(8)[5] = "SUP-05" /\ Listed(8)[6] = "SUP-06"
    /\ /\ Len(Listed(9)) = 7 /\ Listed(9)[2] = "WC-02" /\ Listed(9)[3] = "WC-03" /\ Listed(9)[4] = "WC-04"
       /\ Listed(9)[6] = "WC-06" /\ Listed(9)[7] = "WC-07"
    /\ /\ Len(Listed(11)) = 4 /\ Listed(11)[1] = "RISK-01" /\ Listed(11)[2] = "RISK-02"
       /\ Listed(11)[3] = "RISK-03" /\ Listed(11)[4] = "RISK-04"
<1>0. \A k \in 1 .. 11 : Len(Listed(k)) \in Nat
    BY OwnTests
<1>1. /\ Len(Listed(4)) = 7 /\ Listed(4)[1] = "CUS-01" /\ Listed(4)[2] = "CUS-02" /\ Listed(4)[7] = "CUS-07"
    BY FamilyIs DEF Listed, Customer, Family, Refused
<1>2. /\ Len(Listed(6)) = 5 /\ Listed(6)[2] = "PRI-02" /\ Listed(6)[3] = "PRI-03" /\ Listed(6)[5] = "PRI-05"
    BY FamilyIs DEF Listed, Pricing, Family, Refused
<1>3. /\ Len(Listed(7)) = 5 /\ Listed(7)[4] = "PEO-04"
    BY FamilyIs DEF Listed, Workforce, Family, Refused
<1>4. /\ Len(Listed(8)) = 6 /\ Listed(8)[1] = "SUP-01" /\ Listed(8)[2] = "SUP-02" /\ Listed(8)[3] = "SUP-03"
      /\ Listed(8)[4] = "SUP-04" /\ Listed(8)[5] = "SUP-05" /\ Listed(8)[6] = "SUP-06"
    BY FamilyIs DEF Listed, Supply, Family
<1>5. /\ Len(Listed(9)) = 7 /\ Listed(9)[2] = "WC-02" /\ Listed(9)[3] = "WC-03" /\ Listed(9)[4] = "WC-04"
      /\ Listed(9)[6] = "WC-06" /\ Listed(9)[7] = "WC-07"
    BY FamilyIs DEF Listed, Capital, Family
<1>6. /\ Len(Listed(11)) = 4 /\ Listed(11)[1] = "RISK-01" /\ Listed(11)[2] = "RISK-02"
      /\ Listed(11)[3] = "RISK-03" /\ Listed(11)[4] = "RISK-04"
    BY FamilyIs DEF Listed, Risk, Family
<1> QED  BY <1>0, <1>1, <1>2, <1>3, <1>4, <1>5, <1>6

\* What was asked before a place.
Before(p) == {q \in Places : q[1] < p[1] \/ (q[1] = p[1] /\ q[2] < p[2])}

\* Places follow one another, each adding itself to what came before.
LEMMA AskedInOrder ==
    /\ <<1, 1>> \in Places /\ Before(<<1, 1>>) = {} /\ Before(AllAsked) = Places /\ AllAsked = <<12, 1>>
    /\ \A p \in Places : /\ NextPlace(p) \in Places \cup {AllAsked} /\ NextPlace(p) \in Nat \X Nat
                         /\ p \notin Before(p) /\ Before(NextPlace(p)) = Before(p) \cup {p}
<1>1. AllAsked = <<12, 1>>
    BY FamilyIs DEF AllAsked
<1>2. \A l \in 1 .. 11 : Len(Listed(l)) \in Int
    BY OwnTests
<1>a. \A l \in 1 .. 11 : 3 <= Len(Listed(l))
    BY OwnTests
<1>b. \A l \in 1 .. 11 : DOMAIN Listed(l) = 1 .. Len(Listed(l))
    BY OwnTests
<1>3. \A q \in Places : /\ q = <<q[1], q[2]>> /\ q[1] \in 1 .. 11 /\ q[2] \in Int
                        /\ 1 <= q[2] /\ q[2] <= Len(Listed(q[1]))
    <2>1. SUFFICES ASSUME NEW q \in Places
                   PROVE  /\ q = <<q[1], q[2]>> /\ q[1] \in 1 .. 11 /\ q[2] \in Int
                          /\ 1 <= q[2] /\ q[2] <= Len(Listed(q[1]))
        OBVIOUS
    <2>2. q = <<q[1], q[2]>> /\ q[1] \in 1 .. 11 /\ q[2] \in 1 .. Len(Listed(q[1]))
        BY PlacesAre
    <2>3. Len(Listed(q[1])) \in Int
        BY <1>2, <2>2
    <2> QED  BY <2>2, <2>3
<1>4. <<1, 1>> \in Places
    <2>a. Len(Listed(1)) \in Int /\ 3 <= Len(Listed(1))
        BY <1>2, <1>a
    <2>b. DOMAIN Listed(1) = 1 .. Len(Listed(1))
        BY <1>b
    <2>1. 1 \in DOMAIN Listed(1)
        BY <2>a, <2>b
    <2> QED  BY <2>1, PlacesAre
<1>5. Before(<<1, 1>>) = {} /\ Before(AllAsked) = Places
    BY <1>1, <1>3 DEF Before
<1>6. ASSUME NEW p \in Places
      PROVE  /\ NextPlace(p) \in Places \cup {AllAsked} /\ NextPlace(p) \in Nat \X Nat
             /\ p \notin Before(p) /\ Before(NextPlace(p)) = Before(p) \cup {p}
    <2> DEFINE k == p[1]
               i == p[2]
    <2>1. k \in 1 .. 11 /\ i \in Int /\ p = <<k, i>> /\ 1 <= i /\ i <= Len(Listed(k))
        BY <1>3
    <2>2. p[1] = k /\ p[2] = i
        OBVIOUS
    <2> HIDE DEF k, i
    <2>3. NextPlace(p) = IF i < Len(Listed(k)) THEN <<k, i + 1>> ELSE <<k + 1, 1>>
        BY <2>2 DEF NextPlace, Listed
    <2>4. Len(Listed(k)) \in Int
        BY <1>2, <2>1
    <2>8. p \notin Before(p)
        BY <2>1, <2>2 DEF Before
    <2>5. \A q \in Places : q = p <=> q[1] = k /\ q[2] = i
        BY <1>3, <2>1, <2>2
    <2>6. CASE i < Len(Listed(k))
        <3>1. NextPlace(p) = <<k, i + 1>>
            BY <2>3, <2>6
        <3>2. NextPlace(p) \in Places
            <4>1. DOMAIN Listed(k) = 1 .. Len(Listed(k))
                BY <1>b, <2>1
            <4>2. i + 1 \in DOMAIN Listed(k)
                BY <2>1, <2>4, <2>6, <4>1
            <4> QED  BY <2>1, <3>1, <4>2, PlacesAre
        <3>3. \A q \in Places : q[1] < k \/ (q[1] = k /\ q[2] < i + 1) <=> q[1] < k \/ (q[1] = k /\ q[2] < i) \/ q = p
            BY <1>3, <2>5
        <3>4. NextPlace(p)[1] = k /\ NextPlace(p)[2] = i + 1
            BY <3>1
        <3>5. Before(NextPlace(p)) = Before(p) \cup {p}
            BY <2>2, <3>3, <3>4 DEF Before
        <3> QED  BY <2>1, <2>8, <3>1, <3>2, <3>5
    <2>7. CASE ~(i < Len(Listed(k)))
        <3>1. NextPlace(p) = <<k + 1, 1>> /\ i = Len(Listed(k))
            BY <2>1, <2>3, <2>4, <2>7
        <3>2. NextPlace(p) \in Places \cup {AllAsked}
            <4>1. CASE k = 11
                BY <1>1, <3>1, <4>1
            <4>2. CASE k # 11
                <5>1. k + 1 \in 1 .. 11
                    BY <2>1, <4>2
                <5>2. /\ Len(Listed(k + 1)) \in Int /\ 3 <= Len(Listed(k + 1))
                      /\ DOMAIN Listed(k + 1) = 1 .. Len(Listed(k + 1))
                    BY <1>2, <1>a, <1>b, <5>1
                <5>3. 1 \in DOMAIN Listed(k + 1)
                    BY <5>2
                <5> QED  BY <3>1, <5>1, <5>3, PlacesAre
            <4> QED  BY <4>1, <4>2
        <3>3. \A q \in Places : q[1] < k + 1 \/ (q[1] = k + 1 /\ q[2] < 1) <=> q[1] < k \/ (q[1] = k /\ q[2] < i) \/ q = p
            BY <1>3, <2>1, <2>5, <3>1, SMTT(30)
        <3>4. NextPlace(p)[1] = k + 1 /\ NextPlace(p)[2] = 1
            BY <3>1
        <3>5. Before(NextPlace(p)) = Before(p) \cup {p}
            BY <2>2, <3>3, <3>4 DEF Before
        <3> QED  BY <2>1, <2>8, <3>1, <3>2, <3>5
    <2> QED  BY <2>6, <2>7
<1> QED  BY <1>1, <1>4, <1>5, <1>6

(* What the tests are *)

\* Every test is of one of the kinds that EligibilityOf tells apart.
LEMMA Kinds ==
    /\ \A t \in Tests : \/ t \in SalesTests \/ t \in Range(Workforce.tests) \/ t \in Range(Supply.tests)
                        \/ t \in Range(Capital.tests) \/ t \in Range(Forecasting.tests)
                        \/ t \in {"RISK-01", "RISK-02", "RISK-03", "RISK-04"}
    /\ \A t \in SalesTests : FamilyOf(t) \in 1 .. 6
    /\ \A t \in Range(Workforce.tests) : FamilyOf(t) = 7
    /\ \A t \in Range(Supply.tests) : FamilyOf(t) = 8
    /\ \A t \in Range(Capital.tests) : FamilyOf(t) = 9
    /\ \A t \in Range(Forecasting.tests) : FamilyOf(t) = 10
    /\ \A t \in Tests : FamilyOf(t) = 11 => t \in {"RISK-01", "RISK-02", "RISK-03", "RISK-04"}
    /\ \A t \in {"RISK-01", "RISK-02", "RISK-03", "RISK-04"} : t \in Range(Risk.tests)
<1>1. \A k \in 1 .. 11 : Range(Listed(k)) = {Listed(k)[i] : i \in DOMAIN Listed(k)}
    BY DEF Range
<1>2. ASSUME NEW t \in Tests
      PROVE  \E k \in 1 .. 11 : t \in Range(Listed(k)) /\ FamilyOf(t) = k
    <2>1. PICK p \in Places : TestAt(p) = t
        BY PlacesAre
    <2>2. p = <<p[1], p[2]>> /\ p[1] \in 1 .. 11 /\ p[2] \in 1 .. Len(Listed(p[1])) /\ FamilyOf(t) = p[1]
        BY <2>1, PlacesAre
    <2>3. p[2] \in DOMAIN Listed(p[1])
        BY <2>2, OwnTests
    <2>4. t = Listed(p[1])[p[2]]
        BY <2>1, <2>2, <2>3, PlacesAre
    <2> QED  BY <1>1, <2>2, <2>3, <2>4
<1>3. ASSUME NEW k \in 1 .. 11, NEW t \in Range(Listed(k))
      PROVE  FamilyOf(t) = k
    <2>1. \A i \in DOMAIN Listed(k) : FamilyOf(Listed(k)[i]) = k
        BY OwnTests
    <2> QED  BY <1>1, <2>1
<1>4. /\ Listed(1) = Revenue.tests /\ Listed(2) = ExtendedRevenue.tests /\ Listed(3) = Margin.tests
      /\ Listed(4) = Customer.tests /\ Listed(5) = Product.tests /\ Listed(6) = Pricing.tests
    BY FamilyIs DEF Listed
<1>5. /\ Listed(7) = Workforce.tests /\ Listed(8) = Supply.tests /\ Listed(9) = Capital.tests
      /\ Listed(10) = Forecasting.tests /\ Listed(11) = Risk.tests
    BY FamilyIs DEF Listed
<1>6. SalesTests = Range(Listed(1)) \cup Range(Listed(2)) \cup Range(Listed(3)) \cup Range(Listed(4))
                       \cup Range(Listed(5)) \cup Range(Listed(6))
    BY <1>4 DEF SalesTests, SalesFamilies
<1>7. Range(Listed(11)) = {"RISK-01", "RISK-02", "RISK-03", "RISK-04"}
    <2>1. Listed(11) = <<"RISK-01", "RISK-02", "RISK-03", "RISK-04">>
        BY <1>5 DEF Risk, Family
    <2> QED  BY <2>1 DEF Range
<1>8. \A t \in SalesTests : FamilyOf(t) \in 1 .. 6
    <2>1. \A t \in SalesTests : \E k \in 1 .. 6 : t \in Range(Listed(k))
        BY <1>6
    <2> QED  BY <1>3, <2>1
<1>9. ASSUME NEW t \in Tests
      PROVE  \/ t \in SalesTests \/ t \in Range(Workforce.tests) \/ t \in Range(Supply.tests)
             \/ t \in Range(Capital.tests) \/ t \in Range(Forecasting.tests)
             \/ t \in {"RISK-01", "RISK-02", "RISK-03", "RISK-04"}
    <2>1. PICK k \in 1 .. 11 : t \in Range(Listed(k)) /\ FamilyOf(t) = k
        BY <1>2
    <2>2. k \in {1, 2, 3, 4, 5, 6, 7, 8, 9, 10, 11}
        OBVIOUS
    <2> QED  BY <1>5, <1>6, <1>7, <2>1, <2>2
<1>10. ASSUME NEW t \in Tests, FamilyOf(t) = 11
       PROVE  t \in {"RISK-01", "RISK-02", "RISK-03", "RISK-04"}
    BY <1>2, <1>7, <1>10
<1>11. /\ \A t \in Range(Workforce.tests) : FamilyOf(t) = 7
       /\ \A t \in Range(Supply.tests) : FamilyOf(t) = 8
       /\ \A t \in Range(Capital.tests) : FamilyOf(t) = 9
       /\ \A t \in Range(Forecasting.tests) : FamilyOf(t) = 10
    BY <1>3, <1>5
<1>12. \A t \in {"RISK-01", "RISK-02", "RISK-03", "RISK-04"} : t \in Range(Risk.tests)
    BY <1>5, <1>7
<1> QED  BY <1>8, <1>9, <1>10, <1>11, <1>12

\* The summaries' tests: none is asked twice, and none is a forecasting test.
LEMMA HandedOverAre ==
    ASSUME NEW s \in DOMAIN HandedOver
    PROVE  /\ s \in {"CUSTOMERS", "SUPPLIERS", "CAPACITY"} /\ Following[s] \in {"SUPPLIERS", "CAPACITY", "DONE"}
           /\ Following[s] = "SUPPLIERS" \/ Following[s] = "CAPACITY" \/ Following[s] = "DONE"
           /\ \A i \in DOMAIN HandedOver[s] : /\ i \in Nat /\ HandedOver[s][i] \in Tests
                                              /\ HandedOver[s][i] \notin Range(Forecasting.tests)
           /\ \A i, j \in DOMAIN HandedOver[s] : HandedOver[s][i] = HandedOver[s][j] => i = j
<1>1. s \in {"CUSTOMERS", "SUPPLIERS", "CAPACITY"}
    BY DEF HandedOver
<1>2. Following[s] \in {"SUPPLIERS", "CAPACITY", "DONE"}
    BY <1>1 DEF Following
<1>3. /\ HandedOver["CUSTOMERS"] = <<"CUS-01", "CUS-02", "CUS-07">> /\ HandedOver["SUPPLIERS"] = <<"SUP-01", "SUP-03">>
      /\ HandedOver["CAPACITY"] = <<"PEO-04">>
    BY DEF HandedOver
<1>4. /\ "CUS-01" \in Tests /\ "CUS-02" \in Tests /\ "CUS-07" \in Tests
      /\ "SUP-01" \in Tests /\ "SUP-03" \in Tests /\ "PEO-04" \in Tests
    <2>1. ASSUME NEW k \in 1 .. 11, NEW i \in 1 .. Len(Listed(k))
          PROVE  Listed(k)[i] \in Tests
        <3>1. i \in DOMAIN Listed(k)
            BY OwnTests
        <3>2. <<k, i>> \in Places /\ TestAt(<<k, i>>) = Listed(k)[i]
            BY <3>1, PlacesAre
        <3> QED  BY <3>2, PlacesAre
    <2>2. "CUS-01" \in Tests /\ "CUS-02" \in Tests /\ "CUS-07" \in Tests
        <3>1. Len(Listed(4)) = 7 /\ Listed(4)[1] = "CUS-01" /\ Listed(4)[2] = "CUS-02" /\ Listed(4)[7] = "CUS-07"
            BY NamedPlaces
        <3>2. \A i \in 1 .. 7 : Listed(4)[i] \in Tests
            BY <2>1, <3>1
        <3> QED  BY <3>1, <3>2
    <2>3. "SUP-01" \in Tests /\ "SUP-03" \in Tests
        <3>1. Len(Listed(8)) = 6 /\ Listed(8)[1] = "SUP-01" /\ Listed(8)[3] = "SUP-03"
            BY NamedPlaces
        <3>2. \A i \in 1 .. 6 : Listed(8)[i] \in Tests
            BY <2>1, <3>1
        <3> QED  BY <3>1, <3>2
    <2>4. "PEO-04" \in Tests
        <3>1. Len(Listed(7)) = 5 /\ Listed(7)[4] = "PEO-04"
            BY NamedPlaces
        <3>2. \A i \in 1 .. 5 : Listed(7)[i] \in Tests
            BY <2>1, <3>1
        <3> QED  BY <3>1, <3>2
    <2> QED  BY <2>2, <2>3, <2>4
<1>5. \A t \in {"CUS-01", "CUS-02", "CUS-07", "SUP-01", "SUP-03", "PEO-04"} : FamilyOf(t) # 10
    BY DEF FamilyOf
<1>6. \A t \in {"CUS-01", "CUS-02", "CUS-07", "SUP-01", "SUP-03", "PEO-04"} :
          t \in Tests /\ t \notin Range(Forecasting.tests)
    BY <1>4, <1>5, Kinds
<1>7. CASE s = "CUSTOMERS"
    <2>1. HandedOver[s] = <<"CUS-01", "CUS-02", "CUS-07">>
        BY <1>3, <1>7
    <2>2. DOMAIN HandedOver[s] = {1, 2, 3}
        BY <2>1
    <2>3. \A i \in DOMAIN HandedOver[s] : i \in Nat /\ HandedOver[s][i] \in {"CUS-01", "CUS-02", "CUS-07"}
        BY <2>1, <2>2
    <2>4. \A i, j \in DOMAIN HandedOver[s] : HandedOver[s][i] = HandedOver[s][j] => i = j
        BY <2>1, <2>2
    <2> QED  BY <1>1, <1>2, <1>6, <2>3, <2>4
<1>8. CASE s = "SUPPLIERS"
    <2>1. HandedOver[s] = <<"SUP-01", "SUP-03">>
        BY <1>3, <1>8
    <2>2. DOMAIN HandedOver[s] = {1, 2}
        BY <2>1
    <2>3. \A i \in DOMAIN HandedOver[s] : i \in Nat /\ HandedOver[s][i] \in {"SUP-01", "SUP-03"}
        BY <2>1, <2>2
    <2>4. \A i, j \in DOMAIN HandedOver[s] : HandedOver[s][i] = HandedOver[s][j] => i = j
        BY <2>1, <2>2
    <2> QED  BY <1>1, <1>2, <1>6, <2>3, <2>4
<1>9. CASE s = "CAPACITY"
    <2>1. HandedOver[s] = <<"PEO-04">>
        BY <1>3, <1>9
    <2>2. DOMAIN HandedOver[s] = {1}
        BY <2>1
    <2>3. \A i \in DOMAIN HandedOver[s] : i \in Nat /\ HandedOver[s][i] \in {"PEO-04"}
        BY <2>1, <2>2
    <2>4. \A i, j \in DOMAIN HandedOver[s] : HandedOver[s][i] = HandedOver[s][j] => i = j
        BY <2>1, <2>2
    <2> QED  BY <1>1, <1>2, <1>6, <2>3, <2>4
<1> QED  BY <1>1, <1>7, <1>8, <1>9

\* A test is not asked after another of the run.
Asked(t, u) == FamilyOf(t) < FamilyOf(u) \/ (FamilyOf(t) = FamilyOf(u) /\ PositionOf(t) <= PositionOf(u))

\* What lies before a place was asked before its test.
LEMMA BeforeIsAsked ==
    ASSUME NEW p \in Places, NEW q \in Before(p) \cup {p}
    PROVE  q \in Places /\ Asked(TestAt(q), TestAt(p))
<1>1. q \in Places /\ (q[1] < p[1] \/ (q[1] = p[1] /\ q[2] < p[2]) \/ q = p)
    BY DEF Before
<1>2. FamilyOf(TestAt(p)) = p[1] /\ PositionOf(TestAt(p)) = p[2] /\ FamilyOf(TestAt(q)) = q[1] /\ PositionOf(TestAt(q)) = q[2]
    BY <1>1, PlacesAre
<1>3. p[1] \in 1 .. 11 /\ p[2] \in 1 .. Len(Listed(p[1])) /\ q[1] \in 1 .. 11 /\ q[2] \in 1 .. Len(Listed(q[1]))
    BY <1>1, PlacesAre
<1>4. p[2] \in Int /\ p[1] \in Int /\ q[1] \in Int /\ q[2] \in Int
    BY <1>3
<1>5. q[1] < p[1] \/ (q[1] = p[1] /\ q[2] <= p[2])
    BY <1>1, <1>4
<1> QED  BY <1>1, <1>2, <1>5 DEF Asked

\* What a synthesis reads is not asked while it is, or later.
LEMMA ReadEarlier ==
    ASSUME NEW u \in Tests
    PROVE  /\ Asked("PRI-05", u) => u \notin {"PRI-02", "PRI-03"}
           /\ Asked("SUP-06", u) => u \notin {"SUP-02", "SUP-04", "SUP-05"}
           /\ Asked("WC-07", u) => u \notin {"WC-02", "WC-03", "WC-04", "WC-06"}
           /\ Asked("RISK-02", u) => u \in {"RISK-02", "RISK-03", "RISK-04"}
           /\ Asked("RISK-03", u) => u \in {"RISK-03", "RISK-04"}
           /\ Asked("RISK-04", u) => u \notin {"RISK-01", "RISK-02", "RISK-03"}
<1>1. ~Asked("PRI-05", "PRI-02") /\ ~Asked("PRI-05", "PRI-03")
    BY DEF Asked, FamilyOf, PositionOf
<1>2. ~Asked("SUP-06", "SUP-02") /\ ~Asked("SUP-06", "SUP-04") /\ ~Asked("SUP-06", "SUP-05")
    BY DEF Asked, FamilyOf, PositionOf
<1>3. ~Asked("WC-07", "WC-02") /\ ~Asked("WC-07", "WC-03") /\ ~Asked("WC-07", "WC-04") /\ ~Asked("WC-07", "WC-06")
    BY DEF Asked, FamilyOf, PositionOf
<1>4. ~Asked("RISK-02", "RISK-01") /\ ~Asked("RISK-03", "RISK-01") /\ ~Asked("RISK-03", "RISK-02")
    BY DEF Asked, FamilyOf, PositionOf
<1>5. ~Asked("RISK-04", "RISK-01") /\ ~Asked("RISK-04", "RISK-02") /\ ~Asked("RISK-04", "RISK-03")
    BY DEF Asked, FamilyOf, PositionOf
<1>6. Asked("RISK-02", u) \/ Asked("RISK-03", u) => u \in {"RISK-01", "RISK-02", "RISK-03", "RISK-04"}
    <2>1. FamilyOf("RISK-02") = 11 /\ FamilyOf("RISK-03") = 11
        BY DEF FamilyOf
    <2>2. FamilyOf(u) \in 1 .. 11
        BY PlacesAre
    <2>3. Asked("RISK-02", u) \/ Asked("RISK-03", u) => FamilyOf(u) = 11
        BY <2>1, <2>2 DEF Asked
    <2> QED  BY <2>3, Kinds
<1> QED  BY <1>1, <1>2, <1>3, <1>4, <1>5, <1>6

(* What the signals are *)

Synthesising == {"PRI-05", "SUP-06", "WC-07", "RISK-02", "RISK-03", "RISK-04"}

\* The materialities of the signals a run holds, and of those a test draws.
LEMMA SignalsAreGraded ==
    ASSUME NEW t \in Tests, client \in Clients,
           \A p \in DOMAIN answers : \A s \in answers[p].signals : s.mat \in Materialities
    PROVE  \A s \in Synthesised(t) : s.mat \in Materialities
<1>1. \A g \in IF t \in DOMAIN client.gives THEN client.gives[t] ELSE {} : g[2] \in Materialities
    BY ClientAssumption DEF ClientFacts, Yields
<1>2. \A s \in Given(t) : s.mat \in Materialities
    BY <1>1 DEF Given, Signal
<1>3. \A T : \A x \in Held(T) : x[2].mat \in Materialities
    BY DEF Held
<1>4. \A T, types : \A x \in Typed(Held(T), types) : x[2].mat \in Materialities
    BY <1>3 DEF Typed
<1>5. \A x \in ReadBy(t) : x[2].mat \in Materialities
    BY <1>3, <1>4 DEF ReadBy
<1>6. \A type : \A x \in ReadBy(t) : Restated(type, x).mat \in Materialities
    BY <1>5 DEF Restated, Signal
<1>7. \A s \in IntegritySignals : s.mat \in Materialities
    BY DEF IntegritySignals, Signal, Materialities
<1>8. \A from : Signal("PRICING_OPPORTUNITY_CANDIDATE_SET", "INFORMATIONAL", "BUSINESS", from).mat \in Materialities
    BY DEF Signal, Materialities
<1> HIDE DEF Signal
<1>9. CASE t = "PRI-05"
    BY <1>8, <1>9 DEF Synthesised
<1>10. CASE t = "SUP-06"
    BY <1>6, <1>10 DEF Synthesised
<1>11. CASE t = "WC-07"
    BY <1>6, <1>11 DEF Synthesised
<1>12. CASE t = "RISK-01"
    BY <1>7, <1>12 DEF Synthesised
<1>13. CASE t = "RISK-02"
    BY <1>2, <1>6, <1>13 DEF Synthesised
<1>14. CASE t = "RISK-03"
    BY <1>2, <1>6, <1>14 DEF Synthesised
<1>15. CASE t = "RISK-04"
    BY <1>6, <1>15 DEF Synthesised
<1>16. CASE t \notin {"PRI-05", "SUP-06", "WC-07", "RISK-01", "RISK-02", "RISK-03", "RISK-04"}
    <2>1. Synthesised(t) = Given(t)
        BY <1>16 DEF Synthesised
    <2> QED  BY <1>2, <2>1
<1> QED  BY <1>9, <1>10, <1>11, <1>12, <1>13, <1>14, <1>15, <1>16

\* Neither an exception nor an exposure is found among the syntheses.
LEMMA RiskTypes ==
    ASSUME NEW t \in {"RISK-02", "RISK-03", "RISK-04"}, client \in Clients
    PROVE  \A s \in Synthesised(t) : s.type \notin Forensic \cup Dependency
<1>1. t \in {"RISK-02", "RISK-03"} => \A s \in Given(t) : s.type \notin Forensic \cup Dependency
    BY ClientAssumption DEF ClientFacts, Given, Signal
<1>2. \A type, x : Restated(type, x).type = type
    BY DEF Restated, Signal
<1>3. \A type \in {"FORENSIC_EXCEPTION_SIGNAL", "DEPENDENCY_EXPOSURE_SIGNAL", "GOVERNANCE_ACTION_CANDIDATE"} :
          type \notin Forensic \cup Dependency
    BY DEF Forensic, Dependency
<1>4. \A type \in {"FORENSIC_EXCEPTION_SIGNAL", "DEPENDENCY_EXPOSURE_SIGNAL", "GOVERNANCE_ACTION_CANDIDATE"} :
          \A s \in {Restated(type, x) : x \in ReadBy(t)} : s.type \notin Forensic \cup Dependency
    BY <1>2, <1>3
<1>5. CASE t = "RISK-02"
    BY <1>1, <1>4, <1>5 DEF Synthesised
<1>6. CASE t = "RISK-03"
    BY <1>1, <1>4, <1>6 DEF Synthesised
<1>7. CASE t = "RISK-04"
    BY <1>4, <1>7 DEF Synthesised
<1> QED  BY <1>5, <1>6, <1>7

\* A synthesis cites all it reads, and nothing else.
LEMMA CitesAll ==
    ASSUME NEW t \in Synthesising
    PROVE  UNION {s.from : s \in Synthesised(t)} = {Name(x[1], x[2]) : x \in ReadBy(t)}
<1>1. \A s \in Given(t) : s.from = {}
    BY DEF Given, Signal
<1>2. \A type, x : Restated(type, x).from = {Name(x[1], x[2])}
    BY DEF Restated, Signal
<1>3. ASSUME NEW type
      PROVE  UNION {s.from : s \in {Restated(type, x) : x \in ReadBy(t)}} = {Name(x[1], x[2]) : x \in ReadBy(t)}
    <2> DEFINE made == {Restated(type, x) : x \in ReadBy(t)}
               names == {Name(x[1], x[2]) : x \in ReadBy(t)}
    <2>1. ASSUME NEW y \in UNION {s.from : s \in made}
          PROVE  y \in names
        <3>1. PICK s \in made : y \in s.from
            OBVIOUS
        <3>2. PICK x \in ReadBy(t) : s = Restated(type, x)
            OBVIOUS
        <3>3. y = Name(x[1], x[2])
            BY <1>2, <3>1, <3>2
        <3> QED  BY <3>3
    <2>2. ASSUME NEW y \in names
          PROVE  y \in UNION {s.from : s \in made}
        <3>1. PICK x \in ReadBy(t) : y = Name(x[1], x[2])
            OBVIOUS
        <3>2. Restated(type, x) \in made /\ y \in Restated(type, x).from
            BY <1>2, <3>1
        <3> HIDE DEF made
        <3> QED  BY <3>2
    <2> QED  BY <2>1, <2>2
<1>4. ASSUME NEW type
      PROVE  UNION {s.from : s \in Given(t) \cup {Restated(type, x) : x \in ReadBy(t)}}
                 = UNION {s.from : s \in {Restated(type, x) : x \in ReadBy(t)}}
    BY <1>1
<1>5. CASE t = "PRI-05"
    <2>1. \A from : Signal("PRICING_OPPORTUNITY_CANDIDATE_SET", "INFORMATIONAL", "BUSINESS", from).from = from
        BY DEF Signal
    <2>2. CASE ReadBy(t) = {}
        <3>1. Synthesised(t) = {}
            BY <1>5, <2>2 DEF Synthesised
        <3> QED  BY <2>2, <3>1
    <2>3. CASE ReadBy(t) # {}
        <3>1. Synthesised(t) = {Signal("PRICING_OPPORTUNITY_CANDIDATE_SET", "INFORMATIONAL", "BUSINESS",
                                       {Name(x[1], x[2]) : x \in ReadBy(t)})}
            BY <1>5, <2>3 DEF Synthesised
        <3> QED  BY <2>1, <3>1
    <2> QED  BY <2>2, <2>3
<1>6. CASE t = "SUP-06"
    BY <1>3, <1>6 DEF Synthesised
<1>7. CASE t = "WC-07"
    BY <1>3, <1>7 DEF Synthesised
<1>8. CASE t = "RISK-02"
    BY <1>3, <1>4, <1>8 DEF Synthesised
<1>9. CASE t = "RISK-03"
    BY <1>3, <1>4, <1>9 DEF Synthesised
<1>10. CASE t = "RISK-04"
    BY <1>3, <1>10 DEF Synthesised
<1> QED  BY <1>5, <1>6, <1>7, <1>8, <1>9, <1>10 DEF Synthesising

\* Every test takes an eligibility; what is stored of it is what it takes.
LEMMA Eligible ==
    ASSUME NEW t \in Tests, eligibility[t] \in Eligibilities
    PROVE  /\ EligibilityOf(t) \in Eligibilities \ {"NONE"}
           /\ /\ client.ledger \/ eligibility[t] = "NONE"
              /\ t \in Range(Forecasting.tests) => eligibility[t] = "NONE"
              /\ eligibility[t] # "NONE" /\ t \notin Range(Risk.tests)
              => EligibilityOf(t) = eligibility[t]
<1> DEFINE stored == eligibility[t]
           used == EligibilityOf(t)
<1>1. /\ "FULL" \in Eligibilities \ {"NONE"} /\ "PARTIAL-A" \in Eligibilities \ {"NONE"}
      /\ "UNAVAILABLE" \in Eligibilities \ {"NONE"}
    BY DEF Eligibilities
<1>2. /\ t \in SalesTests => FamilyOf(t) \in 1 .. 6
      /\ t \in Range(Workforce.tests) => FamilyOf(t) = 7
      /\ t \in Range(Supply.tests) => FamilyOf(t) = 8
      /\ t \in Range(Capital.tests) => FamilyOf(t) = 9
      /\ t \in Range(Forecasting.tests) => FamilyOf(t) = 10
      /\ t \in {"RISK-01", "RISK-02", "RISK-03", "RISK-04"} => FamilyOf(t) = 11
    <2>1. t \in {"RISK-01", "RISK-02", "RISK-03", "RISK-04"} => FamilyOf(t) = 11
        BY DEF FamilyOf
    <2> QED  BY <2>1, Kinds
<1>3. CASE t \in SalesTests
    <2>1. /\ t \notin Range(Workforce.tests) /\ t \notin Range(Supply.tests)
          /\ t \notin Range(Capital.tests) /\ t \notin Range(Forecasting.tests)
          /\ t # "RISK-01" /\ t \notin {"RISK-02", "RISK-04"} /\ t # "RISK-03"
        BY <1>2, <1>3
    <2>2. used = IF client.ledger /\ stored # "NONE" THEN stored ELSE "UNAVAILABLE"
        BY <1>3, <2>1 DEF EligibilityOf
    <2> QED  BY <1>1, <2>2
<1>4. CASE t \in Range(Workforce.tests)
    <2>1. /\ t \notin SalesTests /\ t \notin Range(Supply.tests)
          /\ t \notin Range(Capital.tests) /\ t \notin Range(Forecasting.tests)
          /\ t # "RISK-01" /\ t \notin {"RISK-02", "RISK-04"} /\ t # "RISK-03"
        BY <1>2, <1>4
    <2>2. used = IF stored # "NONE" THEN stored ELSE Found(client.workforce)
        BY <1>4, <2>1 DEF EligibilityOf
    <2> QED  BY <1>1, <2>2 DEF Found
<1>5. CASE t \in Range(Supply.tests)
    <2>1. /\ t \notin SalesTests /\ t \notin Range(Workforce.tests)
          /\ t \notin Range(Capital.tests) /\ t \notin Range(Forecasting.tests)
          /\ t # "RISK-01" /\ t \notin {"RISK-02", "RISK-04"} /\ t # "RISK-03"
        BY <1>2, <1>5
    <2>2. used = IF stored # "NONE" THEN stored ELSE "FULL"
        BY <1>5, <2>1 DEF EligibilityOf
    <2> QED  BY <1>1, <2>2
<1>6. CASE t \in Range(Capital.tests)
    <2>1. /\ t \notin SalesTests /\ t \notin Range(Workforce.tests)
          /\ t \notin Range(Supply.tests) /\ t \notin Range(Forecasting.tests)
          /\ t # "RISK-01" /\ t \notin {"RISK-02", "RISK-04"} /\ t # "RISK-03"
        BY <1>2, <1>6
    <2>2. used = IF stored # "NONE" THEN stored ELSE Found(Synthesised(t) # {})
        BY <1>6, <2>1 DEF EligibilityOf
    <2> QED  BY <1>1, <2>2 DEF Found
<1>7. CASE t \in Range(Forecasting.tests)
    <2>1. /\ t \notin SalesTests /\ t \notin Range(Workforce.tests)
          /\ t \notin Range(Supply.tests) /\ t \notin Range(Capital.tests)
          /\ t # "RISK-01" /\ t \notin {"RISK-02", "RISK-04"} /\ t # "RISK-03"
        BY <1>2, <1>7
    <2>2. used = Found(Synthesised(t) # {})
        BY <1>7, <2>1 DEF EligibilityOf
    <2> QED  BY <1>1, <2>2, <1>7 DEF Found
<1>8. CASE t \in {"RISK-01", "RISK-02", "RISK-03", "RISK-04"}
    <2>0. t \in Range(Risk.tests)
        BY <1>8, Kinds
    <2>1. /\ t \notin SalesTests /\ t \notin Range(Workforce.tests) /\ t \notin Range(Supply.tests)
          /\ t \notin Range(Capital.tests) /\ t \notin Range(Forecasting.tests)
        BY <1>2, <1>8
    <2>2. CASE t = "RISK-01"
        <3>1. used = Found(controls # {} \/ \E d \in Domains : integrity[d] # "NONE")
            BY <2>1, <2>2 DEF EligibilityOf
        <3> QED  BY <1>1, <2>0, <3>1 DEF Found
    <2>3. CASE t \in {"RISK-02", "RISK-04"}
        <3>1. used = IF Synthesised(t) # {} THEN "FULL" ELSE "PARTIAL-A"
            BY <2>1, <2>3 DEF EligibilityOf
        <3> QED  BY <1>1, <2>0, <3>1
    <2>4. CASE t = "RISK-03"
        <3>1. used = IF Given(t) # {} THEN "FULL" ELSE IF ReadBy(t) # {} THEN "PARTIAL-A" ELSE "UNAVAILABLE"
            BY <2>1, <2>4 DEF EligibilityOf
        <3> QED  BY <1>1, <2>0, <3>1
    <2> QED  BY <1>8, <2>2, <2>3, <2>4
<1>9. QED
    BY <1>3, <1>4, <1>5, <1>6, <1>7, <1>8, Kinds

\* The columns of an answer; what is refused or not run is silent.
LEMMA AnswerIs ==
    ASSUME NEW t
    PROVE  /\ Answer(t).test = t /\ Answer(t).eligibility = EligibilityOf(t)
           /\ Answer(t).signals = IF t \in Refusing /\ EligibilityOf(t) = "UNAVAILABLE" THEN {} ELSE Synthesised(t)
           /\ Answer(t).status = "NOT_RUN" => Answer(t).signals = {}
BY DEF Answer, Answered

\* An answer from a summary is partial, or refused and silent.
LEMMA SummaryIs ==
    ASSUME NEW t
    PROVE  /\ FromSummary(t).test = t
           /\ FromSummary(t).eligibility \in {"PARTIAL-A", "UNAVAILABLE"}
           /\ FromSummary(t).eligibility = "UNAVAILABLE" => FromSummary(t).signals = {}
           /\ FromSummary(t).status = "NOT_RUN" => FromSummary(t).signals = {}
           /\ FromSummary(t).signals = {Signal(g[1], g[2], g[3], {}) : g \in client.summaries[t]}
BY DEF FromSummary, Answered

(* A run's invariant *)

Judging == {"SALES", "ACCOUNTS", "CROSS"}
Closing == {"CUSTOMERS", "SUPPLIERS", "CAPACITY", "DONE"}

\* The answer of a synthesising test cites all it read.
Complete(t) ==
    \A p \in DOMAIN answers :
        answers[p].test = t /\ (answers[p].eligibility # "UNAVAILABLE" \/ t \notin Refusing)
            => UNION {s.from : s \in answers[p].signals} = {Name(x[1], x[2]) : x \in ReadBy(t)}
\* What was refused says nothing, and the eligibility stored is the one used.
Recorded(a) ==
    /\ a.test \in Refusing /\ a.eligibility = "UNAVAILABLE" => a.signals = {}
    /\ a.status = "NOT_RUN" => a.signals = {}
    /\ eligibility[a.test] # "NONE" /\ a.test \notin Range(Risk.tests) => a.eligibility = eligibility[a.test]

NothingAsked == client.ledger /\ DOMAIN answers = {} /\ place = <<1, 1>>
AskedSoFar ==
    /\ place \in Places \cup {AllAsked} /\ DOMAIN answers = Before(place)
    /\ \A p \in DOMAIN answers : answers[p].test = TestAt(p)
    /\ \A t \in Synthesising : Complete(t)
    /\ client.ledger \/ \A t \in Tests : eligibility[t] = "NONE"
AllAnsweredBefore ==
    /\ \A t \in Tests : \E p \in DOMAIN answers : answers[p].test = t
    /\ \A p \in DOMAIN answers : p[1] < place[1]

RunInv ==
    /\ RunTypeOK
    /\ stage \in Judging => NothingAsked
    /\ stage = "TESTS" => AskedSoFar
    /\ stage \in Closing => AllAnsweredBefore
    /\ \A p, q \in DOMAIN answers : answers[p].test = answers[q].test => p = q
    /\ \A t \in Range(Forecasting.tests) : eligibility[t] = "NONE"
    /\ \A p \in DOMAIN answers : Recorded(answers[p])

\* The forecasting tests are tests of the list.
LEMMA ForecastingTests == Range(Forecasting.tests) \subseteq Tests
<1>1. ASSUME NEW t \in Range(Forecasting.tests)
      PROVE  t \in Tests
    <2>1. PICK i \in DOMAIN Forecasting.tests : t = Forecasting.tests[i]
        BY DEF Range
    <2>2. Listed(10) = Forecasting.tests
        BY FamilyIs DEF Listed
    <2>3. <<10, i>> \in Places /\ TestAt(<<10, i>>) = t
        BY <2>1, <2>2, PlacesAre
    <2> QED  BY <2>3, PlacesAre
<1> QED  BY <1>1

\* A run starts with nothing asked.
LEMMA RunInitInv == RunInit => RunInv
<1> SUFFICES ASSUME RunInit PROVE RunInv
    OBVIOUS
<1>1. DOMAIN answers = {} /\ place = <<1, 1>>
    BY DEF RunInit
<1>2. RunTypeOK
    <2>1. \A c \in controls : c[2] \in {"RECONCILED", "FAILED"}
        BY ClientAssumption DEF RunInit, ClientFacts
    <2>2. stage \in {"SALES", "TESTS"}
        BY DEF RunInit
    <2>3. integrity \in [Domains -> Integrities] /\ eligibility \in [Tests -> Eligibilities]
        BY DEF RunInit, Integrities, Eligibilities
    <2> QED  BY <1>1, <2>1, <2>2, <2>3 DEF RunInit, RunTypeOK
<1>3. stage \in Judging => NothingAsked
    BY <1>1 DEF RunInit, Judging, NothingAsked
<1>4. stage = "TESTS" => AskedSoFar
    BY <1>1, AskedInOrder DEF RunInit, AskedSoFar, Complete
<1>5. stage \notin Closing
    BY DEF RunInit, Closing
<1>6. \A t \in Range(Forecasting.tests) : eligibility[t] = "NONE"
    BY ForecastingTests DEF RunInit
<1> QED  BY <1>1, <1>2, <1>3, <1>4, <1>5, <1>6 DEF RunInv

\* The trust layer stores nothing of a forecasting test, and asks nothing.
LEMMA TrustLayerInv ==
    ASSUME RunInv, AssessSales \/ AssessAccounting \/ CrossCheck \/ \E t \in DOMAIN Level1Rules : AssessLevel1(t)
    PROVE  RunInv'
<1>1. stage \in Judging /\ NothingAsked
    BY DEF RunInv, AssessSales, AssessAccounting, CrossCheck, AssessLevel1, Judging
<1>2. client' = client /\ answers' = answers /\ place' = place
    BY DEF AssessSales, AssessAccounting, CrossCheck, AssessLevel1
<1>3. DOMAIN answers' = {} /\ place' = <<1, 1>> /\ client'.ledger
    BY <1>1, <1>2 DEF NothingAsked
<1>4. stage' \in {"ACCOUNTS", "CROSS", "TESTS"}
    BY DEF AssessSales, AssessAccounting, CrossCheck, AssessLevel1
<1>5. integrity' \in [Domains -> Integrities]
    <2>1. integrity \in [Domains -> Integrities]
        BY DEF RunInv, RunTypeOK
    <2>2. "RELIABLE" \in Integrities /\ "MATERIALLY_CONSTRAINED" \in Integrities /\ "USABLE_WITH_LIMITATION" \in Integrities
        BY DEF Integrities, Weak
    <2>3. CASE AssessSales
        <3>1. SalesIntegrity \in Integrities
            BY <2>2 DEF SalesIntegrity
        <3> QED  BY <2>1, <2>3, <3>1 DEF AssessSales
    <2>4. CASE AssessAccounting
        BY <2>1, <2>2, <2>4 DEF AssessAccounting
    <2>5. CASE CrossCheck
        BY <2>1, <2>2, <2>5 DEF CrossCheck
    <2>6. CASE \E t \in DOMAIN Level1Rules : AssessLevel1(t)
        BY <2>1, <2>6 DEF AssessLevel1
    <2> QED  BY <2>3, <2>4, <2>5, <2>6
<1>6. \A c \in controls' : c[2] \in {"RECONCILED", "FAILED"}
    <2>1. \A c \in controls : c[2] \in {"RECONCILED", "FAILED"}
        BY DEF RunInv, RunTypeOK
    <2>2. CASE AssessSales
        BY <2>1, <2>2 DEF AssessSales
    <2>3. CASE AssessAccounting
        BY <2>1, <2>3 DEF AssessAccounting
    <2>4. CASE CrossCheck
        BY <2>1, <2>4 DEF CrossCheck
    <2>5. CASE \E t \in DOMAIN Level1Rules : AssessLevel1(t)
        BY <2>1, <2>5 DEF AssessLevel1
    <2> QED  BY <2>2, <2>3, <2>4, <2>5
<1>7. eligibility' \in [Tests -> Eligibilities] /\ \A t \in Range(Forecasting.tests) : eligibility'[t] = "NONE"
    <2>1. eligibility \in [Tests -> Eligibilities]
        BY DEF RunInv, RunTypeOK
    <2>2. \A t \in Range(Forecasting.tests) : eligibility[t] = "NONE"
        BY DEF RunInv
    <2>3. /\ "FULL" \in Eligibilities /\ "PARTIAL-A" \in Eligibilities /\ "PARTIAL-B" \in Eligibilities
          /\ "PARTIAL-C" \in Eligibilities /\ "UNAVAILABLE" \in Eligibilities
        BY DEF Eligibilities
    <2>4. CASE AssessSales
        <3>1. \A t : SalesEligibility(t) \in Eligibilities
            BY <2>3 DEF SalesEligibility
        <3>2. \A t \in Range(Forecasting.tests) : t \notin SalesTests /\ t \in Tests
            BY Kinds, ForecastingTests
        <3>3. eligibility' = [t \in Tests |-> IF t \in SalesTests THEN SalesEligibility(t) ELSE eligibility[t]]
            BY <2>4 DEF AssessSales
        <3> QED  BY <2>1, <2>2, <3>1, <3>2, <3>3
    <2>5. CASE AssessAccounting \/ CrossCheck
        BY <2>1, <2>2, <2>5 DEF AssessAccounting, CrossCheck
    <2>6. CASE \E t \in DOMAIN Level1Rules : AssessLevel1(t)
        <3>1. PICK t \in DOMAIN Level1Rules : AssessLevel1(t)
            BY <2>6
        <3>2. t \in Tests /\ t \notin Range(Forecasting.tests)
            BY Level1Assumption
        <3>3. \E e \in Eligibilities : eligibility' = [eligibility EXCEPT ![t] = e]
            BY <2>3, <3>1 DEF AssessLevel1
        <3> QED  BY <2>1, <2>2, <3>2, <3>3
    <2> QED  BY <2>4, <2>5, <2>6
<1>8. RunTypeOK'
    <2>1. client' \in Clients /\ place' \in Nat \X Nat
        BY <1>2 DEF RunInv, RunTypeOK
    <2> QED  BY <1>3, <1>4, <1>5, <1>6, <1>7, <2>1 DEF RunTypeOK
<1>9. (stage' \in Judging => NothingAsked') /\ stage' \notin Closing
    BY <1>3, <1>4 DEF NothingAsked, Closing
<1>10. AskedSoFar'
    BY <1>3, AskedInOrder DEF AskedSoFar, Complete
<1> QED  BY <1>3, <1>7, <1>8, <1>9, <1>10 DEF RunInv

\* A test adds its signals to what the run holds, and none to what it read.
LEMMA HeldGrows ==
    ASSUME RunTest, place \notin DOMAIN answers, NEW T, NEW types
    PROVE  /\ TestAt(place) \notin T => Held(T)' = Held(T)
           /\ (\A s \in Answer(TestAt(place)).signals : s.type \notin types) => Typed(Held(T), types)' = Typed(Held(T), types)
<1> DEFINE t == TestAt(place)
           a == Answer(t)
<1>1. a.test = t
    BY AnswerIs
<1>2. DOMAIN answers' = DOMAIN answers \cup {place} /\ answers'[place] = a /\ \A p \in DOMAIN answers : answers'[p] = answers[p]
    BY DEF RunTest
<1> HIDE DEF a, t
<1>3. ASSUME NEW x
      PROVE  x \in Held(T)' <=> x \in Held(T) \/ (t \in T /\ \E s \in a.signals : x = <<t, s>>)
    <2>1. x \in Held(T) <=> \E p \in DOMAIN answers : answers[p].test \in T /\ \E s \in answers[p].signals : x = <<answers[p].test, s>>
        BY DEF Held
    <2>2. x \in Held(T)' <=> \E p \in DOMAIN answers' : answers'[p].test \in T /\ \E s \in answers'[p].signals : x = <<answers'[p].test, s>>
        BY DEF Held
    <2> QED  BY <1>1, <1>2, <2>1, <2>2
<1>4. t \notin T => Held(T)' = Held(T)
    BY <1>3
<1>5. ASSUME \A s \in a.signals : s.type \notin types
      PROVE  Typed(Held(T), types)' = Typed(Held(T), types)
    <2>1. \A x \in Held(T)' : x[2].type \in types => x \in Held(T)
        BY <1>3, <1>5
    <2>2. Held(T) \subseteq Held(T)'
        BY <1>3
    <2>3. Typed(Held(T), types)' = {x \in Held(T)' : x[2].type \in types}
        BY DEF Typed
    <2>4. Typed(Held(T), types) = {x \in Held(T) : x[2].type \in types}
        BY DEF Typed
    <2> QED  BY <2>1, <2>2, <2>3, <2>4
<1> QED  BY <1>4, <1>5 DEF a, t

\* What an answered synthesis reads is not changed by a later answer.
LEMMA Unread ==
    ASSUME RunInv, RunTest, stage = "TESTS", place \in Places, place \notin DOMAIN answers,
           NEW t \in Synthesising, Asked(t, TestAt(place))
    PROVE  ReadBy(t)' = ReadBy(t)
<1> DEFINE u == TestAt(place)
<1>0. u \in Tests /\ Asked(t, u)
    BY PlacesAre
<1>1. /\ Asked("PRI-05", u) => u \notin {"PRI-02", "PRI-03"}
      /\ Asked("SUP-06", u) => u \notin {"SUP-02", "SUP-04", "SUP-05"}
      /\ Asked("WC-07", u) => u \notin {"WC-02", "WC-03", "WC-04", "WC-06"}
      /\ Asked("RISK-02", u) => u \in {"RISK-02", "RISK-03", "RISK-04"}
      /\ Asked("RISK-03", u) => u \in {"RISK-03", "RISK-04"}
      /\ Asked("RISK-04", u) => u \notin {"RISK-01", "RISK-02", "RISK-03"}
    BY <1>0, ReadEarlier
<1>2. u \in {"RISK-02", "RISK-03", "RISK-04"} => \A s \in Answer(u).signals : s.type \notin Forensic \cup Dependency
    <2>1. Answer(u).signals \subseteq Synthesised(u)
        BY AnswerIs
    <2>2. client \in Clients
        BY DEF RunInv, RunTypeOK
    <2> QED  BY <2>1, <2>2, RiskTypes
<1> HIDE DEF u
<1>3. \A T : u \notin T => Held(T)' = Held(T)
    BY HeldGrows DEF u
<1>4. \A T, types : (\A s \in Answer(u).signals : s.type \notin types) => Typed(Held(T), types)' = Typed(Held(T), types)
    BY HeldGrows DEF u
<1>5. CASE t = "PRI-05"
    <2>1. Held({"PRI-02", "PRI-03"})' = Held({"PRI-02", "PRI-03"})
        BY <1>0, <1>1, <1>3, <1>5
    <2> QED  BY <1>5, <2>1 DEF ReadBy
<1>6. CASE t = "SUP-06"
    <2>1. Held({"SUP-02", "SUP-04", "SUP-05"})' = Held({"SUP-02", "SUP-04", "SUP-05"})
        BY <1>0, <1>1, <1>3, <1>6
    <2> QED  BY <1>6, <2>1 DEF ReadBy
<1>7. CASE t = "WC-07"
    <2>1. Held({"WC-02", "WC-03", "WC-04", "WC-06"})' = Held({"WC-02", "WC-03", "WC-04", "WC-06"})
        BY <1>0, <1>1, <1>3, <1>7
    <2>2. Typed(Held({"WC-02", "WC-03", "WC-04", "WC-06"}), CashCandidate)'
              = Typed(Held({"WC-02", "WC-03", "WC-04", "WC-06"}), CashCandidate)
        BY <2>1 DEF Typed, CashCandidate
    <2> QED  BY <1>7, <2>2 DEF ReadBy
<1>8. CASE t = "RISK-02"
    <2>1. \A s \in Answer(u).signals : s.type \notin Forensic
        BY <1>0, <1>1, <1>2, <1>8
    <2>2. Typed(Held(Tests), Forensic)' = Typed(Held(Tests), Forensic)
        BY <1>4, <2>1
    <2> QED  BY <1>8, <2>2 DEF ReadBy
<1>9. CASE t = "RISK-03"
    <2>1. \A s \in Answer(u).signals : s.type \notin Dependency
        BY <1>0, <1>1, <1>2, <1>9
    <2>2. Typed(Held(Tests), Dependency)' = Typed(Held(Tests), Dependency)
        BY <1>4, <2>1
    <2> QED  BY <1>9, <2>2 DEF ReadBy
<1>10. CASE t = "RISK-04"
    <2>1. Held({"RISK-01", "RISK-02", "RISK-03"})' = Held({"RISK-01", "RISK-02", "RISK-03"})
        BY <1>0, <1>1, <1>3, <1>10
    <2> QED  BY <1>10, <2>1 DEF ReadBy
<1> QED  BY <1>5, <1>6, <1>7, <1>8, <1>9, <1>10 DEF Synthesising

\* One test more is answered, in its place.
LEMMA RunTestInv ==
    ASSUME RunInv, RunTest
    PROVE  RunInv'
<1> DEFINE u == TestAt(place)
           a == Answer(u)
<1>1. stage = "TESTS" /\ place \in Places /\ AskedSoFar /\ client \in Clients
    BY DEF RunTest, RunInv, RunTypeOK
<1>2. u \in Tests /\ place \notin DOMAIN answers
    BY <1>1, PlacesAre, AskedInOrder DEF AskedSoFar
<1>3. DOMAIN answers' = DOMAIN answers \cup {place} /\ answers'[place] = a /\ \A p \in DOMAIN answers : answers'[p] = answers[p]
    BY <1>2 DEF RunTest
<1>4. /\ place' = NextPlace(place) /\ client' = client /\ stage' = "TESTS" /\ integrity' = integrity
      /\ controls' = controls /\ eligibility' = eligibility
    BY <1>1 DEF RunTest
<1>5. a.test = u /\ a.eligibility = EligibilityOf(u) /\ a.signals \subseteq Synthesised(u) /\ (a.status = "NOT_RUN" => a.signals = {})
    BY AnswerIs
<1>6. /\ u \in Refusing /\ a.eligibility = "UNAVAILABLE" => a.signals = {}
      /\ a.eligibility # "UNAVAILABLE" \/ u \notin Refusing => a.signals = Synthesised(u)
    BY AnswerIs
<1>7. a.eligibility \in Eligibilities \ {"NONE"} /\ (eligibility[u] # "NONE" /\ u \notin Range(Risk.tests) => a.eligibility = eligibility[u])
    <2>1. eligibility[u] \in Eligibilities /\ (client.ledger \/ eligibility[u] = "NONE")
        BY <1>1, <1>2 DEF RunInv, RunTypeOK, AskedSoFar
    <2>2. u \in Range(Forecasting.tests) => eligibility[u] = "NONE"
        BY DEF RunInv
    <2> QED  BY <1>2, <1>5, <2>1, <2>2, Eligible
<1>8. \A s \in a.signals : s.mat \in Materialities
    <2>1. \A p \in DOMAIN answers : \A s \in answers[p].signals : s.mat \in Materialities
        BY DEF RunInv, RunTypeOK
    <2> QED  BY <1>1, <1>2, <1>5, <2>1, SignalsAreGraded
<1>9. \A q \in DOMAIN answers : answers[q].test = TestAt(q) /\ q \in Places
    BY <1>1 DEF AskedSoFar, Before
<1>10. RunTypeOK'
    <2>1. /\ client' \in Clients /\ stage' = "TESTS" /\ integrity' \in [Domains -> Integrities]
          /\ \A c \in controls' : c[2] \in {"RECONCILED", "FAILED"}
          /\ eligibility' \in [Tests -> Eligibilities]
        BY <1>4 DEF RunInv, RunTypeOK
    <2>2. place' \in Nat \X Nat /\ DOMAIN answers' \subseteq Nat \X Nat
        BY <1>1, <1>3, <1>4, AskedInOrder DEF RunInv, RunTypeOK
    <2>3. ASSUME NEW p \in DOMAIN answers'
          PROVE  /\ answers'[p].test \in Tests /\ answers'[p].eligibility \in Eligibilities \ {"NONE"}
                 /\ \A s \in answers'[p].signals : s.mat \in Materialities
        <3>1. CASE p = place
            BY <1>2, <1>3, <1>5, <1>7, <1>8, <3>1
        <3>2. CASE p \in DOMAIN answers
            BY <1>3, <3>2 DEF RunInv, RunTypeOK
        <3> QED  BY <1>3, <3>1, <3>2
    <2> QED  BY <2>1, <2>2, <2>3 DEF RunTypeOK
<1>11. \A p \in DOMAIN answers' : answers'[p].test = TestAt(p) /\ p \in Places
    BY <1>1, <1>3, <1>5, <1>9
<1>12. \A p, q \in DOMAIN answers' : answers'[p].test = answers'[q].test => p = q
    BY <1>11, TestsApart
<1>13. ASSUME NEW t \in Synthesising
       PROVE  Complete(t)'
    <2> SUFFICES ASSUME NEW p \in DOMAIN answers', answers'[p].test = t,
                        answers'[p].eligibility # "UNAVAILABLE" \/ t \notin Refusing
                 PROVE  UNION {s.from : s \in answers'[p].signals} = {Name(x[1], x[2]) : x \in ReadBy(t)'}
        BY DEF Complete
    <2>1. p \in Before(place) \cup {place} /\ TestAt(p) = t
        BY <1>1, <1>3, <1>11 DEF AskedSoFar
    <2>2. Asked(t, u)
        BY <1>1, <2>1, BeforeIsAsked
    <2>3. ReadBy(t)' = ReadBy(t)
        BY <1>1, <1>2, <2>2, Unread
    <2>4. CASE p = place
        <3>1. t = u /\ answers'[p].signals = Synthesised(t)
            BY <1>3, <1>6, <2>1, <2>4
        <3> QED  BY <2>3, <3>1, CitesAll
    <2>5. CASE p \in DOMAIN answers
        <3>1. Complete(t) /\ answers'[p] = answers[p]
            BY <1>1, <1>3, <2>5 DEF AskedSoFar
        <3> QED  BY <2>3, <2>5, <3>1 DEF Complete
    <2> QED  BY <1>3, <2>4, <2>5
<1>14. AskedSoFar'
    <2>1. place' \in Places \cup {AllAsked} /\ DOMAIN answers' = Before(place')
        BY <1>1, <1>3, <1>4, AskedInOrder DEF AskedSoFar
    <2>2. client'.ledger \/ \A t \in Tests : eligibility'[t] = "NONE"
        BY <1>1, <1>4 DEF AskedSoFar
    <2> QED  BY <1>11, <1>13, <2>1, <2>2 DEF AskedSoFar
<1>15. ASSUME NEW p \in DOMAIN answers'
       PROVE  Recorded(answers[p])'
    <2>1. CASE p = place
        BY <1>3, <1>4, <1>5, <1>6, <1>7, <2>1 DEF Recorded
    <2>2. CASE p \in DOMAIN answers
        <3>1. Recorded(answers[p]) /\ answers'[p] = answers[p]
            BY <1>3, <2>2 DEF RunInv
        <3> QED  BY <1>4, <3>1 DEF Recorded
    <2> QED  BY <1>3, <2>1, <2>2
<1>16. \A t \in Range(Forecasting.tests) : eligibility'[t] = "NONE"
    BY <1>4 DEF RunInv
<1> QED  BY <1>4, <1>10, <1>12, <1>14, <1>15, <1>16 DEF RunInv, Judging, Closing

\* The tests are over when each has its answer.
LEMMA FinishTestsInv ==
    ASSUME RunInv, FinishTests
    PROVE  RunInv'
<1>1. stage = "TESTS" /\ place = AllAsked /\ AskedSoFar
    BY DEF FinishTests, RunInv
<1>2. /\ place' = place /\ client' = client /\ integrity' = integrity /\ controls' = controls
      /\ eligibility' = eligibility /\ answers' = answers /\ stage' \in {"DONE", "CUSTOMERS"}
    BY DEF FinishTests
<1>3. RunTypeOK'
    <2>1. stage' \in {"SALES", "ACCOUNTS", "CROSS", "TESTS", "DONE"} \cup DOMAIN HandedOver
        BY <1>2 DEF HandedOver
    <2> QED  BY <1>2, <2>1 DEF RunInv, RunTypeOK
<1>4. AllAnsweredBefore'
    <2>1. DOMAIN answers = Places /\ \A p \in DOMAIN answers : answers[p].test = TestAt(p)
        BY <1>1, AskedInOrder DEF AskedSoFar
    <2>2. \A t \in Tests : \E p \in DOMAIN answers : answers[p].test = t
        BY <2>1, PlacesAre
    <2>3. place[1] = 12
        BY <1>1, AskedInOrder
    <2>4. \A p \in Places : p[1] \in 1 .. 11
        BY PlacesAre
    <2>5. \A p \in DOMAIN answers : p[1] < place[1]
        BY <2>1, <2>3, <2>4
    <2> QED  BY <1>2, <2>2, <2>5 DEF AllAnsweredBefore
<1>5. stage' \notin Judging /\ stage' # "TESTS"
    BY <1>2 DEF Judging
<1>6. \A p \in DOMAIN answers' : Recorded(answers[p])'
    BY <1>2 DEF RunInv, Recorded
<1> QED  BY <1>2, <1>3, <1>4, <1>5, <1>6 DEF RunInv

\* A hand-off answers again just what it was given, under places of its own.
LEMMA HandOffInv ==
    ASSUME RunInv, HandOff
    PROVE  RunInv'
<1> DEFINE asked == HandedOver[stage]
           given == Range(asked) \cap DOMAIN client.summaries
           kept == {p \in DOMAIN answers : answers[p].test \notin given}
           again == {<<place[1], i>> : i \in {j \in DOMAIN asked : asked[j] \in given}}
<1>1. stage \in DOMAIN HandedOver
    BY DEF HandOff
<1>2. /\ answers' = [p \in kept \cup again |-> IF p \in kept THEN answers[p] ELSE FromSummary(asked[p[2]])]
      /\ eligibility' = [t \in Tests |-> IF t \in given THEN FromSummary(t).eligibility ELSE eligibility[t]]
      /\ stage' = Following[stage] /\ place' = <<place[1] + 1, 1>>
      /\ client' = client /\ integrity' = integrity /\ controls' = controls
    BY DEF HandOff
<1>3. /\ stage \in {"CUSTOMERS", "SUPPLIERS", "CAPACITY"} /\ stage' \in {"SUPPLIERS", "CAPACITY", "DONE"}
      /\ \A i \in DOMAIN asked : i \in Nat /\ asked[i] \in Tests /\ asked[i] \notin Range(Forecasting.tests)
      /\ \A i, j \in DOMAIN asked : asked[i] = asked[j] => i = j
    <2>1. ASSUME NEW s \in DOMAIN HandedOver
          PROVE  /\ s \in {"CUSTOMERS", "SUPPLIERS", "CAPACITY"} /\ Following[s] \in {"SUPPLIERS", "CAPACITY", "DONE"}
                 /\ \A i \in DOMAIN HandedOver[s] : /\ i \in Nat /\ HandedOver[s][i] \in Tests
                                                    /\ HandedOver[s][i] \notin Range(Forecasting.tests)
                 /\ \A i, j \in DOMAIN HandedOver[s] : HandedOver[s][i] = HandedOver[s][j] => i = j
        BY HandedOverAre
    <2> QED  BY <1>1, <1>2, <2>1
<1>4. client \in Clients /\ place \in Nat \X Nat /\ DOMAIN answers \subseteq Nat \X Nat /\ AllAnsweredBefore
    BY <1>3 DEF RunInv, RunTypeOK, Closing
<1>5. place[1] \in Nat /\ place' \in Nat \X Nat /\ place'[1] = place[1] + 1
    BY <1>2, <1>4
<1>6. \A t \in given : \E i \in DOMAIN asked : asked[i] = t
    BY DEF Range
<1>7. \A t \in given : t \in Tests /\ t \notin Range(Forecasting.tests) /\ t \in DOMAIN client.summaries
    BY <1>3, <1>6
<1>8. \A i \in DOMAIN asked : <<place[1], i>> \notin DOMAIN answers
    BY <1>4, <1>5 DEF AllAnsweredBefore
<1> HIDE DEF asked, given
<1>9. DOMAIN answers' = kept \cup again
    BY <1>2
<1>10. ASSUME NEW p \in kept
       PROVE  answers'[p] = answers[p] /\ p \in DOMAIN answers /\ answers[p].test \notin given
    BY <1>2
<1>11. ASSUME NEW p \in again
       PROVE  \E i \in DOMAIN asked : p = <<place[1], i>> /\ asked[i] \in given /\ answers'[p] = FromSummary(asked[i])
    <2>1. PICK i \in DOMAIN asked : p = <<place[1], i>> /\ asked[i] \in given
        OBVIOUS
    <2>2. p \notin kept /\ p[2] = i
        BY <1>8, <2>1
    <2> QED  BY <1>2, <2>1, <2>2
<1>12. ASSUME NEW i \in DOMAIN asked, asked[i] \in given
       PROVE  <<place[1], i>> \in again
    BY <1>12
<1> HIDE DEF kept, again
<1>13. \A p \in again : answers'[p].test \in given
    BY <1>11, SummaryIs
<1>14. RunTypeOK'
    <2>1. /\ client' \in Clients /\ integrity' \in [Domains -> Integrities]
          /\ \A c \in controls' : c[2] \in {"RECONCILED", "FAILED"}
        BY <1>2 DEF RunInv, RunTypeOK
    <2>2. stage' \in {"SALES", "ACCOUNTS", "CROSS", "TESTS", "DONE"} \cup DOMAIN HandedOver
        BY <1>3 DEF HandedOver
    <2>3. eligibility' \in [Tests -> Eligibilities]
        <3>1. \A t : FromSummary(t).eligibility \in Eligibilities
            BY SummaryIs DEF Eligibilities
        <3>2. eligibility \in [Tests -> Eligibilities]
            BY DEF RunInv, RunTypeOK
        <3> QED  BY <1>2, <3>1, <3>2
    <2>4. DOMAIN answers' \subseteq Nat \X Nat
        <3>1. \A p \in kept : p \in Nat \X Nat
            BY <1>4, <1>10
        <3>2. \A p \in again : p \in Nat \X Nat
            BY <1>3, <1>5, <1>11
        <3> QED  BY <1>9, <3>1, <3>2
    <2>5. ASSUME NEW p \in DOMAIN answers'
          PROVE  /\ answers'[p].test \in Tests /\ answers'[p].eligibility \in Eligibilities \ {"NONE"}
                 /\ \A s \in answers'[p].signals : s.mat \in Materialities
        <3>1. CASE p \in kept
            BY <1>10, <3>1 DEF RunInv, RunTypeOK
        <3>2. CASE p \in again
            <4>1. PICK i \in DOMAIN asked : asked[i] \in given /\ answers'[p] = FromSummary(asked[i])
                BY <1>11, <3>2
            <4>2. asked[i] \in Tests /\ asked[i] \in DOMAIN client.summaries
                BY <1>7, <4>1
            <4>3. \A g \in client.summaries[asked[i]] : g[2] \in Materialities
                BY <1>4, <4>2, ClientAssumption DEF ClientFacts, Yields
            <4>4. \A s \in FromSummary(asked[i]).signals : s.mat \in Materialities
                BY <4>3, SummaryIs DEF Signal
            <4>5. FromSummary(asked[i]).test = asked[i] /\ FromSummary(asked[i]).eligibility \in Eligibilities \ {"NONE"}
                BY SummaryIs DEF Eligibilities
            <4> QED  BY <4>1, <4>2, <4>4, <4>5
        <3> QED  BY <1>9, <3>1, <3>2
    <2> QED  BY <1>5, <2>1, <2>2, <2>3, <2>4, <2>5 DEF RunTypeOK
<1>15. AllAnsweredBefore'
    <2>1. ASSUME NEW t \in Tests
          PROVE  \E p \in DOMAIN answers' : answers'[p].test = t
        <3>1. CASE t \in given
            <4>1. PICK i \in DOMAIN asked : asked[i] = t
                BY <1>6, <3>1
            <4>2. <<place[1], i>> \in again
                BY <1>12, <3>1, <4>1
            <4>3. PICK j \in DOMAIN asked : <<place[1], i>> = <<place[1], j>> /\ answers'[<<place[1], i>>] = FromSummary(asked[j])
                BY <1>11, <4>2
            <4>4. answers'[<<place[1], i>>] = FromSummary(t)
                BY <4>1, <4>3
            <4> QED  BY <1>9, <4>2, <4>4, SummaryIs
        <3>2. CASE t \notin given
            <4>1. PICK p \in DOMAIN answers : answers[p].test = t
                BY <1>4 DEF AllAnsweredBefore
            <4>2. p \in kept
                BY <3>2, <4>1 DEF kept
            <4> QED  BY <1>9, <1>10, <4>1, <4>2
        <3> QED  BY <3>1, <3>2
    <2>2. ASSUME NEW p \in DOMAIN answers'
          PROVE  p[1] < place'[1]
        <3>1. CASE p \in kept
            <4>1. p[1] < place[1] /\ p \in Nat \X Nat
                BY <1>4, <1>10, <3>1 DEF AllAnsweredBefore
            <4> QED  BY <1>5, <4>1
        <3>2. CASE p \in again
            BY <1>5, <1>11, <3>2
        <3> QED  BY <1>9, <3>1, <3>2
    <2> QED  BY <2>1, <2>2 DEF AllAnsweredBefore
<1>16. ASSUME NEW p \in DOMAIN answers', NEW q \in DOMAIN answers', answers'[p].test = answers'[q].test
       PROVE  p = q
    <2>1. CASE p \in kept /\ q \in kept
        BY <1>10, <1>16, <2>1 DEF RunInv
    <2>2. CASE p \in again /\ q \in again
        <3>1. PICK i \in DOMAIN asked : p = <<place[1], i>> /\ answers'[p] = FromSummary(asked[i])
            BY <1>11, <2>2
        <3>2. PICK j \in DOMAIN asked : q = <<place[1], j>> /\ answers'[q] = FromSummary(asked[j])
            BY <1>11, <2>2
        <3>3. asked[i] = asked[j]
            BY <1>16, <3>1, <3>2, SummaryIs
        <3> QED  BY <1>3, <3>1, <3>2, <3>3
    <2> QED  BY <1>9, <1>10, <1>13, <1>16, <2>1, <2>2
<1>17. \A t \in Range(Forecasting.tests) : eligibility'[t] = "NONE"
    <2>1. \A t \in Range(Forecasting.tests) : t \in Tests /\ t \notin given /\ eligibility[t] = "NONE"
        BY <1>7, ForecastingTests DEF RunInv
    <2> QED  BY <1>2, <2>1
<1>18. ASSUME NEW p \in DOMAIN answers'
       PROVE  Recorded(answers[p])'
    <2>0. \A t \in Tests : eligibility'[t] = IF t \in given THEN FromSummary(t).eligibility ELSE eligibility[t]
        BY <1>2
    <2>1. CASE p \in kept
        <3>1. Recorded(answers[p]) /\ answers[p].test \in Tests
            BY <1>10, <2>1 DEF RunInv, RunTypeOK
        <3>2. eligibility'[answers[p].test] = eligibility[answers[p].test] /\ answers'[p] = answers[p]
            BY <1>10, <2>0, <2>1, <3>1
        <3> QED  BY <3>1, <3>2 DEF Recorded
    <2>2. CASE p \in again
        <3>1. PICK i \in DOMAIN asked : asked[i] \in given /\ answers'[p] = FromSummary(asked[i])
            BY <1>11, <2>2
        <3>2. eligibility'[asked[i]] = FromSummary(asked[i]).eligibility
            BY <1>7, <2>0, <3>1
        <3> QED  BY <3>1, <3>2, SummaryIs DEF Recorded
    <2> QED  BY <1>9, <2>1, <2>2
<1>19. stage' \notin Judging /\ stage' # "TESTS"
    BY <1>3 DEF Judging
<1> QED  BY <1>14, <1>15, <1>16, <1>17, <1>18, <1>19 DEF RunInv

\* At every step of a run (trust/engine.py, diagnostic/engine.py,
\* intake/bridge.py) what has been answered is what was asked, with all of it.
THEOREM RunInvariant == RunSpec => []RunInv
<1>1. RunInv /\ [RunNext]_runVars => RunInv'
    <2> SUFFICES ASSUME RunInv, [RunNext]_runVars PROVE RunInv'
        OBVIOUS
    <2>1. CASE AssessSales \/ AssessAccounting \/ CrossCheck \/ \E t \in DOMAIN Level1Rules : AssessLevel1(t)
        BY <2>1, TrustLayerInv
    <2>2. CASE RunTest
        BY <2>2, RunTestInv
    <2>3. CASE FinishTests
        BY <2>3, FinishTestsInv
    <2>4. CASE HandOff
        BY <2>4, HandOffInv
    <2>5. CASE UNCHANGED runVars
        <3>1. /\ client' = client /\ stage' = stage /\ integrity' = integrity /\ controls' = controls
              /\ eligibility' = eligibility /\ answers' = answers /\ place' = place
            BY <2>5 DEF runVars
        <3>2. RunTypeOK'
            BY <3>1 DEF RunInv, RunTypeOK
        <3>3. stage' \in Judging => NothingAsked'
            BY <3>1 DEF RunInv, NothingAsked
        <3>4. stage' = "TESTS" => AskedSoFar'
            <4>1. SUFFICES ASSUME stage' = "TESTS" PROVE AskedSoFar'
                OBVIOUS
            <4>2. AskedSoFar
                BY <3>1, <4>1 DEF RunInv
            <4>3. ASSUME NEW t \in Synthesising
                  PROVE  Complete(t)'
                <5>1. \A T : Held(T)' = Held(T)
                    BY <3>1 DEF Held
                <5>2. \A T, types : Typed(Held(T), types)' = Typed(Held(T), types)
                    BY <5>1 DEF Typed
                <5>3. ReadBy(t)' = ReadBy(t)
                    BY <5>1, <5>2 DEF ReadBy
                <5> QED  BY <3>1, <4>2, <5>3 DEF AskedSoFar, Complete
            <4> QED  BY <3>1, <4>2, <4>3 DEF AskedSoFar
        <3>5. stage' \in Closing => AllAnsweredBefore'
            BY <3>1 DEF RunInv, AllAnsweredBefore
        <3>6. ASSUME NEW p \in DOMAIN answers'
              PROVE  Recorded(answers[p])'
            BY <3>1 DEF RunInv, Recorded
        <3> QED  BY <3>1, <3>2, <3>3, <3>4, <3>5, <3>6 DEF RunInv
    <2> QED  BY <2>1, <2>2, <2>3, <2>4, <2>5 DEF RunNext
<1> QED  BY <1>1, RunInitInv, PTL DEF RunSpec

\* What a run stores is always of its kind.
THEOREM RunTypeCorrect == RunSpec => []RunTypeOK
<1>1. RunInv => RunTypeOK
    BY DEF RunInv
<1> QED  BY <1>1, RunInvariant, PTL

\* When the tests have run every synthesis cites exactly what the run holds,
\* and a finished run has one answer to each test, which records what is
\* stored of its eligibility (diagnostic/engine.py:85, intake/bridge.py:139).
THEOREM RunComplete == RunSpec => []RunIsComplete
<1>1. RunInv => RunIsComplete
    <2> SUFFICES ASSUME RunInv PROVE RunIsComplete
        OBVIOUS
    <2>1. SynthesisIsComplete
        <3> SUFFICES ASSUME AllAnswered,
                            NEW t \in Synthesising, AnswerTo(t).eligibility # "UNAVAILABLE" \/ t \notin Refusing
                     PROVE  Cited(t) = {Name(x[1], x[2]) : x \in ReadBy(t)}
            BY DEF SynthesisIsComplete, Synthesising
        <3>1. AskedSoFar /\ place = AllAsked
            BY DEF AllAnswered, RunInv
        <3>2. DOMAIN answers = Places /\ \A p \in Places : answers[p].test = TestAt(p)
            BY <3>1, AskedInOrder DEF AskedSoFar
        <3>3. t \in Tests
            <4>1. Len(Listed(6)) = 5 /\ Listed(6)[5] = "PRI-05"
                BY NamedPlaces
            <4>2. Len(Listed(8)) = 6 /\ Listed(8)[6] = "SUP-06"
                BY NamedPlaces
            <4>3. Len(Listed(9)) = 7 /\ Listed(9)[7] = "WC-07"
                BY NamedPlaces
            <4>4. Len(Listed(11)) = 4 /\ Listed(11)[2] = "RISK-02" /\ Listed(11)[3] = "RISK-03" /\ Listed(11)[4] = "RISK-04"
                BY NamedPlaces
            <4>5. ASSUME NEW k \in 1 .. 11, NEW i \in 1 .. Len(Listed(k))
                  PROVE  Listed(k)[i] \in Tests
                <5>1. i \in DOMAIN Listed(k)
                    BY OwnTests
                <5>2. <<k, i>> \in Places /\ TestAt(<<k, i>>) = Listed(k)[i]
                    BY <5>1, PlacesAre
                <5> QED  BY <5>2, PlacesAre
            <4>6. "PRI-05" \in Tests
                BY <4>1, <4>5
            <4>7. "SUP-06" \in Tests
                BY <4>2, <4>5
            <4>8. "WC-07" \in Tests
                BY <4>3, <4>5
            <4>9. "RISK-02" \in Tests /\ "RISK-03" \in Tests /\ "RISK-04" \in Tests
                <5>1. \A i \in 1 .. 4 : Listed(11)[i] \in Tests
                    BY <4>4, <4>5
                <5> QED  BY <4>4, <5>1
            <4> QED  BY <4>6, <4>7, <4>8, <4>9 DEF Synthesising
        <3>4. \E a \in Range(answers) : a.test = t
            <4>1. PICK p \in Places : TestAt(p) = t
                BY <3>3, PlacesAre
            <4>2. answers[p] \in Range(answers)
                BY <3>2 DEF Range
            <4> QED  BY <3>2, <4>1, <4>2
        <3>5. AnswerTo(t) \in Range(answers) /\ AnswerTo(t).test = t
            BY <3>4, Zenon DEF AnswerTo
        <3>6. PICK p \in DOMAIN answers : AnswerTo(t) = answers[p]
            BY <3>5 DEF Range
        <3>7. Complete(t)
            BY <3>1 DEF AskedSoFar
        <3> QED  BY <3>5, <3>6, <3>7 DEF Cited, Complete
    <2>2. AnsweredOnce
        <3> SUFFICES ASSUME stage = "DONE" PROVE
                /\ \A t \in Tests : Cardinality({p \in DOMAIN answers : answers[p].test = t}) = 1
                /\ \A a \in Range(answers) : Recorded(a)
            BY DEF AnsweredOnce, Recorded
        <3>1. AllAnsweredBefore
            BY DEF RunInv, Closing
        <3>2. ASSUME NEW t \in Tests
              PROVE  Cardinality({p \in DOMAIN answers : answers[p].test = t}) = 1
            <4>1. PICK p \in DOMAIN answers : answers[p].test = t
                BY <3>1 DEF AllAnsweredBefore
            <4>2. {q \in DOMAIN answers : answers[q].test = t} = {p}
                BY <4>1 DEF RunInv
            <4> QED  BY <4>2, FS_Singleton
        <3>3. \A a \in Range(answers) : Recorded(a)
            BY DEF Range, RunInv
        <3> QED  BY <3>2, <3>3
    <2> QED  BY <2>1, <2>2 DEF RunIsComplete
<1> QED  BY <1>1, RunInvariant, PTL

-----------------------------------------------------------------------------
\* Whatever a run, the agenda, the portfolio, the benefits and the registers
\* do, their tables keep their shape (diagnostic/engine.py, priority/engine.py,
\* economic/portfolio.py, management/engine.py, management/longitudinal.py).
THEOREM EstateTypeCorrect ==
    RunSpec /\ AgendaSpec /\ PortfolioSpec /\ BenefitSpec /\ LongitudinalSpec /\ RestatementSpec => []EstateTypeOK
<1>1. RunTypeOK /\ AgendaTypeOK /\ PortfolioTypeOK /\ BenefitTypeOK
          /\ (LongitudinalTypeOK /\ LongitudinalReadsBack) /\ (RestatementTypeOK /\ RestatementsReadBack)
      => EstateTypeOK
    BY DEF EstateTypeOK
<1> QED
    BY <1>1, RunTypeCorrect, AgendaTypeCorrect, PortfolioTypeCorrect, BenefitTypeCorrect, LongitudinalTraced,
       RestatementsTraced, PTL
=================================================================================
