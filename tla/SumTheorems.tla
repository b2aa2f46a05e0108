---------------------------- MODULE SumTheorems ----------------------------
(***************************************************************************)
(* Induction, as a fact about sets, and what it gives about the sums of    *)
(* functions over finite sets (SumFunctionOnSet).  DownloadEngine adds up  *)
(* counts of chunks, ConnectionController the connections of its jobs.     *)
(***************************************************************************)
EXTENDS Integers, FiniteSets, Functions, FiniteSetTheorems, TLAPS

----------------------------------------------------------------------------
(* Induction.                                                              *)

\* A set that has 0 and the successor of each of its numbers has every number.
\* Otherwise adding one would map those up to a missing n into themselves
\* without 0, and a finite set has fewer elements without one of them.
LEMMA SetInduction ==
    ASSUME NEW P, 0 \in P, \A n \in Nat : n \in P => n + 1 \in P
    PROVE  \A n \in Nat : n \in P
  <1> SUFFICES ASSUME NEW n \in Nat, n \notin P PROVE FALSE
    OBVIOUS
  <1> DEFINE Q == {k \in 0..n : k \in P}
             next == [k \in Q |-> k + 1]
  <1>1. IsFiniteSet(Q)
    BY FS_Interval, FS_Subset, 0 \in Int, n \in Int
  <1>2. 0 \in Q
    OBVIOUS
  <1>3. \A k \in Q : k + 1 \in Q \ {0}
    OBVIOUS
  <1>4. next \in Injection(Q, Q \ {0})
    BY <1>3 DEF Injection, IsInjective
  <1>5. IsFiniteSet(Q \ {0}) /\ Cardinality(Q \ {0}) = Cardinality(Q) - 1
    BY <1>1, <1>2, FS_RemoveElement
  <1> HIDE DEF Q, next
  <1>6. Cardinality(Q) <= Cardinality(Q \ {0})
    BY <1>1, <1>4, <1>5, FS_Injection DEF ExistsInjection
  <1>7. Cardinality(Q) \in Nat
    BY <1>1, FS_CardinalityType
  <1> QED
    BY <1>5, <1>6, <1>7

\* A collection of subsets of S that has the empty set, and each set of which
\* may take one more element of S, has S.
LEMMA FiniteInduction ==
    ASSUME NEW S, IsFiniteSet(S), NEW P, {} \in P,
           \A T \in SUBSET S : \A x \in S \ T : T \in P => T \union {x} \in P
    PROVE  S \in P
  <1> DEFINE Sized == {n \in Nat : \A T \in SUBSET S : Cardinality(T) = n => T \in P}
  <1>1. \A T \in SUBSET S : IsFiniteSet(T) /\ Cardinality(T) \in Nat
    BY FS_Subset, FS_CardinalityType
  <1>2. 0 \in Sized
    BY <1>1, FS_EmptySet
  <1>3. ASSUME NEW n \in Nat, n \in Sized PROVE n + 1 \in Sized
    <2> SUFFICES ASSUME NEW T \in SUBSET S, Cardinality(T) = n + 1 PROVE T \in P
      OBVIOUS
    <2>1. PICK x \in T : TRUE
      <3>1. IsFiniteSet(T) /\ Cardinality(T) # 0
        BY <1>1
      <3> QED
        BY <3>1, FS_EmptySet
    <2>2. Cardinality(T \ {x}) = n
      <3>1. IsFiniteSet(T)
        BY <1>1
      <3>2. Cardinality(T \ {x}) = Cardinality(T) - 1
        BY <3>1, <2>1, FS_RemoveElement
      <3> QED
        BY <3>2
    <2>3. T \ {x} \in P /\ T = (T \ {x}) \union {x}
      BY <1>3, <2>1, <2>2
    <2> QED
      BY <2>1, <2>3
  <1> HIDE DEF Sized
  <1>4. \A n \in Nat : n \in Sized
    BY <1>2, <1>3, SetInduction
  <1> QED
    BY <1>1, <1>4 DEF Sized

----------------------------------------------------------------------------
(* The sum of a function over a finite set.                                *)

\* SumFunctionOnSet adds the elements one by one, in an order of its own.
Pick(T) == CHOOSE x \in T : TRUE
SumStep(f, sum, T) == IF T = {} THEN 0 ELSE f[Pick(T)] + sum[T \ {Pick(T)}]
IsSum(f, sum, D) == sum = [T \in D |-> SumStep(f, sum, T)]

\* There is such a function for all subsets of a finite set.
LEMMA SumExists ==
    ASSUME NEW S, IsFiniteSet(S), NEW f
    PROVE  \E sum : IsSum(f, sum, SUBSET S)
  <1> DEFINE Small(n) == {T \in SUBSET S : Cardinality(T) <= n}
             Summed == {n \in Nat : \E sum : IsSum(f, sum, Small(n))}
  <1>1. \A T \in SUBSET S : IsFiniteSet(T) /\ Cardinality(T) \in Nat
    BY FS_Subset, FS_CardinalityType
  <1>2. 0 \in Summed
    <2> DEFINE sum == [T \in Small(0) |-> 0]
    <2>1. \A T \in Small(0) : T = {}
      BY <1>1, FS_EmptySet
    <2>2. IsSum(f, sum, Small(0))
      BY <2>1 DEF IsSum, SumStep
    <2> QED
      BY <2>2
  <1>3. ASSUME NEW n \in Nat, n \in Summed PROVE n + 1 \in Summed
    <2>1. PICK sum : IsSum(f, sum, Small(n))
      BY <1>3
    <2> DEFINE next == [T \in Small(n + 1) |-> SumStep(f, sum, T)]
    <2>2. Small(n) \subseteq Small(n + 1)
      BY <1>1
    <2>3. ASSUME NEW T \in Small(n + 1), T # {} PROVE T \ {Pick(T)} \in Small(n)
      <3>1. Pick(T) \in T
        BY <2>3 DEF Pick
      <3>2. IsFiniteSet(T) /\ Cardinality(T) \in Nat /\ Cardinality(T) <= n + 1
        BY <1>1
      <3>3. Cardinality(T \ {Pick(T)}) = Cardinality(T) - 1
        BY <3>1, <3>2, FS_RemoveElement
      <3> QED
        BY <3>2, <3>3
    <2>4. \A T \in Small(n) : next[T] = sum[T]
      BY <2>1, <2>2 DEF IsSum
    <2>5. \A T \in Small(n + 1) : SumStep(f, sum, T) = SumStep(f, next, T)
      BY <2>3, <2>4 DEF SumStep
    <2>6. IsSum(f, next, Small(n + 1))
      BY <2>5 DEF IsSum
    <2>7. \E g : IsSum(f, g, Small(n + 1))
      <3> HIDE DEF next, Small
      <3> QED
        BY <2>6
    <2> QED
      BY <2>7, n + 1 \in Nat, Zenon
  <1>4. \A n \in Nat : n \in Summed
    <2> HIDE DEF Summed
    <2> QED
      BY <1>2, <1>3, SetInduction
  <1>5. Small(Cardinality(S)) = SUBSET S
    <2>1. \A T \in SUBSET S : Cardinality(T) <= Cardinality(S)
      BY FS_Subset
    <2> QED
      BY <2>1
  <1> QED
    BY <1>1, <1>4, <1>5

\* SumFunctionOnSet is that function at the set.
LEMMA SumIs ==
    ASSUME NEW S, IsFiniteSet(S), NEW f
    PROVE  \E sum : IsSum(f, sum, SUBSET S) /\ SumFunctionOnSet(f, S) = sum[S]
  <1> DEFINE sum == CHOOSE g : g = [T \in SUBSET S |-> SumStep(f, g, T)]
  <1>1. SumFunctionOnSet(f, S) = sum[S]
    BY Zenon DEF SumFunctionOnSet, FoldFunctionOnSet, MapThenFoldSet, SumStep, Pick
  <1>2. PICK g : IsSum(f, g, SUBSET S)
    BY SumExists
  <1>3. g = [T \in SUBSET S |-> SumStep(f, g, T)]
    BY <1>2 DEF IsSum
  <1>4. sum = [T \in SUBSET S |-> SumStep(f, sum, T)]
    BY <1>3, Zenon
  <1> HIDE DEF sum
  <1> QED
    BY <1>1, <1>4 DEF IsSum

\* Two such functions agree where both are defined.
LEMMA SumUnique ==
    ASSUME NEW S, IsFiniteSet(S), NEW T, T \subseteq S, NEW f, NEW a, NEW b,
           IsSum(f, a, SUBSET S), IsSum(f, b, SUBSET T)
    PROVE  a[T] = b[T]
  <1> DEFINE Same == {n \in Nat : \A U \in SUBSET T : Cardinality(U) = n => a[U] = b[U]}
  <1>1. \A U \in SUBSET T : IsFiniteSet(U) /\ Cardinality(U) \in Nat
    BY FS_Subset, FS_CardinalityType
  <1>2. \A U \in SUBSET T : a[U] = SumStep(f, a, U) /\ b[U] = SumStep(f, b, U)
    BY DEF IsSum
  <1>3. 0 \in Same
    BY <1>1, <1>2, FS_EmptySet DEF SumStep
  <1>4. ASSUME NEW n \in Nat, n \in Same PROVE n + 1 \in Same
    <2> SUFFICES ASSUME NEW U \in SUBSET T, Cardinality(U) = n + 1 PROVE a[U] = b[U]
      OBVIOUS
    <2>3. IsFiniteSet(U)
      BY <1>1
    <2>1. U # {}
      <3>1. Cardinality(U) # 0
        OBVIOUS
      <3> QED
        BY <3>1, FS_EmptySet
    <2>2. Pick(U) \in U
      BY <2>1 DEF Pick
    <2>4. Cardinality(U \ {Pick(U)}) = Cardinality(U) - 1
      BY <2>2, <2>3, FS_RemoveElement
    <2>5. Cardinality(U \ {Pick(U)}) = n
      BY <2>4
    <2>6. a[U \ {Pick(U)}] = b[U \ {Pick(U)}]
      BY <1>4, <2>5
    <2> QED
      BY <1>2, <2>1, <2>6 DEF SumStep
  <1> HIDE DEF Same
  <1>5. \A n \in Nat : n \in Same
    BY <1>3, <1>4, SetInduction
  <1> QED
    BY <1>1, <1>5 DEF Same

\* The sum over a set is the value of any such function.
LEMMA SumAt ==
    ASSUME NEW S, IsFiniteSet(S), NEW f
    PROVE  \E sum : /\ IsSum(f, sum, SUBSET S)
                    /\ \A T \in SUBSET S : SumFunctionOnSet(f, T) = sum[T]
  <1>1. PICK sum : IsSum(f, sum, SUBSET S)
    BY SumExists
  <1>2. ASSUME NEW T, T \subseteq S PROVE SumFunctionOnSet(f, T) = sum[T]
    <2>1. IsFiniteSet(T)
      BY <1>2, FS_Subset
    <2>2. PICK other : IsSum(f, other, SUBSET T) /\ SumFunctionOnSet(f, T) = other[T]
      BY <2>1, SumIs
    <2>3. IsSum(f, sum, SUBSET S) /\ IsSum(f, other, SUBSET T) /\ T \subseteq S
          /\ IsFiniteSet(S)
      BY <1>1, <1>2, <2>2
    <2>4. sum[T] = other[T]
      BY ONLY <2>3, SumUnique
    <2> QED
      BY <2>2, <2>4
  <1> QED
    BY <1>1, <1>2

\* One element at a time, in the order of Pick.
LEMMA SumByPick ==
    ASSUME NEW S, IsFiniteSet(S), NEW f
    PROVE  SumFunctionOnSet(f, S) =
               IF S = {} THEN 0
               ELSE f[Pick(S)] + SumFunctionOnSet(f, S \ {Pick(S)})
  <1>1. PICK sum : /\ IsSum(f, sum, SUBSET S)
                   /\ \A T \in SUBSET S : SumFunctionOnSet(f, T) = sum[T]
    BY SumAt
  <1>2. sum[S] = SumStep(f, sum, S)
    BY <1>1 DEF IsSum
  <1>3. SumFunctionOnSet(f, S) = sum[S]
    BY <1>1
  <1>4. SumFunctionOnSet(f, S \ {Pick(S)}) = sum[S \ {Pick(S)}]
    BY <1>1
  <1> QED
    BY <1>2, <1>3, <1>4 DEF SumStep

\* The sum of natural numbers is one.
LEMMA SumType ==
    ASSUME NEW S, IsFiniteSet(S), NEW f, \A x \in S : f[x] \in Nat
    PROVE  SumFunctionOnSet(f, S) \in Nat
  <1> DEFINE Typed == {n \in Nat : \A T \in SUBSET S :
                          Cardinality(T) = n => SumFunctionOnSet(f, T) \in Nat}
  <1>1. \A T \in SUBSET S : IsFiniteSet(T) /\ Cardinality(T) \in Nat
    BY FS_Subset, FS_CardinalityType
  <1>2. 0 \in Typed
    <2> SUFFICES ASSUME NEW T \in SUBSET S, Cardinality(T) = 0
                 PROVE  SumFunctionOnSet(f, T) \in Nat
      OBVIOUS
    <2>1. T = {} /\ IsFiniteSet(T)
      BY <1>1, FS_EmptySet
    <2>2. SumFunctionOnSet(f, T) = 0
      BY <2>1, SumByPick
    <2> QED
      BY <2>2
  <1>3. ASSUME NEW n \in Nat, n \in Typed PROVE n + 1 \in Typed
    <2> SUFFICES ASSUME NEW T \in SUBSET S, Cardinality(T) = n + 1
                 PROVE  SumFunctionOnSet(f, T) \in Nat
      OBVIOUS
    <2>1. IsFiniteSet(T) /\ Cardinality(T) # 0
      BY <1>1
    <2>2. T # {} /\ Pick(T) \in T
      BY <2>1, FS_EmptySet DEF Pick
    <2>3. Cardinality(T \ {Pick(T)}) = Cardinality(T) - 1
      BY <2>1, <2>2, FS_RemoveElement
    <2>4. SumFunctionOnSet(f, T \ {Pick(T)}) \in Nat
      BY <1>3, <2>3
    <2>5. SumFunctionOnSet(f, T) = f[Pick(T)] + SumFunctionOnSet(f, T \ {Pick(T)})
      BY <2>1, <2>2, SumByPick
    <2> QED
      BY <2>2, <2>4, <2>5
  <1>4. \A n \in Nat : n \in Typed
    <2> HIDE DEF Typed
    <2> QED
      BY <1>2, <1>3, SetInduction
  <1> QED
    BY <1>1, <1>4

\* Any element may be the first: addition is commutative.
LEMMA SumRemove ==
    ASSUME NEW S, IsFiniteSet(S), NEW f, \A y \in S : f[y] \in Nat, NEW x \in S
    PROVE  SumFunctionOnSet(f, S) = f[x] + SumFunctionOnSet(f, S \ {x})
  <1> DEFINE Sum(T) == SumFunctionOnSet(f, T)
             Any == {n \in Nat : \A T \in SUBSET S : \A y \in T :
                        Cardinality(T) = n => Sum(T) = f[y] + Sum(T \ {y})}
  <1>1. \A T \in SUBSET S : IsFiniteSet(T) /\ Cardinality(T) \in Nat /\ Sum(T) \in Nat
    BY FS_Subset, FS_CardinalityType, SumType
  <1>2. 0 \in Any
    <2> SUFFICES ASSUME NEW T \in SUBSET S, NEW y \in T, Cardinality(T) = 0 PROVE FALSE
      OBVIOUS
    <2> QED
      BY <1>1, FS_EmptySet
  <1>3. ASSUME NEW n \in Nat, n \in Any PROVE n + 1 \in Any
    <2> SUFFICES ASSUME NEW T \in SUBSET S, NEW y \in T, Cardinality(T) = n + 1
                 PROVE  Sum(T) = f[y] + Sum(T \ {y})
      OBVIOUS
    <2> DEFINE z == Pick(T)
    <2>1. IsFiniteSet(T) /\ z \in T
      BY <1>1 DEF Pick
    <2>2. Sum(T) = f[z] + Sum(T \ {z})
      BY <2>1, SumByPick
    <2> HIDE DEF z, Sum
    <2>3. CASE y = z
      BY <2>2, <2>3
    <2>4. CASE y # z
      <3>1. Cardinality(T \ {z}) = n /\ Cardinality(T \ {y}) = n
        <4>1. /\ Cardinality(T \ {z}) = Cardinality(T) - 1
              /\ Cardinality(T \ {y}) = Cardinality(T) - 1
          BY <2>1, FS_RemoveElement
        <4> QED
          BY <4>1
      <3>2. Sum(T \ {z}) = f[y] + Sum((T \ {z}) \ {y})
        <4>1. T \ {z} \in SUBSET S /\ y \in T \ {z}
          BY <2>4
        <4> QED
          BY <1>3, <3>1, <4>1
      <3>3. Sum(T \ {y}) = f[z] + Sum((T \ {y}) \ {z})
        <4>1. T \ {y} \in SUBSET S /\ z \in T \ {y}
          BY <2>1, <2>4
        <4> QED
          BY <1>3, <3>1, <4>1
      <3>4. (T \ {y}) \ {z} = (T \ {z}) \ {y} /\ (T \ {z}) \ {y} \in SUBSET S
        OBVIOUS
      <3>5. Sum((T \ {z}) \ {y}) \in Nat /\ f[y] \in Nat /\ f[z] \in Nat
        BY <1>1, <2>1, <3>4
      <3> QED
        BY <2>2, <3>2, <3>3, <3>4, <3>5
    <2> QED
      BY <2>3, <2>4
  <1> HIDE DEF Any
  <1>4. \A n \in Nat : n \in Any
    BY <1>2, <1>3, SetInduction
  <1>5. S \in SUBSET S /\ Cardinality(S) \in Nat
    BY <1>1
  <1> QED
    BY <1>4, <1>5 DEF Any

\* What is nowhere greater has no greater sum.
LEMMA SumMonotone ==
    ASSUME NEW S, IsFiniteSet(S), NEW f, NEW g,
           \A x \in S : f[x] \in Nat /\ g[x] \in Nat /\ f[x] <= g[x]
    PROVE  SumFunctionOnSet(f, S) <= SumFunctionOnSet(g, S)
  <1> DEFINE Bounded == {T \in SUBSET S : SumFunctionOnSet(f, T) <= SumFunctionOnSet(g, T)}
  <1>1. \A T \in SUBSET S : /\ IsFiniteSet(T) /\ SumFunctionOnSet(f, T) \in Nat
                            /\ SumFunctionOnSet(g, T) \in Nat
    BY FS_Subset, SumType
  <1>2. {} \in Bounded
    <2>1. SumFunctionOnSet(f, {}) = 0 /\ SumFunctionOnSet(g, {}) = 0
      BY FS_EmptySet, SumByPick
    <2> QED
      BY <2>1
  <1>3. ASSUME NEW T \in SUBSET S, NEW x \in S \ T, T \in Bounded
        PROVE  T \union {x} \in Bounded
    <2> DEFINE U == T \union {x}
    <2>1. IsFiniteSet(U) /\ x \in U /\ U \ {x} = T /\ U \in SUBSET S
      BY <1>1
    <2> HIDE DEF U
    <2>2. SumFunctionOnSet(f, U) = f[x] + SumFunctionOnSet(f, T)
      BY <2>1, SumRemove
    <2>3. SumFunctionOnSet(g, U) = g[x] + SumFunctionOnSet(g, T)
      BY <2>1, SumRemove
    <2>4. SumFunctionOnSet(f, U) <= SumFunctionOnSet(g, U)
      BY <1>1, <1>3, <2>2, <2>3
    <2> QED
      BY <2>1, <2>4 DEF U
  <1> HIDE DEF Bounded
  <1>4. S \in Bounded
    BY <1>2, <1>3, FiniteInduction
  <1> QED
    BY <1>4 DEF Bounded

\* Only the values at the set matter.
LEMMA SumSame ==
    ASSUME NEW S, IsFiniteSet(S), NEW f, NEW g,
           \A x \in S : f[x] \in Nat /\ f[x] = g[x]
    PROVE  SumFunctionOnSet(f, S) = SumFunctionOnSet(g, S)
  <1>1. SumFunctionOnSet(f, S) \in Nat /\ SumFunctionOnSet(g, S) \in Nat
    BY SumType
  <1>2. SumFunctionOnSet(f, S) <= SumFunctionOnSet(g, S)
    BY SumMonotone
  <1>3. SumFunctionOnSet(g, S) <= SumFunctionOnSet(f, S)
    BY SumMonotone
  <1> QED
    BY <1>1, <1>2, <1>3

\* One value changes, and the sum by as much.
LEMMA SumChange ==
    ASSUME NEW S, IsFiniteSet(S), NEW x \in S, NEW f, NEW g,
           \A y \in S : f[y] \in Nat /\ g[y] \in Nat,
           \A y \in S \ {x} : g[y] = f[y]
    PROVE  SumFunctionOnSet(g, S) = SumFunctionOnSet(f, S) - f[x] + g[x]
  <1>1. SumFunctionOnSet(f, S) = f[x] + SumFunctionOnSet(f, S \ {x})
    BY SumRemove
  <1>2. SumFunctionOnSet(g, S) = g[x] + SumFunctionOnSet(g, S \ {x})
    BY SumRemove
  <1>3. IsFiniteSet(S \ {x})
    BY FS_RemoveElement
  <1>4. /\ SumFunctionOnSet(f, S \ {x}) = SumFunctionOnSet(g, S \ {x})
        /\ SumFunctionOnSet(f, S \ {x}) \in Nat
    BY <1>3, SumSame, SumType
  <1> QED
    BY <1>1, <1>2, <1>4

=============================================================================
