--------------------- MODULE ConnectionControllerProofs ---------------------
(***************************************************************************)
(* Theorems about ConnectionController, for any jobs, bounds and capacity. *)
(***************************************************************************)
EXTENDS ConnectionController, SumTheorems

----------------------------------------------------------------------------
(* The visits of the trim.  Visit k + 1 goes to the job at k % n + 1 of the *)
(* order, and k \div n rounds are over before it.                           *)

LEMMA NextVisit ==
    ASSUME NEW k \in Nat, NEW n \in Nat \ {0}
    PROVE  /\ k % n \in 0..(n - 1) /\ k \div n \in Nat
           /\ (k + 1) % n = IF k % n = n - 1 THEN 0 ELSE (k % n) + 1
           /\ (k + 1) \div n = IF k % n = n - 1 THEN (k \div n) + 1 ELSE k \div n
OBVIOUS

LEMMA LastVisit ==
    ASSUME NEW rounds \in Nat, NEW n \in Nat \ {0}
    PROVE  /\ rounds * n \in Nat
           /\ (rounds * n) \div n = rounds /\ (rounds * n) % n = 0
OBVIOUS

\* after[k] is what the jobs have after k visits of n jobs.
Visit(after, d, order, n, k) ==
    IF k = 0 THEN d ELSE TrimOne(after[k - 1], order[((k - 1) % n) + 1])
Visited(after, d, order, n) ==
    after = [k \in 0..(Capacity * n) |-> Visit(after, d, order, n, k)]

\* The visits as a function, whose existence is what a recursive definition
\* leaves to be shown.
LEMMA VisitsExist ==
    ASSUME NEW d, NEW order, NEW n \in Nat
    PROVE  \E after : Visited(after, d, order, n)
  <1> DEFINE Step(after, k) == Visit(after, d, order, n, k)
             Built == {m \in Nat : \E after : after = [k \in 0..m |-> Step(after, k)]}
  <1>1. 0 \in Built
    <2> DEFINE after == [k \in 0..0 |-> d]
    <2>1. after = [k \in 0..0 |-> Step(after, k)]
      BY DEF Visit
    <2> HIDE DEF after, Step
    <2> QED
      BY <2>1
  <1>2. ASSUME NEW m \in Nat, m \in Built PROVE m + 1 \in Built
    <2>1. PICK before : before = [k \in 0..m |-> Step(before, k)]
      BY <1>2
    <2> DEFINE after == [k \in 0..(m + 1) |-> Step(before, k)]
    <2>2. \A k \in 0..m : after[k] = before[k]
      <3>1. \A k \in 0..m : before[k] = Step(before, k)
        BY <2>1, Zenon
      <3> HIDE DEF Step
      <3> QED
        BY <3>1
    <2>3. ASSUME NEW k \in 0..(m + 1) PROVE Step(before, k) = Step(after, k)
      <3>1. CASE k = 0
        BY <3>1 DEF Visit
      <3>2. CASE k # 0
        <4>1. k - 1 \in 0..m
          BY <3>2
        <4>2. after[k - 1] = before[k - 1]
          BY <2>2, <4>1
        <4> HIDE DEF after
        <4> QED
          BY <3>2, <4>2 DEF Visit
      <3> QED
        BY <3>1, <3>2
    <2>4. after = [k \in 0..(m + 1) |-> Step(after, k)]
      <3>1. \A k \in 0..(m + 1) : Step(before, k) = Step(after, k)
        BY <2>3
      <3> HIDE DEF Step
      <3> QED
        BY <3>1
    <2>5. \E g : g = [k \in 0..(m + 1) |-> Step(g, k)]
      <3> HIDE DEF after, Step
      <3> QED
        BY <2>4
    <2> QED
      BY <2>5, m + 1 \in Nat, Zenon
  <1>3. \A m \in Nat : m \in Built
    <2> HIDE DEF Built
    <2> QED
      BY <1>1, <1>2, SetInduction
  <1>4. Capacity * n \in Built
    <2>1. Capacity * n \in Nat
      BY CapacityAssumption
    <2> HIDE DEF Built
    <2> QED
      BY <1>3, <2>1
  <1> QED
    BY <1>4, Zenon DEF Visited

\* Trim is the last of them.
LEMMA TrimVisits ==
    ASSUME NEW d, NEW order, Len(order) \in Nat
    PROVE  \E after : /\ Visited(after, d, order, Len(order))
                      /\ Trim(d, order) = after[Capacity * Len(order)]
  <1> DEFINE n == Len(order)
             after == CHOOSE g : g = [k \in 0..(Capacity * n) |-> Visit(g, d, order, n, k)]
  <1>1. Trim(d, order) = after[Capacity * n]
    BY Zenon DEF Trim, Visit
  <1>2. PICK g : Visited(g, d, order, n)
    BY VisitsExist
  <1>3. g = [k \in 0..(Capacity * n) |-> Visit(g, d, order, n, k)]
    BY <1>2 DEF Visited
  <1>4. after = [k \in 0..(Capacity * n) |-> Visit(after, d, order, n, k)]
    BY <1>3, Zenon
  <1> HIDE DEF after
  <1> QED
    BY <1>1, <1>4 DEF Visited

\* An order has every job once.
LEMMA OrderHasAll ==
    ASSUME NEW J, IsFiniteSet(J), NEW order \in SetToSeqs(J)
    PROVE  /\ Len(order) \in Nat /\ order \in [1..Len(order) -> J]
           /\ \A p, q \in 1..Len(order) : p # q => order[p] # order[q]
           /\ \A j \in J : \E p \in 1..Len(order) : order[p] = j
  <1> DEFINE n == Cardinality(J)
  <1>1. n \in Nat
    BY FS_CardinalityType
  <1>2. order \in [1..n -> J] /\ \A p, q \in 1..n : p # q => order[p] # order[q]
    BY DEF SetToSeqs
  <1>3. Len(order) = n
    BY <1>1, <1>2
  <1>4. \A j \in J : \E p \in 1..n : order[p] = j
    <2>1. order \in Injection(1..n, J)
      BY <1>2 DEF Injection, IsInjective
    <2>2. IsFiniteSet(1..n) /\ Cardinality(1..n) = n
      BY <1>1, FS_Interval
    <2>3. order \in Surjection(1..n, J)
      BY <2>1, <2>2, FS_Injection
    <2> QED
      BY <2>3 DEF Surjection
  <1> QED
    BY <1>1, <1>2, <1>3, <1>4

\* A fact about the wishes that holds before the trim and survives every visit
\* holds after it.
LEMMA VisitByVisit ==
    ASSUME NEW J, IsFiniteSet(J), NEW order \in SetToSeqs(J), NEW d, NEW Holds,
           <<0, d>> \in Holds,
           \A k \in Nat : \A e : <<k, e>> \in Holds /\ Len(order) # 0 =>
               <<k + 1, TrimOne(e, order[(k % Len(order)) + 1])>> \in Holds
    PROVE  <<Capacity * Len(order), Trim(d, order)>> \in Holds
  <1> DEFINE n == Len(order)
  <1>1. n \in Nat /\ Capacity * n \in Nat
    BY OrderHasAll, CapacityAssumption
  <1>2. PICK after : Visited(after, d, order, n) /\ Trim(d, order) = after[Capacity * n]
    BY <1>1, TrimVisits
  <1> DEFINE Kept == {k \in Nat : k <= Capacity * n => <<k, after[k]>> \in Holds}
  <1>3. 0 \in Kept
    BY <1>1, <1>2 DEF Visited, Visit
  <1>4. ASSUME NEW k \in Nat, k \in Kept PROVE k + 1 \in Kept
    <2> SUFFICES ASSUME k + 1 <= Capacity * n PROVE <<k + 1, after[k + 1]>> \in Holds
      OBVIOUS
    <2>1. n # 0
      BY CapacityAssumption
    <2>2. <<k, after[k]>> \in Holds
      BY <1>1, <1>4
    <2>3. after[k + 1] = TrimOne(after[k], order[(k % n) + 1])
      BY <1>1, <1>2 DEF Visited, Visit
    <2> QED
      BY <2>1, <2>2, <2>3
  <1>5. \A k \in Nat : k \in Kept
    <2> HIDE DEF Kept
    <2> QED
      BY <1>3, <1>4, SetInduction
  <1> QED
    BY <1>1, <1>2, <1>5

----------------------------------------------------------------------------
(* What the trim gives.                                                    *)

Connections(J) == [J -> Nat \ {0}]

\* One visit takes at most one connection, from a job that has more than one.
LEMMA TrimOneTakes ==
    ASSUME NEW J, NEW e \in Connections(J), NEW v \in J
    PROVE  /\ TrimOne(e, v) \in Connections(J)
           /\ \A j \in J \ {v} : TrimOne(e, v)[j] = e[j]
           /\ \/ TrimOne(e, v)[v] = e[v] - 1 /\ e[v] # 1 /\ SumFunction(e) > Capacity
              \/ TrimOne(e, v) = e /\ (e[v] = 1 \/ ~(SumFunction(e) > Capacity))
  BY DEF TrimOne, Connections, MinConnections

\* The trim leaves everybody a connection and gives nobody one.
LEMMA TrimTakes ==
    ASSUME NEW J, IsFiniteSet(J), NEW order \in SetToSeqs(J), NEW d \in Connections(J)
    PROVE  /\ Trim(d, order) \in Connections(J)
           /\ \A j \in J : Trim(d, order)[j] <= d[j]
  <1> DEFINE n == Len(order)
             Holds == {x \in Nat \X Connections(J) : \A j \in J : x[2][j] <= d[j]}
  <1>1. n \in Nat /\ order \in [1..n -> J]
    BY OrderHasAll
  <1>2. <<0, d>> \in Holds
    BY DEF Connections
  <1>3. ASSUME NEW k \in Nat, NEW e, <<k, e>> \in Holds, n # 0
        PROVE  <<k + 1, TrimOne(e, order[(k % n) + 1])>> \in Holds
    <2> DEFINE v == order[(k % n) + 1]
    <2>1. e \in Connections(J) /\ \A j \in J : e[j] <= d[j]
      BY <1>3
    <2>2. v \in J
      <3>1. k % n \in 0..(n - 1)
        BY <1>1, <1>3, NextVisit
      <3> QED
        BY <1>1, <3>1
    <2> HIDE DEF v
    <2>3. TrimOne(e, v) \in Connections(J) /\ \A j \in J : TrimOne(e, v)[j] <= e[j]
      <3>1. /\ TrimOne(e, v) \in Connections(J)
            /\ \A j \in J \ {v} : TrimOne(e, v)[j] = e[j]
            /\ TrimOne(e, v)[v] = e[v] - 1 \/ TrimOne(e, v)[v] = e[v]
        BY <2>1, <2>2, TrimOneTakes
      <3>2. \A j \in J : e[j] \in Nat
        BY <2>1 DEF Connections
      <3> QED
        BY <2>2, <3>1, <3>2
    <2>4. \A j \in J : TrimOne(e, v)[j] <= d[j]
      BY <2>1, <2>3 DEF Connections
    <2>5. <<k + 1, TrimOne(e, v)>> \in Holds
      BY <2>3, <2>4
    <2> QED
      BY <2>5 DEF v
  <1> HIDE DEF Holds
  <1>4. <<Capacity * n, Trim(d, order)>> \in Holds
    BY <1>2, <1>3, VisitByVisit
  <1> QED
    BY <1>4 DEF Holds

\* After Capacity rounds the jobs fit the pool, or each has one connection.
LEMMA TrimFits ==
    ASSUME NEW J, IsFiniteSet(J), NEW order \in SetToSeqs(J), NEW d \in Connections(J),
           \A j \in J : d[j] <= Capacity
    PROVE  \/ ~(SumFunction(Trim(d, order)) > Capacity)
           \/ \A j \in J : Trim(d, order)[j] = 1
  <1> DEFINE n == Len(order)
             Visits(k, p) == k \div n + (IF k % n >= p THEN 1 ELSE 0)
             Down(k, e, p) == \/ ~(SumFunction(e) > Capacity)
                              \/ e[order[p]] = 1
                              \/ e[order[p]] + Visits(k, p) <= d[order[p]]
             Holds == {x \in Nat \X Connections(J) : \A p \in 1..n : Down(x[1], x[2], p)}
  <1>1. /\ n \in Nat /\ order \in [1..n -> J]
        /\ \A p, q \in 1..n : p # q => order[p] # order[q]
        /\ \A j \in J : \E p \in 1..n : order[p] = j
    BY OrderHasAll
  <1>2. <<0, d>> \in Holds
    <2>1. ASSUME NEW p \in 1..n PROVE Down(0, d, p)
      <3>1. 0 \div n = 0 /\ 0 % n = 0
        BY LastVisit, <1>1
      <3> QED
        BY <1>1, <3>1 DEF Connections
    <2> QED
      BY <2>1
  <1>3. ASSUME NEW k \in Nat, NEW e, <<k, e>> \in Holds, n # 0
        PROVE  <<k + 1, TrimOne(e, order[(k % n) + 1])>> \in Holds
    <2> DEFINE r == k % n
               v == order[r + 1]
               f == TrimOne(e, v)
    <2>1. e \in Connections(J) /\ \A p \in 1..n : Down(k, e, p)
      BY <1>3
    <2>2. /\ r \in 0..(n - 1) /\ k \div n \in Nat
          /\ (k + 1) % n = IF r = n - 1 THEN 0 ELSE r + 1
          /\ (k + 1) \div n = IF r = n - 1 THEN k \div n + 1 ELSE k \div n
      BY <1>1, <1>3, NextVisit
    <2>3. v \in J
      BY <1>1, <2>2
    <2>4. \A p \in 1..n : Visits(k + 1, p) = Visits(k, p) + (IF p = r + 1 THEN 1 ELSE 0)
      <3> HIDE DEF r
      <3> QED
        BY <1>1, <2>2 DEF r
    <2>5. \A p \in 1..n : Visits(k, p) \in Nat
      BY <2>2
    <2> HIDE DEF v, f, Visits
    <2>6. /\ f \in Connections(J)
          /\ \A j \in J \ {v} : f[j] = e[j]
          /\ \/ f[v] = e[v] - 1 /\ e[v] # 1 /\ SumFunction(e) > Capacity
             \/ f = e /\ (e[v] = 1 \/ ~(SumFunction(e) > Capacity))
      BY <2>1, <2>3, TrimOneTakes DEF f
    <2>7. ASSUME NEW p \in 1..n PROVE Down(k + 1, f, p)
      <3>1. /\ Down(k, e, p) /\ order[p] \in J /\ d[order[p]] \in Nat \ {0}
            /\ e[order[p]] \in Nat \ {0} /\ Visits(k, p) \in Nat
        BY <1>1, <2>1, <2>5 DEF Connections
      <3>2. CASE p = r + 1
        <4>1. order[p] = v /\ Visits(k + 1, p) = Visits(k, p) + 1
          BY <2>4, <3>2 DEF v
        <4> QED
          BY <2>6, <3>1, <4>1
      <3>3. CASE p # r + 1
        <4>1. order[p] # v /\ Visits(k + 1, p) = Visits(k, p)
          <5> HIDE DEF r
          <5>1. Visits(k + 1, p) = Visits(k, p) + 0
            BY <2>4, <3>3
          <5>3. r + 1 \in 1..n
            <6> HIDE DEF n
            <6> QED
              BY <1>1, <2>2
          <5>2. order[p] # order[r + 1]
            BY <1>1, <3>3, <5>3
          <5> QED
            BY <3>1, <5>1, <5>2 DEF v
        <4> QED
          BY <2>6, <3>1, <4>1
      <3> QED
        BY <3>2, <3>3
    <2>8. <<k + 1, f>> \in Holds
      BY <2>6, <2>7
    <2> QED
      BY <2>8 DEF f, v
  <1> HIDE DEF Holds
  <1>4. <<Capacity * n, Trim(d, order)>> \in Holds
    BY <1>2, <1>3, VisitByVisit
  <1>5. ASSUME NEW j \in J, SumFunction(Trim(d, order)) > Capacity
        PROVE  Trim(d, order)[j] = 1
    <2>1. PICK p \in 1..n : order[p] = j
      BY <1>1
    <2>2. (Capacity * n) \div n = Capacity /\ (Capacity * n) % n = 0
      BY <1>1, CapacityAssumption, LastVisit
    <2>3. Visits(Capacity * n, p) = Capacity
      BY <2>2, CapacityAssumption
    <2>4. /\ Trim(d, order) \in Connections(J)
          /\ Down(Capacity * n, Trim(d, order), p)
      BY <1>4 DEF Holds
    <2> HIDE DEF Visits
    <2> QED
      BY <1>5, <2>1, <2>3, <2>4, CapacityAssumption DEF Connections
  <1> QED
    BY <1>5

\* Of two jobs the one that is visited first gives at least as much, unless it
\* has nothing left to give; between the two visits of a round it gives more,
\* unless the jobs fit already.
LEMMA TrimFollowsOrder ==
    ASSUME NEW J, IsFiniteSet(J), NEW order \in SetToSeqs(J), NEW d \in Connections(J),
           NEW p \in 1..Len(order), NEW q \in 1..Len(order), p < q
    PROVE  LET i == order[p]
               j == order[q]
           IN  \/ d[i] - Trim(d, order)[i] >= d[j] - Trim(d, order)[j]
               \/ Trim(d, order)[i] = 1
  <1> DEFINE n == Len(order)
             i == order[p]
             j == order[q]
             Even(e) == d[i] - e[i] >= d[j] - e[j] \/ e[i] = 1
             Ahead(e) == \/ d[i] - e[i] > d[j] - e[j]
                         \/ e[i] = 1
                         \/ ~(SumFunction(e) > Capacity)
             Holds == {x \in Nat \X Connections(J) :
                          Even(x[2]) /\ (x[1] % n \in p..(q - 1) => Ahead(x[2]))}
  <1>1. /\ n \in Nat /\ n # 0 /\ order \in [1..n -> J]
        /\ \A a, b \in 1..n : a # b => order[a] # order[b]
    BY OrderHasAll
  <1>2. i \in J /\ j \in J /\ i # j
    BY <1>1
  <1>3. <<0, d>> \in Holds
    <2>1. 0 % n = 0
      BY <1>1, LastVisit
    <2>2. d[i] \in Nat /\ d[j] \in Nat
      BY <1>2 DEF Connections
    <2> QED
      BY <2>1, <2>2
  <1>4. ASSUME NEW k \in Nat, NEW e, <<k, e>> \in Holds
        PROVE  <<k + 1, TrimOne(e, order[(k % n) + 1])>> \in Holds
    <2> DEFINE r == k % n
               v == order[r + 1]
               f == TrimOne(e, v)
    <2>1. e \in Connections(J) /\ Even(e) /\ (r \in p..(q - 1) => Ahead(e))
      BY <1>4
    <2>2. /\ r \in 0..(n - 1)
          /\ (k + 1) % n = IF r = n - 1 THEN 0 ELSE r + 1
      BY <1>1, NextVisit
    <2> DEFINE s == (k + 1) % n
    <2> HIDE DEF n, r, s
    <2>3. r + 1 \in 1..n /\ p \in 1..n /\ q \in 1..n
      <3>1. r + 1 \in 1..n
        BY <1>1, <2>2
      <3>2. p \in 1..n /\ q \in 1..n
        BY DEF n
      <3> QED
        BY <3>1, <3>2
    <2>4. v \in J
      BY <1>1, <2>3
    <2>5. /\ v = i => r + 1 = p
          /\ v = j => r + 1 = q
          /\ r + 1 = p => v = i
          /\ r + 1 = q => v = j
      BY <1>1, <2>3
    <2>6. s \in p..(q - 1) => r + 1 = p \/ (r \in p..(q - 1) /\ r + 1 # q)
      BY <2>2, <2>3 DEF s
    <2> HIDE DEF v, f, i, j
    <2>7. /\ f \in Connections(J)
          /\ \A m \in J \ {v} : f[m] = e[m]
          /\ \/ f[v] = e[v] - 1 /\ e[v] # 1 /\ SumFunction(e) > Capacity
             \/ f = e /\ (e[v] = 1 \/ ~(SumFunction(e) > Capacity))
      BY <2>1, <2>4, TrimOneTakes DEF f
    <2>8. /\ d[i] \in Nat \ {0} /\ d[j] \in Nat \ {0}
          /\ e[i] \in Nat \ {0} /\ e[j] \in Nat \ {0}
          /\ f[i] \in Nat \ {0} /\ f[j] \in Nat \ {0}
      BY <1>2, <2>1, <2>7 DEF Connections
    <2>9. Even(f) /\ (s \in p..(q - 1) => Ahead(f))
      <3>1. CASE v = i
        <4>1. f[j] = e[j]
          BY <1>2, <2>7, <3>1
        <4>2. CASE f[i] = e[i] - 1
          <5>1. e[i] # 1
            BY <2>8, <4>2
          <5>2. d[i] - f[i] > d[j] - f[j]
            BY <2>1, <2>8, <4>1, <4>2, <5>1
          <5> QED
            BY <2>8, <5>2
        <4>3. CASE f = e /\ (e[i] = 1 \/ ~(SumFunction(e) > Capacity))
          BY <2>1, <4>3
        <4> QED
          BY <2>7, <3>1, <4>2, <4>3
      <3>2. CASE v = j
        <4>1. f[i] = e[i] /\ r + 1 = q /\ r \in p..(q - 1)
          BY <1>2, <2>2, <2>3, <2>5, <2>7, <3>2
        <4>2. Ahead(e) /\ Even(e)
          BY <2>1, <4>1
        <4>3. Even(f)
          BY <2>7, <2>8, <3>2, <4>1, <4>2
        <4>4. s \notin p..(q - 1)
          BY <2>3, <2>6, <4>1
        <4> QED
          BY <4>3, <4>4
      <3>3. CASE v \notin {i, j}
        <4>1. f[i] = e[i] /\ f[j] = e[j]
          BY <1>2, <2>7, <3>3
        <4>2. f = e \/ SumFunction(e) > Capacity
          BY <2>7
        <4>3. Ahead(e) => Ahead(f)
          BY <4>1, <4>2
        <4>4. s \in p..(q - 1) => r \in p..(q - 1)
          BY <2>5, <2>6, <3>3
        <4> QED
          BY <2>1, <4>1, <4>3, <4>4
      <3> QED
        BY <3>1, <3>2, <3>3
    <2>10. <<k + 1, f>> \in Holds
      BY <2>7, <2>9 DEF s
    <2> QED
      BY <2>10 DEF f, v, r
  <1> HIDE DEF Holds
  <1>5. <<Capacity * n, Trim(d, order)>> \in Holds
    BY <1>3, <1>4, VisitByVisit
  <1> QED
    BY <1>5 DEF Holds

----------------------------------------------------------------------------
(* A tick.                                                                 *)

Waits == {"low", "mid", "high"}
Wanted(wait, gain) == [j \in active |-> Climb(j, wait[j], gain[j]).desired]
Decided(wait, gain, order) == Trim(Wanted(wait, gain), order)

\* What a tick writes, with the order it trims in.
TickWith(wait, gain, order) ==
    /\ wait \in [active -> Waits] /\ gain \in [active -> BOOLEAN]
    /\ order \in TrimOrders(active, wait)
    /\ active' = active /\ due' = FALSE
    /\ desired' = [j \in Jobs |-> IF j \in active THEN Decided(wait, gain, order)[j]
                                  ELSE desired[j]]
    /\ control' = [j \in Jobs |->
                     IF j \in active
                     THEN [wait |-> wait[j],
                           cooldown |-> Climb(j, wait[j], gain[j]).cooldown,
                           probe |-> Climb(j, wait[j], gain[j]).probe]
                     ELSE Fresh]
    /\ gains' = [j \in Jobs |-> j \in active /\ gain[j]]
    /\ move' = [j \in Jobs |-> IF j \in active THEN Climb(j, wait[j], gain[j]).kind
                               ELSE "none"]
    /\ cut' = [j \in Jobs |->
                 IF j \in active
                 THEN Climb(j, wait[j], gain[j]).desired - Decided(wait, gain, order)[j]
                 ELSE 0]

LEMMA TickDecides ==
    ASSUME active \subseteq Jobs, Tick
    PROVE  \E wait, gain, order : TickWith(wait, gain, order)
  <1>1. PICK wait \in [active -> Waits], gain \in [active -> BOOLEAN] :
            LET climbed == [j \in active |-> Climb(j, wait[j], gain[j])]
                wanted == [j \in active |-> climbed[j].desired]
            IN  \E order \in TrimOrders(active, wait) :
                LET decided == Trim(wanted, order)
                IN  /\ desired' = [j \in Jobs |->
                                     IF j \in active THEN decided[j] ELSE desired[j]]
                    /\ control' = [j \in Jobs |->
                                     IF j \in active
                                     THEN [wait |-> wait[j],
                                           cooldown |-> climbed[j].cooldown,
                                           probe |-> climbed[j].probe]
                                     ELSE Fresh]
                    /\ gains' = [j \in Jobs |-> j \in active /\ gain[j]]
                    /\ move' = [j \in Jobs |->
                                  IF j \in active THEN climbed[j].kind ELSE "none"]
                    /\ cut' = [j \in Jobs |->
                                 IF j \in active THEN wanted[j] - decided[j] ELSE 0]
    BY DEF Tick, Waits
  <1> DEFINE climbed == [j \in active |-> Climb(j, wait[j], gain[j])]
             wanted == [j \in active |-> climbed[j].desired]
  <1>2. wanted = Wanted(wait, gain)
    BY DEF Wanted
  <1>3. PICK order \in TrimOrders(active, wait) :
            /\ desired' = [j \in Jobs |->
                             IF j \in active THEN Trim(wanted, order)[j] ELSE desired[j]]
            /\ control' = [j \in Jobs |->
                             IF j \in active
                             THEN [wait |-> wait[j],
                                   cooldown |-> climbed[j].cooldown,
                                   probe |-> climbed[j].probe]
                             ELSE Fresh]
            /\ gains' = [j \in Jobs |-> j \in active /\ gain[j]]
            /\ move' = [j \in Jobs |-> IF j \in active THEN climbed[j].kind ELSE "none"]
            /\ cut' = [j \in Jobs |->
                         IF j \in active THEN wanted[j] - Trim(wanted, order)[j] ELSE 0]
    BY <1>1
  <1>4. \A j \in active : climbed[j] = Climb(j, wait[j], gain[j])
    OBVIOUS
  <1>5. \A j \in active : wanted[j] = Climb(j, wait[j], gain[j]).desired
    BY <1>4
  <1>6. Trim(wanted, order) = Decided(wait, gain, order)
    BY <1>2 DEF Decided
  <1> HIDE DEF climbed, wanted
  <1>7. TickWith(wait, gain, order)
    BY <1>3, <1>4, <1>5, <1>6 DEF TickWith, Tick
  <1> QED
    BY <1>7

----------------------------------------------------------------------------
(* The bounds, and no fluttering.                                          *)

\* Where the climb may take a job from one tick to the next.
LEMMA ClimbSteps ==
    ASSUME TypeOK, NEW j \in Jobs, NEW wait \in Waits, NEW gain \in BOOLEAN
    PROVE  LET c == Climb(j, wait, gain)
           IN  /\ c.desired \in 1..MaxConnections[j]
               /\ c.cooldown \in 0..DownCooldown /\ c.probe \in BOOLEAN
               /\ c.kind \in {"none", "up", "down"}
               /\ c.kind = "up" => c.probe
               /\ c.kind = "down" => c.cooldown = DownCooldown
               /\ c.desired > desired[j] => Cooled(j) = 0 /\ ~control[j].probe
  <1>1. /\ MaxConnections[j] \in Nat /\ desired[j] \in 1..MaxConnections[j]
        /\ control[j].cooldown \in 0..DownCooldown /\ control[j].probe \in BOOLEAN
    BY JobsAssumption, CapacityAssumption DEF TypeOK, MinConnections
  <1>2. Cooled(j) \in 0..DownCooldown
    BY <1>1 DEF Cooled, DownCooldown
  <1>3. CASE Contended(j, wait)
    <2>1. Climb(j, wait, gain) = Proposal(desired[j] - 1, DownCooldown, FALSE, "down")
      BY <1>3 DEF Climb
    <2>2. desired[j] - 1 \in 1..MaxConnections[j] /\ ~(desired[j] - 1 > desired[j])
      BY <1>1, <1>3 DEF Contended, MinConnections
    <2>3. /\ Climb(j, wait, gain).desired = desired[j] - 1
          /\ Climb(j, wait, gain).cooldown = DownCooldown
          /\ Climb(j, wait, gain).probe = FALSE
          /\ Climb(j, wait, gain).kind = "down"
      BY <2>1 DEF Proposal
    <2>4. /\ Climb(j, wait, gain).desired \in 1..MaxConnections[j]
          /\ Climb(j, wait, gain).cooldown \in 0..DownCooldown
          /\ ~(Climb(j, wait, gain).desired > desired[j])
      BY <2>2, <2>3 DEF DownCooldown
    <2>5. /\ Climb(j, wait, gain).probe \in BOOLEAN
          /\ Climb(j, wait, gain).kind \in {"none", "up", "down"}
          /\ Climb(j, wait, gain).kind # "up"
      BY <2>3
    <2> QED
      BY <2>3, <2>4, <2>5
  <1>4. CASE ~Contended(j, wait) /\ MayProbe(j, wait)
    BY <1>1, <1>2, <1>4
    DEF Climb, MayProbe, Proposal, Judge, MinConnections, DownCooldown, UpCooldown
  <1>5. CASE ~Contended(j, wait) /\ ~MayProbe(j, wait)
    <2>1. Climb(j, wait, gain) = Proposal(desired[j], Cooled(j),
                                          control[j].probe /\ wait = "low", "none")
      BY <1>5 DEF Climb
    <2>2. (control[j].probe /\ wait = "low") \in BOOLEAN
      OBVIOUS
    <2> QED
      BY <1>1, <1>2, <2>1, <2>2 DEF Proposal
  <1> QED
    BY <1>3, <1>4, <1>5

\* Who was probed up remembers the probe, and who was lowered has the cooldown.
Damping ==
    \A j \in Jobs : /\ move[j] = "up" => control[j].probe
                    /\ move[j] = "down" => control[j].cooldown = DownCooldown

ControlInv == TypeOK /\ Damping

\* A tick decides within the bounds of each job, and trims what the climb wants.
LEMMA TickBounds ==
    ASSUME TypeOK, NEW wait, NEW gain, NEW order, TickWith(wait, gain, order)
    PROVE  /\ IsFiniteSet(active) /\ order \in SetToSeqs(active)
           /\ Wanted(wait, gain) \in Connections(active)
           /\ \A j \in active :
                 /\ Wanted(wait, gain)[j] = Climb(j, wait[j], gain[j]).desired
                 /\ Wanted(wait, gain)[j] <= MaxConnections[j]
                 /\ Decided(wait, gain, order)[j] \in 1..Wanted(wait, gain)[j]
                 /\ desired'[j] = Decided(wait, gain, order)[j]
  <1>1. IsFiniteSet(active) /\ order \in SetToSeqs(active)
    BY JobsAssumption, FS_Subset DEF TypeOK, TickWith, TrimOrders
  <1>2. \A j \in active : /\ j \in Jobs
                          /\ Wanted(wait, gain)[j] = Climb(j, wait[j], gain[j]).desired
                          /\ Wanted(wait, gain)[j] \in 1..MaxConnections[j]
                          /\ MaxConnections[j] \in Nat
    BY ClimbSteps, JobsAssumption, CapacityAssumption DEF Wanted, TickWith, TypeOK
  <1>3. Wanted(wait, gain) \in Connections(active)
    BY <1>2 DEF Wanted, Connections
  <1>4. /\ Decided(wait, gain, order) \in Connections(active)
        /\ \A j \in active : Decided(wait, gain, order)[j] <= Wanted(wait, gain)[j]
    BY <1>1, <1>3, TrimTakes DEF Decided
  <1>5. \A j \in active : desired'[j] = Decided(wait, gain, order)[j]
    BY <1>2 DEF TickWith
  <1> QED
    BY <1>1, <1>2, <1>3, <1>4, <1>5 DEF Connections

LEMMA ControlInit == Init => ControlInv
  <1> SUFFICES ASSUME Init PROVE ControlInv
    OBVIOUS
  <1>1. ASSUME NEW j \in Jobs PROVE desired[j] \in MinConnections..MaxConnections[j]
    <2>1. MaxConnections[j] \in Nat \ {0} /\ desired[j] \in InitialDesired(j)
      BY JobsAssumption, CapacityAssumption DEF Init
    <2> QED
      BY <2>1 DEF InitialDesired, MinConnections
  <1>2. Fresh \in [wait : {"zero", "low", "mid", "high"},
                   cooldown : 0..DownCooldown, probe : BOOLEAN]
    BY DEF Fresh, DownCooldown
  <1>3. TypeOK
    BY <1>1, <1>2 DEF Init, TypeOK
  <1>4. Damping
    BY DEF Init, Damping
  <1> QED
    BY <1>3, <1>4 DEF ControlInv

LEMMA ControlNext == ControlInv /\ [Next]_vars => ControlInv'
  <1> SUFFICES ASSUME ControlInv, [Next]_vars PROVE ControlInv'
    OBVIOUS
  <1>1. TypeOK /\ Damping
    BY DEF ControlInv
  <1>2. CASE Tick
    <2>1. active \subseteq Jobs
      BY <1>1 DEF TypeOK
    <2>2. PICK wait, gain, order : TickWith(wait, gain, order)
      BY <1>2, <2>1, TickDecides
    <2>3. \A j \in active :
              LET c == Climb(j, wait[j], gain[j])
              IN  /\ wait[j] \in Waits
                  /\ c.cooldown \in 0..DownCooldown /\ c.probe \in BOOLEAN
                  /\ c.kind \in {"none", "up", "down"}
                  /\ c.kind = "up" => c.probe
                  /\ c.kind = "down" => c.cooldown = DownCooldown
      BY <1>1, <2>1, <2>2, ClimbSteps DEF TickWith
    <2>4. \A j \in active :
              /\ Climb(j, wait[j], gain[j]).desired \in Nat
              /\ Climb(j, wait[j], gain[j]).desired <= MaxConnections[j]
              /\ Decided(wait, gain, order)[j]
                   \in 1..Climb(j, wait[j], gain[j]).desired
      BY <1>1, <2>2, TickBounds DEF Connections
    <2>5. \A j \in Jobs : desired'[j] \in MinConnections..MaxConnections[j]
      BY <1>1, <2>1, <2>2, <2>4, JobsAssumption, CapacityAssumption
      DEF TickWith, TypeOK, MinConnections
    <2>6. cut' \in [Jobs -> Nat]
      BY <2>2, <2>4 DEF TickWith
    <2>7. control' \in [Jobs -> [wait : {"zero", "low", "mid", "high"},
                                 cooldown : 0..DownCooldown, probe : BOOLEAN]]
      BY <2>2, <2>3 DEF TickWith, Fresh, Waits, DownCooldown
    <2>8. gains' \in [Jobs -> BOOLEAN] /\ move' \in [Jobs -> {"none", "up", "down"}]
      BY <2>2, <2>3 DEF TickWith
    <2>9. TypeOK'
      BY <2>1, <2>2, <2>5, <2>6, <2>7, <2>8 DEF TypeOK, TickWith
    <2>10. Damping'
      BY <2>2, <2>3 DEF Damping, TickWith
    <2> QED
      BY <2>9, <2>10 DEF ControlInv
  <1>3. CASE WakeUp \/ \E j \in Jobs : Activate(j) \/ Deactivate(j)
    BY <1>1, <1>3 DEF ControlInv, TypeOK, Damping, WakeUp, Activate, Deactivate
  <1>4. CASE UNCHANGED vars
    BY <1>1, <1>4 DEF ControlInv, TypeOK, Damping, vars
  <1> QED
    BY <1>2, <1>3, <1>4 DEF Next

\* For any jobs and bounds, the decisions stay between one connection and the
\* maximum of each job, whatever the averages are (Tick and its trim).
THEOREM TypeCorrect == Spec => []TypeOK
  <1>1. ControlInv => TypeOK
    BY DEF ControlInv
  <1> QED
    BY <1>1, ControlInit, ControlNext, PTL DEF Spec

\* A tick that fits the jobs into the pool, or leaves each one connection.
LEMMA TickFits ==
    ASSUME TypeOK, Tick
    PROVE  \/ SumFunctionOnSet(desired', active) <= Capacity
           \/ \A j \in active : desired'[j] = MinConnections
  <1>1. PICK wait, gain, order : TickWith(wait, gain, order)
    BY TickDecides DEF TypeOK
  <1> DEFINE decided == Decided(wait, gain, order)
  <1>2. /\ IsFiniteSet(active) /\ order \in SetToSeqs(active)
        /\ Wanted(wait, gain) \in Connections(active)
        /\ \A j \in active : Wanted(wait, gain)[j] <= MaxConnections[j]
        /\ \A j \in active : desired'[j] = decided[j]
    BY <1>1, TickBounds
  <1>3. \A j \in active : Wanted(wait, gain)[j] <= Capacity
    BY <1>2, JobsAssumption, CapacityAssumption DEF TypeOK, Connections
  <1>4. \/ ~(SumFunction(decided) > Capacity)
        \/ \A j \in active : decided[j] = 1
    BY <1>2, <1>3, TrimFits DEF Decided
  <1>5. decided \in Connections(active)
    BY <1>2, TrimTakes DEF Decided
  <1> HIDE DEF decided
  <1>6. SumFunction(decided) = SumFunctionOnSet(decided, active)
    BY <1>5 DEF SumFunction, Connections
  <1>7. \A j \in active : decided[j] \in Nat /\ decided[j] = desired'[j]
    BY <1>2, <1>5 DEF Connections
  <1>8. /\ SumFunctionOnSet(decided, active) = SumFunctionOnSet(desired', active)
        /\ SumFunctionOnSet(decided, active) \in Nat
    BY <1>2, <1>7, SumSame, SumType
  <1> QED
    BY <1>2, <1>4, <1>6, <1>8, CapacityAssumption DEF MinConnections

\* After every tick the active jobs fit the pool, or each has one connection, for
\* any number of jobs that start and stop between the ticks (the loop over
\* `excess` takes enough, and ends).
THEOREM CapacityHolds == Spec => CapacityRespected
  <1>1. ControlInv /\ [Next]_vars =>
            [due /\ ~due' =>
                 \/ SumFunctionOnSet(desired', active) <= Capacity
                 \/ \A j \in active : desired'[j] = MinConnections]_vars
    <2> SUFFICES ASSUME ControlInv, Next, due, ~due'
                 PROVE  \/ SumFunctionOnSet(desired', active) <= Capacity
                        \/ \A j \in active : desired'[j] = MinConnections
      OBVIOUS
    <2>1. Tick
      BY DEF Next, WakeUp, Activate, Deactivate
    <2> QED
      BY <2>1, TickFits DEF ControlInv
  <1> QED
    BY <1>1, ControlInit, ControlNext, PTL DEF Spec, CapacityRespected

\* No job that was probed up or lowered is raised by the next tick, whatever the
\* averages say and whoever else competes (cooldown_ticks and probe_active).
THEOREM NoFlutter == Spec => Damped
  <1>1. ControlInv /\ [Next]_vars =>
            [\A j \in Jobs : move[j] \in {"up", "down"} => desired'[j] <= desired[j]]_vars
    <2> SUFFICES ASSUME ControlInv, Next, NEW j \in Jobs, move[j] \in {"up", "down"}
                 PROVE  desired'[j] <= desired[j]
      OBVIOUS
    <2>1. TypeOK /\ Damping /\ desired[j] \in Nat
      BY JobsAssumption, CapacityAssumption DEF ControlInv, TypeOK, MinConnections
    <2>2. CASE Tick
      <3>1. PICK wait, gain, order : TickWith(wait, gain, order)
        BY <2>1, <2>2, TickDecides DEF TypeOK
      <3>2. CASE j \in active
        <4>1. /\ wait[j] \in Waits /\ gain[j] \in BOOLEAN
              /\ desired'[j] \in 1..Climb(j, wait[j], gain[j]).desired
              /\ Climb(j, wait[j], gain[j]).desired \in Nat
          <5>1. /\ Wanted(wait, gain) \in Connections(active)
                /\ \A i \in active :
                      /\ Wanted(wait, gain)[i] = Climb(i, wait[i], gain[i]).desired
                      /\ Decided(wait, gain, order)[i] \in 1..Wanted(wait, gain)[i]
                      /\ desired'[i] = Decided(wait, gain, order)[i]
            BY <2>1, <3>1, TickBounds
          <5>2. wait[j] \in Waits /\ gain[j] \in BOOLEAN
            BY <3>1, <3>2 DEF TickWith
          <5> QED
            BY <3>2, <5>1, <5>2 DEF Connections
        <4>2. Climb(j, wait[j], gain[j]).desired > desired[j]
              => Cooled(j) = 0 /\ ~control[j].probe
          BY <2>1, <4>1, ClimbSteps
        <4>3. control[j].probe \/ Cooled(j) # 0
          BY <2>1 DEF Damping, Cooled, DownCooldown
        <4> QED
          BY <2>1, <4>1, <4>2, <4>3
      <3>3. CASE j \notin active
        BY <2>1, <3>1, <3>3 DEF TickWith
      <3> QED
        BY <3>2, <3>3
    <2>3. CASE WakeUp \/ \E i \in Jobs : Activate(i) \/ Deactivate(i)
      BY <2>1, <2>3 DEF WakeUp, Activate, Deactivate
    <2> QED
      BY <2>2, <2>3 DEF Next
  <1> QED
    BY <1>1, ControlInit, ControlNext, PTL DEF Spec, Damped

----------------------------------------------------------------------------
(* Who pays for the capacity.                                              *)

LEMMA PayersNext ==
    ASSUME ControlInv, TrimFollowsWait, [Next]_vars
    PROVE  TrimFollowsWait'
  <1>1. CASE Tick
    <2>1. TypeOK /\ active \subseteq Jobs
      BY DEF ControlInv, TypeOK
    <2>2. PICK wait, gain, order : TickWith(wait, gain, order)
      BY <1>1, <2>1, TickDecides
    <2>3. /\ IsFiniteSet(active) /\ order \in SetToSeqs(active)
          /\ Wanted(wait, gain) \in Connections(active)
          /\ \A j \in active :
                /\ Wanted(wait, gain)[j] = Climb(j, wait[j], gain[j]).desired
                /\ Decided(wait, gain, order)[j] \in 1..Wanted(wait, gain)[j]
                /\ desired'[j] = Decided(wait, gain, order)[j]
      BY <2>1, <2>2, TickBounds
    <2> SUFFICES ASSUME NEW i \in Jobs, NEW j \in Jobs,
                        Rank(control'[i].wait) > Rank(control'[j].wait)
                 PROVE  cut'[i] >= cut'[j] \/ desired'[i] = MinConnections
      BY DEF TrimFollowsWait
    <2>4. /\ i \in active => control'[i].wait = wait[i]
          /\ i \notin active => control'[i].wait = "zero"
          /\ j \in active => control'[j].wait = wait[j]
          /\ j \notin active => control'[j].wait = "zero" /\ cut'[j] = 0
      BY <2>2 DEF TickWith, Fresh
    <2>5. \A w : Rank(w) \in 0..2
      BY DEF Rank
    <2>6. i \in active
      BY <2>4, <2>5 DEF Rank
    <2>7. CASE j \notin active
      <3>1. cut'[i] \in Nat
        <4>1. cut'[i] = Wanted(wait, gain)[i] - Decided(wait, gain, order)[i]
          BY <2>2, <2>3, <2>6 DEF TickWith
        <4>2. /\ Wanted(wait, gain)[i] \in Nat
              /\ Decided(wait, gain, order)[i] \in 1..Wanted(wait, gain)[i]
          BY <2>3, <2>6 DEF Connections
        <4> QED
          BY <4>1, <4>2
      <3> QED
        BY <2>4, <2>7, <3>1
    <2>8. CASE j \in active
      <3>1. PICK p \in 1..Len(order) : order[p] = i
        BY <2>3, <2>6, OrderHasAll
      <3>2. PICK q \in 1..Len(order) : order[q] = j
        BY <2>3, <2>8, OrderHasAll
      <3>3. Rank(wait[i]) > Rank(wait[j])
        BY <2>4, <2>6, <2>8
      <3>4. p < q
        <4>1. DOMAIN order = 1..Len(order) /\ Len(order) \in Nat
          BY <2>3, OrderHasAll
        <4>2. q <= p => q = p \/ Rank(wait[order[q]]) >= Rank(wait[order[p]])
          BY <2>2, <4>1 DEF TickWith, TrimOrders
        <4> QED
          BY <2>5, <3>1, <3>2, <3>3, <4>1, <4>2
      <3>5. \/ Wanted(wait, gain)[i] - Decided(wait, gain, order)[i]
                 >= Wanted(wait, gain)[j] - Decided(wait, gain, order)[j]
            \/ Decided(wait, gain, order)[i] = 1
        BY <2>3, <3>1, <3>2, <3>4, TrimFollowsOrder DEF Decided
      <3>6. /\ cut'[i] = Wanted(wait, gain)[i] - Decided(wait, gain, order)[i]
            /\ cut'[j] = Wanted(wait, gain)[j] - Decided(wait, gain, order)[j]
        BY <2>2, <2>3, <2>6, <2>8 DEF TickWith
      <3> QED
        BY <2>3, <2>6, <3>5, <3>6 DEF MinConnections
    <2> QED
      BY <2>7, <2>8
  <1>2. CASE WakeUp \/ \E j \in Jobs : Activate(j) \/ Deactivate(j)
    BY <1>2 DEF TrimFollowsWait, WakeUp, Activate, Deactivate
  <1>3. CASE UNCHANGED vars
    BY <1>3 DEF TrimFollowsWait, vars
  <1> QED
    BY <1>1, <1>2, <1>3 DEF Next

\* Whoever waits more for tokens pays for the capacity at least what the others
\* do, while there is something to take from it (the order of the trim, and its
\* rounds).
THEOREM PayersInOrder == Spec => []TrimFollowsWait
  <1>1. Init => TrimFollowsWait
    BY DEF Init, TrimFollowsWait
  <1> QED
    BY <1>1, ControlInit, ControlNext, PayersNext, PTL DEF Spec

=============================================================================
