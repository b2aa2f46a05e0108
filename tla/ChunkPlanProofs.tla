-------------------------- MODULE ChunkPlanProofs --------------------------
(***************************************************************************)
(* Theorems about ChunkPlan, for any sizes and limits.                     *)
(***************************************************************************)
EXTENDS ChunkPlan, TLAPS

LEMMA Division ==
    ASSUME NEW a \in Nat, NEW b \in Nat \ {0}
    PROVE  /\ a \div b \in Nat
           /\ b * (a \div b) <= a
           /\ a < b * (a \div b) + b
OBVIOUS

LEMMA Products ==
    ASSUME NEW a \in Nat, NEW b \in Nat, NEW c \in Nat
    PROVE  /\ a * b \in Nat
           /\ a <= b => a * c <= b * c
           /\ (a + 1) * c = a * c + c
OBVIOUS

LEMMA InWord ==
    ASSUME NEW w \in Nat \ {0}, NEW a \in 0..(w - 1)
    PROVE  a % w = a
OBVIOUS

----------------------------------------------------------------------------

\* n = total / a rounded up, for some size a.
LEMMA CountOfChunks ==
    ASSUME NEW total \in Nat \ {0}, NEW a \in Nat \ {0},
           NEW n, n = (total + a - 1) \div a
    PROVE  n \in Nat \ {0} /\ (n - 1) * a < total /\ total <= n * a
<1>1. total + a - 1 \in Nat
    OBVIOUS
<1>2. n \in Nat /\ a * n <= total + a - 1 /\ total + a - 1 < a * n + a
    BY <1>1, Division
<1>3. n # 0
    BY <1>2
<1>4. n - 1 \in Nat /\ n = (n - 1) + 1
    BY <1>2, <1>3
<1>5. n * a = (n - 1) * a + a
    BY <1>4, Products
<1>6. (n - 1) * a \in Nat /\ a * n = n * a
    BY <1>2, <1>4, Products
<1> QED BY <1>2, <1>3, <1>5, <1>6

\* The even size is at most the size the number of chunks was computed from, and
\* all chunks but the last fit before the end of the file.
LEMMA EvenSizeFits ==
    ASSUME NEW total \in Nat \ {0}, NEW a \in Nat \ {0}, NEW n \in Nat \ {0},
           (n - 1) * a < total, total <= n * a, total + n <= Word
    PROVE  /\ EvenSize(total, n) \in 1..a
           /\ (n - 1) * EvenSize(total, n) < total
           /\ total <= n * EvenSize(total, n)
<1> DEFINE e == EvenSize(total, n)
<1>1. total + n - 1 \in Nat /\ e = (total + n - 1) \div n
  <2>1. Word \in Nat \ {0} /\ total + n - 1 \in 0..(Word - 1)
    BY PlanAssumption
  <2>2. (total + n - 1) % Word = total + n - 1
    BY <2>1, InWord
  <2> QED BY <2>1, <2>2 DEF EvenSize, RoundUpSize
<1>2. e \in Nat /\ n * e <= total + n - 1 /\ total + n - 1 < n * e + n
    BY <1>1, Division
<1> HIDE DEF e
<1>3. e # 0
  <2>1. SUFFICES ASSUME e = 0 PROVE FALSE
    OBVIOUS
  <2>2. n * 0 = 0
    OBVIOUS
  <2> QED BY <1>2, <2>1, <2>2
<1>4. e <= a
  <2>1. SUFFICES ASSUME e > a PROVE FALSE
    BY <1>2
  <2>2. a + 1 <= e /\ a + 1 \in Nat
    BY <1>2, <2>1
  <2>3. (a + 1) * n <= e * n
    BY <1>2, <2>2, Products
  <2>4. (a + 1) * n = a * n + n /\ a * n = n * a /\ e * n = n * e
    BY <1>2, Products
  <2>5. n * a \in Nat /\ n * e \in Nat
    BY <1>2, Products
  <2> QED BY <1>2, <2>3, <2>4, <2>5
<1>5. n - 1 \in Nat
    OBVIOUS
<1>6. (n - 1) * e <= (n - 1) * a
  <2>1. e * (n - 1) <= a * (n - 1)
    BY <1>2, <1>4, <1>5, Products
  <2> QED BY <1>2, <1>5, <2>1
<1>7. (n - 1) * e \in Nat /\ (n - 1) * a \in Nat /\ n * e \in Nat
    BY <1>2, <1>5, Products
<1> QED BY <1>2, <1>3, <1>4, <1>6, <1>7 DEF e

\* A number of chunks that leaves something for the last one divides the file.
LEMMA DivisionOfFile ==
    ASSUME NEW total \in Nat \ {0}, total < Word, NEW n \in Nat \ {0},
           EvenSize(total, n) \in Nat \ {0},
           (n - 1) * EvenSize(total, n) < total,
           total <= n * EvenSize(total, n)
    PROVE  Divides(total, n) /\ NothingFinishedYet(total, n)
<1> DEFINE e == EvenSize(total, n)
<1>1. Word \in Nat \ {0} /\ (total - 1) % Word = total - 1
  <2>1. Word \in Nat \ {0} /\ total - 1 \in 0..(Word - 1)
    BY PlanAssumption
  <2> QED BY <2>1, InWord
<1> HIDE DEF e
<1>2. e \in Nat \ {0} /\ (n - 1) * e < total /\ total <= n * e
    BY DEF e
<1>3. ASSUME NEW i \in 0..(n - 1)
      PROVE  /\ StartRange(total, n, i) = i * e /\ i * e \in Nat
             /\ EndRange(total, n, i) =
                   IF i = n - 1 THEN total - 1 ELSE i * e + e - 1
    BY <1>1, <1>2, Products DEF StartRange, EndRange, e
<1>4. ASSUME NEW i \in 0..(n - 2)
      PROVE  StartRange(total, n, i + 1) = i * e + e
    BY <1>2, Products DEF StartRange, e
<1>5. StartRange(total, n, 0) = 0
  <2>1. 0 \in 0..(n - 1) /\ 0 * e = 0
    BY <1>2
  <2> QED BY <1>3, <2>1
<1>6. EndRange(total, n, n - 1) = total - 1
  <2>1. n - 1 \in 0..(n - 1)
    OBVIOUS
  <2> QED BY <1>3, <2>1
<1>7. ASSUME NEW i \in 0..(n - 1)
      PROVE  /\ StartRange(total, n, i) \in Nat
             /\ EndRange(total, n, i) \in Nat
             /\ StartRange(total, n, i) <= EndRange(total, n, i)
             /\ EndRange(total, n, i) <= total - 1
  <2>1. CASE i = n - 1
    BY <1>2, <1>3, <2>1
  <2>2. CASE i # n - 1
    <3>1. i + 1 \in Nat /\ n - 1 \in Nat /\ i + 1 <= n - 1
      BY <2>2
    <3>2. (i + 1) * e <= (n - 1) * e /\ (n - 1) * e \in Nat
      BY <1>2, <3>1, Products
    <3>3. (i + 1) * e = i * e + e
      BY <1>2, Products
    <3>4. EndRange(total, n, i) = i * e + e - 1 /\ i * e \in Nat
      BY <1>3, <2>2
    <3>5. i * e + e <= (n - 1) * e
      BY <3>2, <3>3
    <3>6. StartRange(total, n, i) = i * e
      BY <1>3
    <3> DEFINE s == i * e
               t == (n - 1) * e
    <3>7. s \in Nat /\ t \in Nat /\ s + e <= t /\ t < total
      BY <1>2, <3>2, <3>4, <3>5
    <3>8. StartRange(total, n, i) = s /\ EndRange(total, n, i) = s + e - 1
      BY <3>4, <3>6
    <3> HIDE DEF s, t
    <3> QED BY <1>2, <3>7, <3>8
  <2> QED BY <2>1, <2>2
<1>8. ASSUME NEW i \in 0..(n - 2)
      PROVE  StartRange(total, n, i + 1) = EndRange(total, n, i) + 1
  <2>1. i \in 0..(n - 1) /\ i # n - 1
    OBVIOUS
  <2> QED BY <1>2, <1>3, <1>4, <2>1
<1>9. Divides(total, n)
    BY <1>5, <1>6, <1>7, <1>8 DEF Divides
<1>10. ASSUME NEW i \in 0..(n - 1) PROVE ~IsFinished(total, n, i, 0)
  <2> DEFINE d == EndRange(total, n, i) - StartRange(total, n, i) + 1
  <2>1. d \in 1..total
    BY <1>7
  <2>2. d \in 0..(Word - 1)
    BY <1>1, <2>1
  <2> HIDE DEF d
  <2>3. d % Word = d
    BY <1>1, <2>2, InWord
  <2> QED BY <2>1, <2>3 DEF IsFinished, ChunkTotal, d
<1> QED BY <1>9, <1>10 DEF NothingFinishedYet

LEMMA ChunkSizeIsPositive ==
    ASSUME NEW total \in Nat, NEW most \in Nat \ {0}
    PROVE  ChunkSize(total, most) \in MinChunkSize..MaxChunkSize
<1>1. most * 4 \in Nat \ {0}
    OBVIOUS
<1>2. total \div (most * 4) \in Nat
    BY <1>1, Division
<1> QED BY <1>2, PlanAssumption DEF ChunkSize, Lesser, Greater

\* A count below IntLimit survives the way through an int.
LEMMA IntIsKept ==
    ASSUME NEW n \in Nat, n < IntLimit
    PROVE  AsSize(AsInt(n)) = n
<1>1. /\ 2 * IntLimit \in Nat \ {0} /\ n + IntLimit \in 0..(2 * IntLimit - 1)
      /\ Word \in Nat \ {0} /\ n \in 0..(Word - 1) /\ IntLimit \in Nat
    BY PlanAssumption
<1>2. (n + IntLimit) % (2 * IntLimit) = n + IntLimit
    BY <1>1, InWord
<1>3. n % Word = n
    BY <1>1, InWord
<1>4. AsInt(n) = n
    BY <1>1, <1>2 DEF AsInt
<1> QED BY <1>3, <1>4 DEF AsSize

\* What the count is, of a file whose sums do not leave a size_t.
LEMMA CountIsQuotient ==
    ASSUME NEW total \in Nat \ {0}, total < Word, total + MaxChunkSize <= Word,
           NEW most \in Nat \ {0}
    PROVE  LET a == ChunkSize(total, most)
           IN  /\ a \in Nat \ {0} /\ MinChunkSize <= a /\ a <= MaxChunkSize
               /\ ChunkCount(total, most) = (total + a - 1) \div a
<1> DEFINE a == ChunkSize(total, most)
<1>1. a \in Nat \ {0} /\ MinChunkSize <= a /\ a <= MaxChunkSize
    BY ChunkSizeIsPositive, PlanAssumption
<1>2. ChunkCount(total, most) = ((total + a - 1) % Word) \div a
    BY DEF ChunkCount, RoundUpSize
<1> HIDE DEF a
<1>3. Word \in Nat \ {0} /\ total + a - 1 \in 0..(Word - 1)
    BY <1>1, PlanAssumption
<1>4. (total + a - 1) % Word = total + a - 1
    BY <1>3, InWord
<1> QED BY <1>1, <1>2, <1>4 DEF a

\* The count of a file of at most 2^31 - 1 chunks of the smallest size, 2 PB, is
\* an int.
THEOREM CountFitsInt ==
    ASSUME NEW total \in Nat \ {0}, total < Word, total + MaxChunkSize <= Word,
           NEW most \in Nat \ {0},
           total <= (IntLimit - 1) * MinChunkSize
    PROVE  ChunkCount(total, most) < IntLimit
<1> DEFINE a == ChunkSize(total, most)
           n == ChunkCount(total, most)
<1>1. /\ a \in Nat \ {0} /\ MinChunkSize <= a
      /\ n = (total + a - 1) \div a
    BY CountIsQuotient
<1> HIDE DEF a, n
<1>2. n \in Nat \ {0} /\ (n - 1) * a < total
    BY <1>1, CountOfChunks
<1>3. SUFFICES ASSUME IntLimit <= n PROVE FALSE
    BY <1>2, PlanAssumption DEF n
<1>4. /\ IntLimit - 1 \in Nat /\ n - 1 \in Nat /\ IntLimit - 1 <= n - 1
      /\ MinChunkSize \in Nat
    BY <1>2, <1>3, PlanAssumption
<1>5. /\ (IntLimit - 1) * MinChunkSize <= (n - 1) * MinChunkSize
      /\ (IntLimit - 1) * MinChunkSize \in Nat
      /\ (n - 1) * MinChunkSize \in Nat
    BY <1>4, Products
<1>6. MinChunkSize * (n - 1) <= a * (n - 1) /\ a * (n - 1) \in Nat
    BY <1>1, <1>4, Products
<1>7. MinChunkSize * (n - 1) = (n - 1) * MinChunkSize /\ a * (n - 1) = (n - 1) * a
    BY <1>1, <1>4
<1> DEFINE x == (IntLimit - 1) * MinChunkSize
           y == (n - 1) * MinChunkSize
           z == (n - 1) * a
<1>8. x <= y /\ y <= z /\ z < total /\ total <= x /\ x \in Nat /\ y \in Nat /\ z \in Nat
    BY <1>2, <1>5, <1>6, <1>7
<1> HIDE DEF x, y, z
<1> QED BY <1>8

\* The plan of the dispatcher, carried out by the constructor of DownloadEngine,
\* gives every byte of a file that has one to exactly one chunk, and no chunk is
\* finished before it begins: for every server, every number of connections and
\* every size whose sums do not leave a size_t and whose count of chunks is an
\* int.
THEOREM PlanDividesFile ==
    ASSUME NEW total \in Nat \ {0},
           2 * total <= Word, total + MaxChunkSize <= Word,
           NEW ranged \in BOOLEAN, NEW most \in Nat \ {0},
           ranged => ChunkCount(total, most) < IntLimit
    PROVE  LET n == NumChunks(total, ranged, most)
           IN  Divides(total, n) /\ NothingFinishedYet(total, n)
<1> DEFINE n == NumChunks(total, ranged, most)
<1>1. Word \in Nat \ {0} /\ total < Word
    BY PlanAssumption
<1>2. CASE ranged
  <2> DEFINE a == ChunkSize(total, most)
  <2>1. a \in Nat \ {0} /\ a <= MaxChunkSize
    BY <1>1, CountIsQuotient
  <2>2. n = (total + a - 1) \div a
    <3> DEFINE c == ChunkCount(total, most)
    <3>1. c = (total + a - 1) \div a
      BY <1>1, CountIsQuotient
    <3>2. c < IntLimit /\ n = AsSize(AsInt(c))
      BY <1>2 DEF NumChunks
    <3> HIDE DEF a, c, n
    <3>3. c \in Nat
      BY <2>1, <3>1, CountOfChunks
    <3>4. AsSize(AsInt(c)) = c
      BY <3>2, <3>3, IntIsKept
    <3> QED BY <3>1, <3>2, <3>4
  <2> HIDE DEF a, n
  <2>3. n \in Nat \ {0} /\ (n - 1) * a < total /\ total <= n * a
    BY <2>1, <2>2, CountOfChunks
  <2>4. total + n <= Word
    <3>1. (n - 1) * 1 <= (n - 1) * a
      BY <2>1, <2>3
    <3>2. (n - 1) * a \in Nat
      BY <2>1, <2>3, Products
    <3> QED BY <1>1, <2>3, <3>1, <3>2
  <2>5. /\ EvenSize(total, n) \in Nat \ {0}
        /\ (n - 1) * EvenSize(total, n) < total
        /\ total <= n * EvenSize(total, n)
    <3>1. /\ EvenSize(total, n) \in 1..a
          /\ (n - 1) * EvenSize(total, n) < total
          /\ total <= n * EvenSize(total, n)
      BY <2>1, <2>3, <2>4, EvenSizeFits
    <3> QED BY <2>1, <3>1
  <2>6. Divides(total, n) /\ NothingFinishedYet(total, n)
    BY <1>1, <2>3, <2>5, DivisionOfFile
  <2> QED BY <2>6 DEF n
<1>3. CASE ~ranged
  <2>1. n = 1
    BY <1>3 DEF NumChunks
  <2>2. /\ (1 - 1) * total < total /\ total <= 1 * total /\ 1 \in Nat \ {0}
        /\ total + 1 <= Word
    BY <1>1
  <2>3. /\ EvenSize(total, 1) \in Nat \ {0}
        /\ (1 - 1) * EvenSize(total, 1) < total
        /\ total <= 1 * EvenSize(total, 1)
    BY <1>1, <2>2, EvenSizeFits
  <2>4. Divides(total, 1) /\ NothingFinishedYet(total, 1)
    BY <1>1, <2>3, DivisionOfFile
  <2> QED BY <2>1, <2>4
<1> QED BY <1>2, <1>3

\* Whatever the limit, a job begins with at least one connection and at most as
\* many as it may have, a loaded job too, and may never have more than the pool.
THEOREM ConnectionsInBounds ==
    ASSUME NEW ranged \in BOOLEAN, NEW limit \in Nat,
           NEW capacity \in Nat \ {0}, NEW stored \in Int
    PROVE  LET most == ComputeMaxConnections(ranged, limit, capacity)
           IN  /\ most \in 1..capacity
               /\ ComputeInitialDesiredConnections(limit, most) \in 1..most
               /\ ResumeHint(stored, most) \in 1..most
<1> DEFINE most == ComputeMaxConnections(ranged, limit, capacity)
<1>1. limit + PerConnection - 1 \in Nat /\ PerConnection \in Nat \ {0}
    BY PlanAssumption
<1>2. RoundUp(limit, PerConnection) \in Nat
    BY <1>1, Division DEF RoundUp
<1>3. most \in 1..capacity
    BY <1>2, PlanAssumption DEF ComputeMaxConnections, Lesser
<1> HIDE DEF most
<1>4. ComputeInitialDesiredConnections(limit, most) \in 1..most
    BY <1>3 DEF ComputeInitialDesiredConnections, Lesser
<1>5. ResumeHint(stored, most) \in 1..most
    BY <1>3 DEF ResumeHint, Lesser, Greater
<1> QED BY <1>3, <1>4, <1>5 DEF most
=============================================================================
