------------------------- MODULE TokenBucketProofs -------------------------
(***************************************************************************)
(* Theorems about TokenBucket, for any workers, setters, limits and sizes. *)
(***************************************************************************)
EXTENDS TokenBucket, TLAPS

\* What the bucket would hold if it were refilled now never exceeds what the
\* limit allows.
Covered ==
    Settled /\ limit > 0 =>
        Least(tokens + limit * elapsed, Burst(limit)) <= allowance

\* What the last setter has still to apply is the limit.
LastAsked == Settled \/ asked[last] = limit

BucketInv == TypeOK /\ LastAsked /\ TokensWithinBurst /\ Covered

----------------------------------------------------------------------------

LEMMA BurstIsNat ==
    ASSUME NEW l \in Limits
    PROVE  l \in Nat /\ Burst(l) \in Nat \ {0} /\ BufferSize <= Burst(l)
<1>1. l \in Nat /\ BurstTicks \in Nat /\ BufferSize \in Nat \ {0}
    BY RatesAssumption
<1>2. l * BurstTicks \in Nat
    BY <1>1
<1> QED BY <1>1, <1>2 DEF Burst

LEMMA Accrual ==
    ASSUME NEW l \in Nat, NEW e \in Nat
    PROVE  /\ l * e \in Nat
           /\ l * 0 = 0
           /\ l * (e + 1) = l * e + l
OBVIOUS

\* A turn hands out a part of what the bucket holds, and only a positive part.
LEMMA RefilledBounds ==
    ASSUME BucketInv
    PROVE  /\ Refilled \in Nat
           /\ Settled => Refilled <= IF limit = 0 THEN 0 ELSE Burst(limit)
           /\ Settled /\ limit > 0 => Refilled <= allowance
           /\ Refilled >= 1 => Allowed(Refilled) \in 1..Refilled
<1>1. limit \in Nat /\ tokens \in Nat /\ elapsed \in Nat /\ Burst(limit) \in Nat
    BY BurstIsNat DEF BucketInv, TypeOK
<1>2. limit * elapsed \in Nat /\ limit * 0 = 0
    BY <1>1, Accrual
<1>3. BufferSize \in Nat \ {0}
    BY RatesAssumption
<1> USE DEF BucketInv, TypeOK, TokensWithinBurst, Covered, Refilled, Least
<1>4. Refilled \in Nat
    BY <1>1, <1>2
<1>5. Settled => Refilled <= IF limit = 0 THEN 0 ELSE Burst(limit)
    BY <1>1, <1>2
<1>6. Settled /\ limit > 0 => Refilled <= allowance
  <2>1. CASE elapsed = 0
    BY <1>1, <1>2, <2>1
  <2>2. CASE elapsed # 0
    BY <1>1, <1>2, <2>2
  <2> QED BY <2>1, <2>2
<1>7. Refilled >= 1 => Allowed(Refilled) \in 1..Refilled
    BY <1>3, <1>4 DEF Allowed
<1> QED BY <1>4, <1>5, <1>6, <1>7

----------------------------------------------------------------------------

LEMMA InitBucket == Init => BucketInv
<1> SUFFICES ASSUME Init PROVE BucketInv
    OBVIOUS
<1>1. limit \in Nat /\ Burst(limit) \in Nat \ {0}
    BY BurstIsNat DEF Init
<1>2. limit * elapsed = 0
    BY <1>1, Accrual DEF Init
<1>3. TypeOK
    BY <1>1, RatesAssumption DEF Init, TypeOK, None
<1>4. LastAsked /\ TokensWithinBurst /\ Covered
    BY <1>1, <1>2 DEF Init, LastAsked, Settled, TokensWithinBurst, Covered, Least
<1> QED BY <1>3, <1>4 DEF BucketInv

\* The bucket, its limit and who set it stay as they are.
Untouched == UNCHANGED <<bucket, asked, history>>

LEMMA UntouchedKeeps ==
    ASSUME BucketInv, TypeOK', Untouched
    PROVE  BucketInv'
BY DEF BucketInv, Untouched, bucket, history, LastAsked, TokensWithinBurst,
       Covered, Settled, Least, Burst

LEMMA TickStep == BucketInv /\ Tick => BucketInv'
<1> SUFFICES ASSUME BucketInv, Tick PROVE BucketInv'
    OBVIOUS
<1>1. limit \in Nat /\ tokens \in Nat /\ elapsed \in Nat
      /\ allowance \in Int /\ Burst(limit) \in Nat
    BY BurstIsNat DEF BucketInv, TypeOK
<1>2. limit * (elapsed + 1) = limit * elapsed + limit /\ limit * elapsed \in Nat
    BY <1>1, Accrual
<1>3. TypeOK'
    BY <1>1, RatesAssumption DEF BucketInv, TypeOK, Tick, Least
<1>4. LastAsked' /\ TokensWithinBurst'
    BY DEF BucketInv, LastAsked, TokensWithinBurst, Tick, Settled, Burst
<1>5. Covered'
  <2> SUFFICES ASSUME Settled, limit > 0
               PROVE  Least(tokens + limit * (elapsed + 1), Burst(limit))
                        <= Least(allowance + limit, Burst(limit))
    BY DEF Covered, Tick, Settled, Burst, Least
  <2>1. Least(tokens + limit * elapsed, Burst(limit)) <= allowance
    BY DEF BucketInv, Covered
  <2> QED BY <1>1, <1>2, <2>1 DEF Least
<1> QED BY <1>3, <1>4, <1>5 DEF BucketInv

LEMMA TurnStep ==
    ASSUME BucketInv, NEW w \in Workers, Turn(w)
    PROVE  BucketInv'
<1>1. limit \in Nat /\ tokens \in Nat /\ allowance \in Int /\ Burst(limit) \in Nat
    BY BurstIsNat DEF BucketInv, TypeOK
<1>2. limit * 0 = 0
    BY <1>1, Accrual
<1>3. /\ limit' = limit /\ elapsed' = 0 /\ downloading' = downloading
      /\ asked' = asked /\ last' = last /\ calls' = calls
      /\ Settled' = Settled
    BY DEF Turn, Settled
<1>4. pc' \in [Workers -> {"idle", "ask", "loop", "sleepy", "wait", "read"}]
    BY DEF BucketInv, TypeOK, Turn, At
<1>5. CASE Refilled >= 1
  <2>1. /\ tokens' = Refilled - Allowed(Refilled)
        /\ allowance' = allowance - Allowed(Refilled)
    BY <1>5 DEF Turn
  <2>2. /\ Refilled \in Nat /\ Allowed(Refilled) \in 1..Refilled
        /\ Settled => Refilled <= IF limit = 0 THEN 0 ELSE Burst(limit)
        /\ Settled /\ limit > 0 => Refilled <= allowance
    BY <1>5, RefilledBounds
  <2>3. TypeOK'
    BY <1>1, <1>3, <1>4, <2>1, <2>2, RatesAssumption DEF BucketInv, TypeOK
  <2>4. LastAsked' /\ TokensWithinBurst' /\ Covered'
    BY <1>1, <1>2, <1>3, <2>1, <2>2
       DEF BucketInv, LastAsked, TokensWithinBurst, Covered, Least, Burst
  <2> QED BY <2>3, <2>4 DEF BucketInv
<1>6. CASE ~(Refilled >= 1)
  <2>1. tokens' = Refilled /\ allowance' = allowance
    BY <1>6 DEF Turn
  <2>2. /\ Refilled \in Nat
        /\ Settled => Refilled <= IF limit = 0 THEN 0 ELSE Burst(limit)
        /\ Settled /\ limit > 0 => Refilled <= allowance
    BY RefilledBounds
  <2>3. TypeOK'
    BY <1>1, <1>3, <1>4, <2>1, <2>2, RatesAssumption DEF BucketInv, TypeOK
  <2>4. LastAsked' /\ TokensWithinBurst' /\ Covered'
    BY <1>1, <1>2, <1>3, <2>1, <2>2
       DEF BucketInv, LastAsked, TokensWithinBurst, Covered, Least, Burst
  <2> QED BY <2>3, <2>4 DEF BucketInv
<1> QED BY <1>5, <1>6

\* A limit that was stored and not applied says nothing yet.
LEMMA StoreLimitStep ==
    ASSUME BucketInv, NEW s \in Setters, StoreLimit(s)
    PROVE  BucketInv'
<1>1. PICK l \in Limits : limit' = l /\ asked' = [asked EXCEPT ![s] = l]
    BY DEF StoreLimit
<1>2. l # None /\ l \in Nat
    BY RatesAssumption DEF None
<1>3. ~Settled'
    BY <1>1, <1>2 DEF Settled, StoreLimit, BucketInv, TypeOK
<1>4. TypeOK'
    BY <1>1, RatesAssumption DEF BucketInv, TypeOK, StoreLimit
<1>5. LastAsked'
    BY <1>1 DEF LastAsked, StoreLimit, BucketInv, TypeOK
<1> QED BY <1>3, <1>4, <1>5 DEF BucketInv, TokensWithinBurst, Covered

LEMMA ApplyLimitStep ==
    ASSUME BucketInv, NEW s \in Setters, ApplyLimit(s)
    PROVE  BucketInv'
<1> DEFINE l == asked[s]
<1>1. limit \in Nat /\ tokens \in Nat /\ allowance \in Int /\ l \in Limits
      /\ Burst(limit) \in Nat \ {0} /\ Burst(l) \in Nat \ {0}
    BY BurstIsNat DEF BucketInv, TypeOK, ApplyLimit
<1>2. limit * 0 = 0
    BY <1>1, Accrual
<1>3. /\ limit' = limit /\ elapsed' = 0 /\ last' = last
      /\ tokens' = Cut(l) /\ Cut(l) \in 0..tokens
    BY <1>1 DEF ApplyLimit, Cut, Least
<1>4. TypeOK'
    BY <1>1, <1>3, RatesAssumption DEF BucketInv, TypeOK, ApplyLimit, NotifyAll
<1>5. CASE s = last
  <2>1. allowance' = Burst(limit)
    BY <1>5 DEF ApplyLimit
  <2>2. l = limit
    BY <1>5 DEF ApplyLimit, BucketInv, LastAsked, Settled
  <2>3. LastAsked'
    BY <1>5 DEF LastAsked, Settled, ApplyLimit, BucketInv, TypeOK
  <2>4. tokens' <= IF limit = 0 THEN 0 ELSE Burst(limit)
    BY <1>1, <1>3, <2>2 DEF Cut, Least
  <2>5. TokensWithinBurst' /\ Covered'
    BY <1>1, <1>2, <1>3, <2>1, <2>4 DEF TokensWithinBurst, Covered, Least, Burst
  <2> QED BY <1>4, <2>3, <2>5 DEF BucketInv
<1>6. CASE s # last
  <2>1. allowance' = allowance /\ asked'[last'] = asked[last] /\ Settled' = Settled
    BY <1>3, <1>6 DEF ApplyLimit, Settled, BucketInv, TypeOK
  <2>2. LastAsked'
    BY <1>3, <2>1 DEF LastAsked, BucketInv
  <2>3. TokensWithinBurst'
    BY <1>1, <1>3, <2>1 DEF TokensWithinBurst, BucketInv, Burst
  <2>4. Covered'
    <3> SUFFICES ASSUME Settled, limit > 0
                 PROVE  Least(tokens' + limit * 0, Burst(limit)) <= allowance
      BY <1>3, <2>1 DEF Covered, Least, Burst
    <3>1. Least(tokens + limit * elapsed, Burst(limit)) <= allowance
      BY DEF BucketInv, Covered
    <3>2. limit * elapsed \in Nat
      BY <1>1, Accrual DEF BucketInv, TypeOK
    <3> QED BY <1>1, <1>2, <1>3, <3>1, <3>2 DEF Least
  <2> QED BY <1>4, <2>2, <2>3, <2>4 DEF BucketInv
<1> QED BY <1>5, <1>6

LEMMA NextStep == BucketInv /\ [Next]_vars => BucketInv'
<1> SUFFICES ASSUME BucketInv, [Next]_vars PROVE BucketInv'
    OBVIOUS
<1> USE DEF Untouched, bucket, history
<1>1. ASSUME NEW w \in Workers,
             Enter(w) \/ Ask(w) \/ Sleep(w) \/ TimeOut(w) \/ Read(w)
      PROVE  BucketInv'
  <2>1. TypeOK' /\ Untouched
    BY <1>1 DEF BucketInv, TypeOK, Enter, Ask, Sleep, TimeOut, Read, At
  <2> QED BY <2>1, UntouchedKeeps
<1>2. CASE Stop \/ Resume
  <2>1. Untouched /\ downloading' \in BOOLEAN
    BY <1>2 DEF Stop, Resume
  <2>2. calls' \in 0..MaxCalls
    <3>1. calls \in 0..MaxCalls /\ MaxCalls \in Nat
      BY RatesAssumption DEF BucketInv, TypeOK
    <3>2. calls' = calls \/ (calls < MaxCalls /\ calls' = calls + 1)
      BY <1>2 DEF Stop, Resume
    <3> QED BY <3>1, <3>2
  <2>3. pc' \in [Workers -> {"idle", "ask", "loop", "sleepy", "wait", "read"}]
    BY <1>2 DEF BucketInv, TypeOK, Stop, Resume, NotifyAll
  <2>4. TypeOK'
    BY <2>1, <2>2, <2>3 DEF BucketInv, TypeOK
  <2> QED BY <2>1, <2>4, UntouchedKeeps
<1>3. CASE UNCHANGED vars
  <2>1. TypeOK' /\ Untouched
    BY <1>3 DEF BucketInv, TypeOK, vars
  <2> QED BY <2>1, UntouchedKeeps
<1> QED
  BY <1>1, <1>2, <1>3, TickStep, TurnStep, StoreLimitStep, ApplyLimitStep
     DEF Next, Acquire

\* The types, the bound of the bucket and the rate are invariants: whatever the
\* workers, the clock and concurrent calls of SetSpeedLimit do.
LEMMA BucketInvariant == Spec => []BucketInv
<1>1. Init => BucketInv
    BY InitBucket
<1>2. BucketInv /\ [Next]_vars => BucketInv'
    BY NextStep
<1> QED BY <1>1, <1>2, PTL DEF Spec

\* Every variable keeps its type.
THEOREM TypeCorrect == Spec => []TypeOK
<1>1. BucketInv => TypeOK
    BY DEF BucketInv
<1> QED BY <1>1, BucketInvariant, PTL

\* AcquireReadBudget and SetSpeedLimit never leave more than the burst of the
\* limit in the bucket once the limit is applied.
THEOREM BurstCorrect == Spec => []TokensWithinBurst
<1>1. BucketInv => TokensWithinBurst
    BY DEF BucketInv
<1> QED BY <1>1, BucketInvariant, PTL

\* In no span of time the workers are granted more than a burst and what the
\* limit yields in it.
THEOREM RateCorrect == Spec => []RateHolds
<1>1. BucketInv => RateHolds
  <2> SUFFICES ASSUME BucketInv, Settled, limit > 0 PROVE allowance >= 0
      BY DEF RateHolds
  <2>1. limit \in Nat /\ tokens \in Nat /\ elapsed \in Nat
        /\ allowance \in Int /\ Burst(limit) \in Nat
      BY BurstIsNat DEF BucketInv, TypeOK
  <2>2. limit * elapsed \in Nat
      BY <2>1, Accrual
  <2> QED BY <2>1, <2>2 DEF BucketInv, Covered, Least
<1> QED BY <1>1, BucketInvariant, PTL
=============================================================================
