--------------------------- MODULE TokenBucketProofs ---------------------------
(***************************************************************************)
(* Proofs about TokenBucket, for any number of callers, rate, capacity and *)
(* resolution of time: the bucket keeps to a burst plus the rate, and its  *)
(* lazy refill is a Pacer.                                                 *)
(***************************************************************************)
EXTENDS TokenBucket, TLAPS

\* The ages are a sequence, oldest first, and the refill is never behind what
\* the recent grants leave of a full bucket: BurstPlusRate is not inductive
\* alone, for a level higher than that would pay for one grant too many.
BurstInv ==
  /\ level \in 0 .. Full
  /\ elapsed \in 0 .. Full
  /\ sleep \in [Callers -> NotWaiting .. TicksPerToken]
  /\ grants \in Seq(Nat)
  /\ \A i \in 1 .. Len(grants) :
       /\ grants[i] < Minute
       /\ (Len(grants) - i + 1) * TicksPerToken + Refilled <= Full + grants[i]

LEMMA Constants ==
  /\ TicksPerToken \in Nat /\ TicksPerToken > 0
  /\ Full \in Nat /\ TicksPerToken <= Full
  /\ Minute \in Nat /\ 0 < Minute
<1>1. PICK t \in Nat \ {0}, c \in Nat \ {0}, m \in Nat \ {0} :
        t = TicksPerToken /\ c = Capacity /\ m = Rpm
  BY BucketConstants
<1>2. c * t \in Nat /\ t <= c * t
  OBVIOUS
<1>3. m * t \in Nat /\ 0 < m * t
  OBVIOUS
<1>4. QED
  BY <1>1, <1>2, <1>3 DEF Full, Minute

LEMMA RefilledInside ==
  ASSUME level \in 0 .. Full, elapsed \in 0 .. Full
  PROVE  Refilled \in 0 .. Full
BY Constants DEF Refilled

LEMMA BurstInit == Init => BurstInv
<1> SUFFICES ASSUME Init
             PROVE  BurstInv
  OBVIOUS
<1>1. level \in 0 .. Full /\ elapsed \in 0 .. Full
  BY Constants DEF Init
<1>2. sleep \in [Callers -> NotWaiting .. TicksPerToken]
  BY Constants DEF Init, NotWaiting
<1>3. QED
  BY <1>1, <1>2 DEF BurstInv, Init

\* A grant spends a token's worth, and counts one token more for every stretch
\* that it falls into.
LEMMA GrantKeeps ==
  ASSUME BurstInv, NEW c \in Callers, Grant(c)
  PROVE  BurstInv' /\ Refilled' = Refilled - TicksPerToken
<1>1. PICK t \in Nat, f \in Nat, n \in Nat, r \in 0 .. Full :
        t = TicksPerToken /\ f = Full /\ n = Len(grants) /\ r = Refilled /\ t <= r /\ 0 < t
  <2>1. Refilled \in 0 .. Full
    BY RefilledInside DEF BurstInv
  <2>2. Len(grants) \in Nat
    BY DEF BurstInv
  <2>3. Refilled >= TicksPerToken
    BY DEF Grant
  <2>4. PICK t \in Nat, f \in Nat : t = TicksPerToken /\ f = Full /\ 0 < t
    BY Constants
  <2>5. PICK n \in Nat, r \in 0 .. f : n = Len(grants) /\ r = Refilled
    BY <2>1, <2>2, <2>4
  <2>6. t <= r
    BY <2>3, <2>4, <2>5
  <2>7. QED
    BY <2>4, <2>5, <2>6
<1>2. level' \in 0 .. Full /\ elapsed' \in 0 .. Full /\ Refilled' = r - t
  <2>1. level' = r - t /\ elapsed' = 0
    BY <1>1 DEF Grant
  <2>2. f \in Nat /\ r \in 0 .. f
    BY <1>1
  <2>3. r - t \in 0 .. f /\ r - t + 0 < f /\ 0 \in 0 .. f
    BY <1>1, <2>2
  <2>4. QED
    BY <1>1, <2>1, <2>2, <2>3 DEF Refilled, Full
<1>3. sleep' \in [Callers -> NotWaiting .. TicksPerToken]
  BY Constants DEF BurstInv, Grant, NotWaiting
<1>4. /\ grants' \in Seq(Nat) /\ Len(grants') = n + 1
      /\ \A i \in 1 .. n : grants'[i] = grants[i]
      /\ grants'[n + 1] = 0
  BY <1>1 DEF BurstInv, Grant
<1>5. ASSUME NEW i \in 1 .. n + 1
      PROVE  grants'[i] < Minute /\ (n + 1 - i + 1) * t + (r - t) <= f + grants'[i]
  <2>1. CASE i = n + 1
    <3>1. (n + 1 - i + 1) * t = t
      BY <2>1
    <3>2. QED
      BY <1>1, <1>4, <2>1, <3>1, Constants
  <2>2. CASE i # n + 1
    <3>1. PICK k \in Nat, a \in Nat : k = n - i + 1 /\ a = grants[i] /\ i \in 1 .. n
      <4>1. i \in 1 .. n /\ n - i + 1 \in Nat
        BY <1>1, <2>2
      <4>2. grants[i] \in Nat
        BY <1>1, <4>1 DEF BurstInv
      <4>3. QED
        BY <4>1, <4>2
    <3>2. a < Minute /\ k * t + r <= f + a
      BY <1>1, <3>1 DEF BurstInv
    <3>3. n + 1 - i + 1 = k + 1 /\ (k + 1) * t = k * t + t /\ k * t \in Nat
      BY <3>1
    <3>4. (n + 1 - i + 1) * t + (r - t) <= f + a
      BY <1>1, <3>1, <3>2, <3>3
    <3>5. QED
      BY <1>4, <3>1, <3>2, <3>4
  <2>3. QED
    BY <2>1, <2>2
<1>6. QED
  BY <1>1, <1>2, <1>3, <1>4, <1>5 DEF BurstInv, Full, Minute


\* Time adds one tick to the refill at most, and one to the age of each grant
\* that is still counted.
LEMMA TickKeeps ==
  ASSUME BurstInv, Tick
  PROVE  BurstInv' /\ Refilled' \in {Refilled, Refilled + 1} /\ Refilled' \in 0 .. Full
<1>1. PICK f \in Nat, l \in Nat, e \in Nat, r \in Nat, n \in Nat, t \in Nat :
        /\ f = Full /\ l = level /\ e = elapsed /\ r = Refilled /\ n = Len(grants)
        /\ t = TicksPerToken /\ l <= f /\ e <= f /\ r <= f
  <2>1. PICK f \in Nat, t \in Nat : f = Full /\ t = TicksPerToken
    BY Constants
  <2>2. level \in 0 .. f /\ elapsed \in 0 .. f
    BY <2>1 DEF BurstInv
  <2>3. Refilled \in 0 .. f
    BY <2>1, RefilledInside DEF BurstInv
  <2>4. Len(grants) \in Nat
    BY DEF BurstInv
  <2>5. /\ level \in Nat /\ level <= f /\ elapsed \in Nat /\ elapsed <= f
        /\ Refilled \in Nat /\ Refilled <= f
    BY <2>2, <2>3
  <2>6. QED
    BY <2>1, <2>4, <2>5
<1>2. PICK e1 \in 0 .. f : e1 = elapsed' /\ e1 = IF e < f THEN e + 1 ELSE e
  <2>1. elapsed' = IF e < f THEN e + 1 ELSE e
    BY <1>1 DEF Tick
  <2>2. (IF e < f THEN e + 1 ELSE e) \in 0 .. f
    <3>1. e \in Nat /\ f \in Nat /\ e <= f
      BY <1>1
    <3>2. QED
      BY <3>1
  <2>3. QED
    BY <2>1, <2>2
<1>3. PICK r1 \in 0 .. f : r1 = Refilled' /\ r1 \in {r, r + 1}
  <2>1. level' = l
    BY <1>1 DEF Tick
  <2>2. Full' = f
    BY <1>1 DEF Full
  <2>3. Refilled' = IF l + e1 < f THEN l + e1 ELSE f
    BY <1>2, <2>1, <2>2 DEF Refilled
  <2>4. r = IF l + e < f THEN l + e ELSE f
    BY <1>1 DEF Refilled
  <2>5. PICK r1 : r1 = IF l + e1 < f THEN l + e1 ELSE f
    OBVIOUS
  <2>6. r1 \in 0 .. f /\ r1 \in {r, r + 1}
    BY <1>2, <2>4, <2>5
  <2>7. QED
    BY <2>3, <2>5, <2>6
<1>4. level' \in 0 .. f /\ elapsed' \in 0 .. f
  BY <1>1, <1>2 DEF Tick
<1>5. sleep' \in [Callers -> NotWaiting .. TicksPerToken]
  <2>1. ASSUME NEW c \in Callers
        PROVE  (IF sleep[c] > 0 THEN sleep[c] - 1 ELSE sleep[c]) \in NotWaiting .. TicksPerToken
    <3>1. PICK s : s = sleep[c] /\ s \in -1 .. t
      BY <1>1 DEF BurstInv, NotWaiting
    <3>2. (IF s > 0 THEN s - 1 ELSE s) \in -1 .. t
      BY <3>1
    <3>3. QED
      BY <1>1, <3>1, <3>2 DEF NotWaiting
  <2>2. QED
    BY <2>1 DEF Tick
<1>6. PICK old \in 0 .. n :
        /\ \A i \in 1 .. n : grants[i] + 1 < Minute <=> i > old
        /\ grants' = Aged(old)
  BY <1>1 DEF Tick
<1>7. \A i \in 1 .. n - old : old + i \in 1 .. n /\ old + i > old
  OBVIOUS
<1>8. \A j \in 1 .. n : grants[j] \in Nat
  BY <1>1 DEF BurstInv
<1>9. grants' = [i \in 1 .. n - old |-> grants[old + i] + 1]
  BY <1>1, <1>6 DEF Aged
<1>10. PICK m \in Nat : m = n - old
  OBVIOUS
<1>11. /\ grants' \in Seq(Nat) /\ Len(grants') = m
       /\ \A i \in 1 .. m : grants'[i] = grants[old + i] + 1
  <2>1. \A i \in 1 .. m : grants[old + i] + 1 \in Nat
    BY <1>7, <1>8, <1>10
  <2>2. grants' = [i \in 1 .. m |-> grants[old + i] + 1]
    BY <1>9, <1>10
  <2>3. QED
    BY <2>1, <2>2
<1>12. ASSUME NEW i \in 1 .. m
       PROVE  grants'[i] < Minute /\ (m - i + 1) * t + r1 <= f + grants'[i]
  <2>1. PICK j \in 1 .. n : j = old + i /\ j > old
    BY <1>7, <1>10
  <2>2. PICK a \in Nat : a = grants[j] /\ grants'[i] = a + 1
    BY <1>8, <1>11, <2>1
  <2>3. a + 1 < Minute
    BY <1>6, <2>1, <2>2
  <2>4. (n - j + 1) * t + r <= f + a
    BY <1>1, <2>1, <2>2 DEF BurstInv
  <2>5. PICK k \in Nat : k = (n - j + 1) * t
    OBVIOUS
  <2>6. (m - i + 1) * t = k
    BY <1>10, <2>1, <2>5
  <2>7. k + r1 <= f + (a + 1)
    <3>1. k + r <= f + a
      BY <2>4, <2>5
    <3>2. r1 \in Nat /\ r1 <= r + 1
      BY <1>3
    <3>3. QED
      BY <3>1, <3>2
  <2>8. QED
    BY <2>2, <2>3, <2>6, <2>7
<1>13. QED
  BY <1>1, <1>3, <1>4, <1>5, <1>11, <1>12 DEF BurstInv, Full, Minute

\* To look at the bucket in vain changes only when it was last looked at.
LEMMA WaitKeeps ==
  ASSUME BurstInv, NEW c \in Callers, Wait(c)
  PROVE  BurstInv' /\ Refilled' = Refilled
<1>1. PICK t \in Nat, f \in Nat, r \in 0 .. Full :
        t = TicksPerToken /\ f = Full /\ r = Refilled /\ r < t
  <2>1. Refilled \in 0 .. Full
    BY RefilledInside DEF BurstInv
  <2>2. PICK t \in Nat, f \in Nat : t = TicksPerToken /\ f = Full
    BY Constants
  <2>3. PICK r \in 0 .. f : r = Refilled
    BY <2>1, <2>2
  <2>4. r < t
    BY <2>2, <2>3 DEF Wait
  <2>5. QED
    BY <2>2, <2>3, <2>4
<1>2. level' = r /\ elapsed' = 0 /\ r \in 0 .. f /\ 0 \in 0 .. f
  BY <1>1 DEF Wait
<1>3. Refilled' = r
  <2>1. Refilled' = IF r + 0 < f THEN r + 0 ELSE f
    BY <1>1, <1>2 DEF Refilled, Full
  <2>2. QED
    BY <1>2, <2>1
<1>4. sleep' \in [Callers -> NotWaiting .. TicksPerToken]
  <2>1. t - r \in -1 .. t
    BY <1>1, <1>2
  <2>2. t - r \in NotWaiting .. TicksPerToken
    BY <1>1, <2>1 DEF NotWaiting
  <2>3. sleep' = [sleep EXCEPT ![c] = t - r]
    BY <1>1 DEF Wait
  <2>4. QED
    BY <2>2, <2>3 DEF BurstInv
<1>5. QED
  BY <1>1, <1>2, <1>3, <1>4 DEF BurstInv, Wait, Full, Minute

LEMMA BurstStep == BurstInv /\ [Next]_vars => BurstInv'
<1> SUFFICES ASSUME BurstInv, [Next]_vars
             PROVE  BurstInv'
  OBVIOUS
<1>1. CASE Tick
  BY <1>1, TickKeeps
<1>2. CASE \E c \in Callers : Grant(c)
  BY <1>2, GrantKeeps
<1>3. CASE \E c \in Callers : Wait(c)
  BY <1>3, WaitKeeps
<1>4. CASE UNCHANGED vars
  BY <1>4 DEF vars, BurstInv, Refilled, Full, Minute
<1>5. QED
  BY <1>1, <1>2, <1>3, <1>4 DEF Next

LEMMA BurstInvariant == Spec => []BurstInv
  BY BurstInit, BurstStep, PTL DEF Spec

-------------------------------------------------------------------------------

\* The level stays between empty and full, and nobody sleeps longer than a
\* token takes to accrue.
THEOREM BucketTypeCorrect == Spec => []TypeOK
<1>1. BurstInv => TypeOK
  <2> SUFFICES ASSUME BurstInv, NEW i \in 1 .. Len(grants)
               PROVE  grants[i] \in 0 .. Minute - 1
    BY DEF BurstInv, TypeOK
  <2>1. PICK m \in Nat, a \in Nat : m = Minute /\ a = grants[i] /\ a < m
    <3>1. Minute \in Nat
      BY Constants
    <3>2. grants[i] \in Nat /\ grants[i] < Minute
      BY DEF BurstInv
    <3>3. QED
      BY <3>1, <3>2
  <2>2. a \in 0 .. m - 1
    BY <2>1
  <2>3. QED
    BY <2>1, <2>2
<1>2. QED
  BY <1>1, BurstInvariant, PTL

\* However many callers race for the bucket, and however late their timers
\* fire, any stretch of time has at most a burst and the stretch's worth of
\* grants (TokenBucket.acquire and refill).
THEOREM KeepsToTheRate == Spec => []BurstPlusRate
<1>1. BurstInv => BurstPlusRate
  <2> SUFFICES ASSUME BurstInv, NEW i \in 1 .. Len(grants)
               PROVE  (Len(grants) - i + 1) * TicksPerToken <= Full + grants[i]
    BY DEF BurstPlusRate
  <2>1. PICK n \in Nat, t \in Nat, f \in Nat, a \in Nat :
          n = Len(grants) /\ t = TicksPerToken /\ f = Full /\ a = grants[i]
    <3>1. TicksPerToken \in Nat /\ Full \in Nat
      BY Constants
    <3>2. grants[i] \in Nat /\ Len(grants) \in Nat
      BY DEF BurstInv
    <3>3. QED
      BY <3>1, <3>2
  <2>2. PICK r : r \in 0 .. f /\ r = Refilled
    BY <2>1, RefilledInside DEF BurstInv
  <2>3. (n - i + 1) * t + r <= f + a
    BY <2>1, <2>2 DEF BurstInv
  <2>4. PICK k \in Int : k = (n - i + 1) * t
    BY <2>1
  <2>5. k <= f + a
    BY <2>2, <2>3, <2>4
  <2>6. QED
    BY <2>1, <2>4, <2>5
<1>2. QED
  BY <1>1, BurstInvariant, PTL


-------------------------------------------------------------------------------
(* The lazy refill is a Pacer.                                             *)

LEMMA Division ==
  ASSUME NEW x \in Nat, NEW t \in Nat, t > 0
  PROVE  \E q \in Nat : q = x \div t /\ q * t <= x /\ x < q * t + t
<1>1. x \div t \in Nat
  OBVIOUS
<1>2. (x \div t) * t <= x
  OBVIOUS
<1>3. x < (x \div t) * t + t
  OBVIOUS
<1>4. QED
  BY <1>1, <1>2, <1>3

LEMMA QuotientIsUnique ==
  ASSUME NEW t \in Nat, t > 0, NEW q \in Int, NEW p \in Int, NEW x \in Int,
         q * t <= x, x < q * t + t, p * t <= x, x < p * t + t
  PROVE  p = q
<1>1. ASSUME p < q
      PROVE  FALSE
  <2>1. q >= p + 1
    BY <1>1
  <2>2. q * t >= (p + 1) * t
    BY <2>1
  <2>3. (p + 1) * t = p * t + t
    OBVIOUS
  <2>4. QED
    BY <2>2, <2>3
<1>2. ASSUME q < p
      PROVE  FALSE
  <2>1. p * t >= (q + 1) * t
    BY <1>2
  <2>2. (q + 1) * t = q * t + t
    OBVIOUS
  <2>3. QED
    BY <2>1, <2>2
<1>3. QED
  BY <1>1, <1>2


LEMMA Quotient ==
  ASSUME NEW x \in Nat, NEW t \in Nat, t > 0, NEW q \in Nat, q * t <= x, x < q * t + t
  PROVE  x \div t = q
BY Division, QuotientIsUnique

PermitsNow == Refilled \div TicksPerToken

LEMMA FullBucket == Init => PermitsNow = Capacity
<1> SUFFICES ASSUME Init
             PROVE  PermitsNow = Capacity
  OBVIOUS
<1>1. PICK t \in Nat, c \in Nat, f \in Nat :
        t = TicksPerToken /\ c = Capacity /\ f = c * t /\ t > 0
  BY BucketConstants
<1>2. Refilled = f
  <2>1. level = f /\ elapsed = 0 /\ Full = f
    BY <1>1 DEF Init, Full
  <2>2. QED
    BY <1>1, <2>1 DEF Refilled
<1>3. f \div t = c
  BY <1>1, Quotient
<1>4. QED
  BY <1>1, <1>2, <1>3 DEF PermitsNow

LEMMA RefillIs ==
  ASSUME BurstInv
  PROVE  \E r \in Nat, t \in Nat, c \in Nat, p \in Nat :
           /\ r = Refilled /\ t = TicksPerToken /\ t > 0 /\ c = Capacity /\ r <= c * t
           /\ p = PermitsNow /\ p * t <= r /\ r < p * t + t
<1>1. PICK t \in Nat, c \in Nat : t = TicksPerToken /\ c = Capacity /\ t > 0 /\ Full = c * t
  BY BucketConstants DEF Full
<1>2. PICK r \in Nat : r = Refilled /\ r <= c * t
  <2>1. Refilled \in 0 .. Full /\ Full \in Nat
    BY RefilledInside, Constants DEF BurstInv
  <2>2. QED
    BY <1>1, <2>1
<1>3. PICK p \in Nat : p = r \div t /\ p * t <= r /\ r < p * t + t
  BY <1>1, Division
<1>4. QED
  BY <1>1, <1>2, <1>3 DEF PermitsNow

\* One tick accrues one permit at most, and none beyond the capacity.
LEMMA TickAccrues ==
  ASSUME BurstInv, Tick
  PROVE  PermitsNow' = PermitsNow \/ (PermitsNow < Capacity /\ PermitsNow' = PermitsNow + 1)
<1>1. PICK r \in Nat, t \in Nat, c \in Nat, p \in Nat :
        /\ r = Refilled /\ t = TicksPerToken /\ t > 0 /\ c = Capacity /\ r <= c * t
        /\ p = PermitsNow /\ p * t <= r /\ r < p * t + t
  BY RefillIs
<1>2. Refilled' \in {r, r + 1} /\ Refilled' \in 0 .. Full
  BY <1>1, TickKeeps
<1>3. PICK s \in Nat : s = Refilled' /\ s \in {r, r + 1} /\ s <= c * t
  <2>1. PICK f \in Nat : f = Full /\ f = c * t
    BY <1>1, Constants DEF Full
  <2>2. PICK s \in 0 .. f : s = Refilled'
    BY <1>2, <2>1
  <2>3. QED
    BY <1>2, <2>1, <2>2
<1>4. PermitsNow' = s \div t
  BY <1>1, <1>3 DEF PermitsNow
<1>5. CASE s < p * t + t
  <2>1. PICK k \in Nat : k = p * t
    OBVIOUS
  <2>2. k <= s
    BY <1>1, <1>3, <2>1
  <2>3. s \div t = p
    BY <1>1, <1>5, <2>1, <2>2, Quotient
  <2>4. QED
    BY <1>1, <1>4, <2>3
<1>6. CASE s >= p * t + t
  <2>1. (p + 1) * t = p * t + t
    OBVIOUS
  <2>2. PICK k \in Nat : k = p * t
    OBVIOUS
  <2>3. s = k + t
    BY <1>1, <1>3, <1>6, <2>2
  <2>4. (p + 1) * t <= s /\ s < (p + 1) * t + t
    BY <1>1, <2>1, <2>2, <2>3
  <2>5. s \div t = p + 1
    BY <1>1, <2>4, Quotient
  <2>6. p < c
    <3>1. ASSUME c <= p
          PROVE  FALSE
      <4>1. c * t <= p * t
        BY <1>1, <3>1
      <4>2. QED
        BY <1>1, <1>3, <1>6, <4>1
    <3>2. QED
      BY <3>1
  <2>7. QED
    BY <1>1, <1>4, <2>5, <2>6
<1>7. QED
  BY <1>1, <1>3, <1>5, <1>6

LEMMA GrantTakes ==
  ASSUME BurstInv, NEW caller \in Callers, Grant(caller)
  PROVE  PermitsNow > 0 /\ PermitsNow' = PermitsNow - 1
<1>1. PICK r \in Nat, t \in Nat, c \in Nat, p \in Nat :
        /\ r = Refilled /\ t = TicksPerToken /\ t > 0 /\ c = Capacity /\ r <= c * t
        /\ p = PermitsNow /\ p * t <= r /\ r < p * t + t
  BY RefillIs
<1>2. t <= r
  BY <1>1 DEF Grant
<1>3. p > 0
  <2>1. ASSUME p = 0
        PROVE  FALSE
    <3>1. p * t = 0
      BY <2>1
    <3>2. QED
      BY <1>1, <1>2, <3>1
  <2>2. QED
    BY <2>1
<1>4. Refilled' = r - t
  BY <1>1, GrantKeeps
<1>5. (r - t) \div t = p - 1
  <2>1. p - 1 \in Nat /\ r - t \in Nat
    BY <1>2, <1>3
  <2>2. (p - 1) * t = p * t - t
    OBVIOUS
  <2>3. PICK k \in Nat : k = p * t
    OBVIOUS
  <2>4. k - t <= r - t /\ r - t < k - t + t
    BY <1>1, <2>3
  <2>5. (p - 1) * t <= r - t /\ r - t < (p - 1) * t + t
    BY <2>2, <2>3, <2>4
  <2>6. QED
    BY <1>1, <2>1, <2>5, Quotient
<1>6. PermitsNow' = p - 1
  BY <1>1, <1>4, <1>5 DEF PermitsNow
<1>7. QED
  BY <1>1, <1>3, <1>6

\* Seen through the whole tokens that a caller would find, a tick accrues one
\* permit at most, a grant takes one, and a look in vain changes nothing.
THEOREM LazyRefillIsAPacer == Spec => ImplementsPacer
<1>1. Init => Permits!Init
  BY FullBucket DEF Permits!Init, PermitsNow
<1>2. BurstInv /\ [Next]_vars => [Permits!Accrue \/ Permits!Take]_(Refilled \div TicksPerToken)
  <2> SUFFICES ASSUME BurstInv, [Next]_vars
               PROVE  \/ PermitsNow < Capacity /\ PermitsNow' = PermitsNow + 1
                      \/ PermitsNow > 0 /\ PermitsNow' = PermitsNow - 1
                      \/ PermitsNow' = PermitsNow
    BY DEF Permits!Accrue, Permits!Take, PermitsNow
  <2>1. CASE Tick
    BY <2>1, TickAccrues
  <2>2. CASE \E c \in Callers : Grant(c)
    BY <2>2, GrantTakes
  <2>3. CASE \E c \in Callers : Wait(c)
    BY <2>3, WaitKeeps DEF PermitsNow
  <2>4. CASE UNCHANGED vars
    BY <2>4 DEF vars, Refilled, Full, PermitsNow
  <2>5. QED
    BY <2>1, <2>2, <2>3, <2>4 DEF Next
<1>3. QED
  BY <1>1, <1>2, BurstInvariant, PTL DEF Spec, ImplementsPacer, Permits!Spec

===============================================================================
