------------------------- MODULE TokenBucketProofs -------------------------
(***************************************************************************)
(* Proofs about TokenBucket for every rate, capacity, interval, number of  *)
(* callers and bound on the clock.                                         *)
(*                                                                         *)
(* WindowBound alone is not inductive: it does not say what a later take   *)
(* may still add.  The strengthening charges what the bucket could hand    *)
(* out at this instant (Available) to the same bound, so that a take moves *)
(* Unit parts from one side of the sum to the other.  And it allows a full *)
(* bucket only for the clients there really were: a cycle that was started *)
(* raises the allowance when its client is made, not before.               *)
(***************************************************************************)
EXTENDS TokenBucket, TokenBucketOpsProofs

USE DEF Fill

\* The client of the running cycle, if it has been made.
Current == IF served THEN 1 ELSE 0

\* The clients that were in use at some time since instant s: the present one
\* and, if the running cycle began after s, those before it.
Used(s) == IF s <= cycleAt THEN 2 + (cycleAt - s) \div Interval + Current
                           ELSE 1 + Current

\* What the callers got in each open window, and what the bucket would still
\* give at once, is paid for by a burst for each client that was in use and
\* the refill of that window.
WindowCharge ==
    \A s \in 0 .. now :
        (grants - before[s]) * Unit + Available
            <= Capacity * Used(s) + Rate * (now - s)

\* The same since the last reset.
EpochCharge ==
    (grants - epoch.grants) * Unit + Available
        <= epoch.burst + Rate * (now - epoch.at)

IInv == TypeOK /\ WindowCharge /\ EpochCharge
----------------------------------------------------------------------------
\* What the bucket holds at this instant is between _tokens and _max_tokens.
LEMMA AvailableInFill ==
    ASSUME TypeOK
    PROVE  /\ Available \in Fill
           /\ now - lastRefill \in Nat
  <1>1. now - lastRefill \in Nat
    BY MaxTimeAssumption DEF TypeOK
  <1> QED
    BY <1>1, RefillBounds DEF TypeOK, Available

\* Whole intervals of a longer window are no fewer.
LEMMA DivMonotone ==
    ASSUME NEW a \in Nat, NEW b \in Nat, a <= b, NEW n \in Nat \ {0}
    PROVE  /\ a \div n \in Nat
           /\ a \div n <= b \div n
  <1> DEFINE p == a \div n
             q == b \div n
  <1>1. p \in Int /\ n * p <= a /\ a < n * (p + 1)
    OBVIOUS
  <1>2. q \in Int /\ n * q <= b /\ b < n * (q + 1)
    OBVIOUS
  <1> HIDE DEF p, q
  <1>3. n * (q + 1) = n * q + n /\ n * (p + 1) = n * p + n
    BY <1>1, <1>2
  <1>4. ASSUME q < p PROVE FALSE
    <2>1. p >= q + 1
      BY <1>1, <1>2, <1>4
    <2>2. n * p >= n * (q + 1)
      BY <2>1, <1>1, <1>2
    <2> QED
      BY <2>2, <1>1, <1>2
  <1>5. ASSUME p < 0 PROVE FALSE
    <2>1. p + 1 <= 0
      BY <1>1, <1>5
    <2>2. n * (p + 1) <= 0
      BY <2>1, <1>1
    <2> QED
      BY <2>2, <1>1
  <1>6. p \in Nat /\ p <= q
    BY <1>1, <1>2, <1>4, <1>5
  <1> QED
    BY <1>6 DEF p, q

\* A window that is longer by an interval has a whole interval more.
LEMMA DivStep ==
    ASSUME NEW a \in Nat, NEW n \in Nat \ {0}
    PROVE  (a + n) \div n = a \div n + 1
  <1> DEFINE p == a \div n
             q == (a + n) \div n
  <1>1. p \in Int /\ n * p <= a /\ a < n * (p + 1)
    OBVIOUS
  <1>2. q \in Int /\ n * q <= a + n /\ a + n < n * (q + 1)
    OBVIOUS
  <1> HIDE DEF p, q
  <1>3. n * (q + 1) = n * q + n /\ n * (p + 1) = n * p + n
    BY <1>1, <1>2
  <1>4. ASSUME q < p + 1 PROVE FALSE
    <2>1. n * q <= n * p
      BY <1>1, <1>2, <1>4
    <2> QED
      BY <2>1, <1>1, <1>2, <1>3
  <1>5. ASSUME q > p + 1 PROVE FALSE
    <2>1. n * q >= n * (p + 2)
      BY <1>1, <1>2, <1>5
    <2>2. n * (p + 2) = n * p + 2 * n
      BY <1>1
    <2> QED
      BY <2>1, <2>2, <1>1, <1>2, <1>3
  <1>6. q = p + 1
    BY <1>1, <1>2, <1>4, <1>5
  <1> QED
    BY <1>6 DEF p, q

\* A larger allowance pays for no less.
LEMMA AllowanceGrows ==
    ASSUME NEW m \in Nat, NEW n \in Nat
    PROVE  /\ Capacity * m \in Nat
           /\ m <= n => Capacity * m <= Capacity * n
           /\ Capacity * (n + 1) = Capacity * n + Capacity
           /\ Capacity * 1 = Capacity
  BY CapacityAssumption

\* There has been a client in every window, and no more than it can see.
LEMMA UsedBounds ==
    ASSUME TypeOK, NEW s \in 0 .. now
    PROVE  /\ Used(s) \in Nat
           /\ Used(s) >= 1
           /\ Clients(Interval, now - s) \in Nat
           /\ Used(s) <= Clients(Interval, now - s)
  <1>1. /\ now \in Nat /\ cycleAt \in Nat /\ cycleAt <= now /\ s \in Nat
        /\ s <= now /\ served \in BOOLEAN
    BY MaxTimeAssumption DEF TypeOK
  <1>2. Current \in {0, 1}
    BY DEF Current
  <1>3. (now - s) \div Interval \in Nat
    BY <1>1, DivMonotone, IntervalAssumption
  <1>4. CASE s <= cycleAt
    <2>1. /\ (cycleAt - s) \div Interval \in Nat
          /\ (cycleAt - s) \div Interval <= (now - s) \div Interval
      <3>1. cycleAt - s \in Nat /\ now - s \in Nat /\ cycleAt - s <= now - s
        BY <1>1, <1>4
      <3> QED
        BY <3>1, DivMonotone, IntervalAssumption
    <2> QED
      BY <2>1, <1>2, <1>3, <1>4 DEF Used, Clients
  <1>5. CASE ~ (s <= cycleAt)
    BY <1>2, <1>3, <1>5 DEF Used, Clients
  <1> QED
    BY <1>4, <1>5

LEMMA InitIInv == Init => IInv
  <1> SUFFICES ASSUME Init
               PROVE  IInv
    OBVIOUS
  <1>1. Capacity \in Nat
    BY CapacityAssumption
  <1>2. TypeOK
    BY <1>1, MaxTimeAssumption DEF Init, TypeOK
  <1>3. Available = Capacity
    BY <1>1, RefillNothing DEF Init, Available
  <1>4. Rate * 0 = 0 /\ (0 - 0) * Unit = 0
    BY UnitAssumption, RateAssumption
  <1>5. WindowCharge
    <2> SUFFICES ASSUME NEW s \in 0 .. now
                 PROVE  (grants - before[s]) * Unit + Available
                            <= Capacity * Used(s) + Rate * (now - s)
      BY DEF WindowCharge
    <2>1. s = 0 /\ now = 0 /\ grants = 0 /\ before[s] = 0
      BY MaxTimeAssumption DEF Init
    <2>2. Used(s) \in Nat /\ Used(s) >= 1
      BY <1>2, UsedBounds
    <2>3. Capacity <= Capacity * Used(s) /\ Capacity * Used(s) \in Nat
      BY <2>2, AllowanceGrows
    <2> QED
      BY <2>1, <2>3, <1>1, <1>3, <1>4
  <1>6. EpochCharge
    BY <1>1, <1>3, <1>4 DEF Init, EpochCharge
  <1> QED
    BY <1>2, <1>5, <1>6 DEF IInv

\* A turn of acquire() keeps the types.
LEMMA TryTakeTypeOK ==
    ASSUME IInv, NEW c \in Callers, TryTake(c)
    PROVE  TypeOK'
  <1>1. TypeOK /\ Available \in Fill
    BY AvailableInFill DEF IInv
  <1>2. /\ now' = now /\ before' = before /\ epoch' = epoch
        /\ lastRefill' = now /\ cycleAt' = cycleAt /\ served' = served
    BY DEF TryTake, cycleVars
  <1>3. now \in Nat
    BY <1>1, MaxTimeAssumption DEF TypeOK
  <1>4. CASE Take(c)
    <2>1. tokens' \in Fill
      BY <1>1, <1>4, UnitAssumption, CapacityAssumption DEF Take
    <2>2. grants' \in Nat /\ pc' \in [Callers -> {"idle", "asleep"}]
      BY <1>1, <1>4 DEF Take, TypeOK
    <2> QED
      BY <2>1, <2>2, <1>1, <1>2, <1>3, <1>4 DEF Take, TypeOK
  <1>5. CASE Sleep(c)
    <2>1. tokens' \in Fill
      BY <1>1, <1>5 DEF Sleep
    <2>2. now + WaitTime(Available) \in Nat
      BY <1>1, <1>3, <1>5, WaitTimeIsEnough DEF Sleep
    <2>3. /\ grants' \in Nat
          /\ pc' \in [Callers -> {"idle", "asleep"}]
          /\ wakeAt' \in [Callers -> Nat]
      BY <2>2, <1>1, <1>5 DEF Sleep, TypeOK
    <2> QED
      BY <2>1, <2>3, <1>1, <1>2, <1>3 DEF TypeOK
  <1> QED
    BY <1>4, <1>5 DEF TryTake

\* After a turn of acquire(), what was granted and what is left add up to
\* what they were before it.
LEMMA TryTakeMovesParts ==
    ASSUME IInv, NEW c \in Callers, TryTake(c), NEW n \in Nat
    PROVE  (grants' - n) * Unit + Available' = (grants - n) * Unit + Available
  <1>1. TypeOK /\ TypeOK' /\ Available \in Fill
    BY AvailableInFill, TryTakeTypeOK DEF IInv
  <1>2. Available' = tokens'
    <2>1. now' - lastRefill' = 0
      BY <1>1, MaxTimeAssumption DEF TryTake, TypeOK
    <2> QED
      BY <2>1, <1>1, RefillNothing DEF Available, TypeOK
  <1>3. grants \in Nat /\ Unit \in Nat /\ Available \in Nat
    BY <1>1, UnitAssumption, CapacityAssumption DEF TypeOK
  <1>4. CASE Take(c)
    <2>1. grants' = grants + 1 /\ tokens' = Available - Unit
      BY <1>4 DEF Take
    <2>2. (grants + 1 - n) * Unit = (grants - n) * Unit + Unit
      BY <1>3
    <2>3. (grants - n) * Unit \in Int
      BY <1>3
    <2> QED
      BY <2>1, <2>2, <2>3, <1>2, <1>3
  <1>5. CASE Sleep(c)
    BY <1>2, <1>5 DEF Sleep
  <1> QED
    BY <1>4, <1>5 DEF TryTake

LEMMA TryTakeIInv ==
    ASSUME IInv, NEW c \in Callers, TryTake(c)
    PROVE  IInv'
  <1>1. TypeOK /\ TypeOK'
    BY TryTakeTypeOK DEF IInv
  <1>2. /\ now' = now /\ before' = before /\ epoch' = epoch
        /\ cycleAt' = cycleAt /\ served' = served
    BY DEF TryTake, cycleVars
  <1>3. WindowCharge'
    <2> SUFFICES ASSUME NEW s \in 0 .. now'
                 PROVE  (grants' - before'[s]) * Unit + Available'
                            <= Capacity * Used(s)' + Rate * (now' - s)
      BY DEF WindowCharge
    <2>0. Used(s)' = Used(s)
      BY <1>2 DEF Used, Current
    <2>1. s \in 0 .. MaxTime /\ s \in 0 .. now
      BY <1>1, <1>2, MaxTimeAssumption DEF TypeOK
    <2>2. before[s] \in Nat
      BY <2>1, <1>1 DEF TypeOK
    <2>3. (grants - before[s]) * Unit + Available
              <= Capacity * Used(s) + Rate * (now - s)
      BY <2>1 DEF IInv, WindowCharge
    <2> QED
      BY <2>0, <2>2, <2>3, <1>2, TryTakeMovesParts
  <1>4. EpochCharge'
    <2>1. epoch.grants \in Nat
      BY <1>1 DEF TypeOK
    <2> QED
      BY <2>1, <1>2, TryTakeMovesParts DEF IInv, EpochCharge
  <1> QED
    BY <1>1, <1>3, <1>4 DEF IInv

LEMMA ResetIInv ==
    ASSUME IInv, ResetTokens
    PROVE  IInv'
  <1>1. TypeOK /\ Capacity \in Nat /\ now \in Nat /\ grants \in Nat
    BY CapacityAssumption, MaxTimeAssumption DEF IInv, TypeOK
  <1>2. TypeOK'
    BY <1>1 DEF ResetTokens, TypeOK, cycleVars
  <1>3. Available' = 0
    <2>1. now' - lastRefill' = 0 /\ tokens' = 0
      BY <1>1 DEF ResetTokens
    <2>2. tokens' \in Fill
      BY <2>1, <1>1
    <2> QED
      BY <2>1, <2>2, RefillNothing DEF Available
  <1>4. WindowCharge'
    <2> SUFFICES ASSUME NEW s \in 0 .. now
                 PROVE  (grants - before[s]) * Unit + 0
                            <= Capacity * Used(s) + Rate * (now - s)
      BY <1>3 DEF ResetTokens, WindowCharge, Used, Current, cycleVars
    <2>1. (grants - before[s]) * Unit + Available
              <= Capacity * Used(s) + Rate * (now - s)
      BY DEF IInv, WindowCharge
    <2>2. before[s] \in Nat
      BY <1>1, MaxTimeAssumption DEF TypeOK
    <2>3. Available \in Nat
      BY <1>1, AvailableInFill
    <2>4. (grants - before[s]) * Unit \in Int /\ Rate * (now - s) \in Int
      BY <2>2, <1>1, UnitAssumption, RateAssumption
    <2>5. Capacity * Used(s) \in Nat
      BY <1>1, UsedBounds, AllowanceGrows
    <2> QED
      BY <2>1, <2>3, <2>4, <2>5, <1>1
  <1>5. EpochCharge'
    <2>1. /\ epoch'.grants = grants /\ epoch'.at = now /\ epoch'.burst = 0
          /\ grants' = grants /\ now' = now
      BY DEF ResetTokens
    <2>2. (grants - grants) * Unit = 0 /\ Rate * (now - now) = 0
      BY <1>1, UnitAssumption, RateAssumption
    <2> QED
      BY <2>1, <2>2, <1>3 DEF EpochCharge
  <1> QED
    BY <1>2, <1>4, <1>5 DEF IInv

\* One tick adds at most Rate parts to what the bucket would hand out.
LEMMA TickAvailable ==
    ASSUME TypeOK, Tick
    PROVE  /\ Available' \in Fill
           /\ Available' <= Available + Rate
  <1> DEFINE e == now - lastRefill
  <1>1. e \in Nat /\ tokens \in Fill /\ now \in Nat /\ lastRefill \in Nat
    BY MaxTimeAssumption DEF TypeOK
  <1>2. now' - lastRefill' = e + 1 /\ tokens' = tokens
    BY <1>1 DEF Tick
  <1> HIDE DEF e
  <1>3. Available' = Refill(Refill(tokens, e), 1)
    BY <1>1, <1>2, RefillComposes DEF Available
  <1>4. Available = Refill(tokens, e)
    BY DEF Available, e
  <1>5. Refill(tokens, e) \in Fill
    BY <1>1, RefillBounds
  <1>6. 1 * Rate = Rate
    BY RateAssumption
  <1> QED
    BY <1>3, <1>4, <1>5, <1>6, RefillBounds

\* A tick raises a charge by at most Rate, and its bound by Rate.
LEMMA ChargeRate ==
    ASSUME NEW paid \in Int, NEW old \in Nat, NEW new \in Nat,
           NEW base \in Nat, NEW bound \in Int,
           paid + old <= base + bound, new <= old + Rate
    PROVE  paid + new <= base + (bound + Rate)
  BY RateAssumption

LEMMA TickIInv ==
    ASSUME IInv, Tick
    PROVE  IInv'
  <1>1. TypeOK /\ Available \in Fill /\ now \in Nat /\ grants \in Nat
    BY AvailableInFill, MaxTimeAssumption DEF IInv, TypeOK
  <1>2. TypeOK'
    BY <1>1, MaxTimeAssumption DEF Tick, TypeOK, cycleVars
  <1>3. Available' \in Fill /\ Available' <= Available + Rate
    BY <1>1, TickAvailable
  <1>4. Capacity \in Nat /\ Rate \in Nat /\ Unit \in Nat
    BY UnitAssumption, RateAssumption, CapacityAssumption
  <1>5. WindowCharge'
    <2> SUFFICES ASSUME NEW s \in 0 .. now'
                 PROVE  (grants' - before'[s]) * Unit + Available'
                            <= Capacity * Used(s)' + Rate * (now' - s)
      BY DEF WindowCharge
    <2>1. now' = now + 1 /\ grants' = grants
      BY DEF Tick
    <2>0. Used(s)' = Used(s)
      BY DEF Tick, cycleVars, Used, Current
    <2>4. Used(s) \in Nat /\ Used(s) >= 1
      <3>1. CASE s \in 0 .. now
        BY <3>1, <1>1, UsedBounds
      <3>2. CASE s = now + 1
        <4>1. ~ (s <= cycleAt)
          BY <3>2, <1>1 DEF TypeOK
        <4> QED
          BY <4>1 DEF Used, Current
      <3> QED
        BY <3>1, <3>2, <2>1, <1>1
    <2>5. Capacity <= Capacity * Used(s) /\ Capacity * Used(s) \in Nat
      BY <2>4, AllowanceGrows
    <2>2. CASE s = now + 1
      <3>1. before'[s] = grants
        BY <2>2, <1>1, MaxTimeAssumption DEF Tick, TypeOK
      <3>2. (grants - grants) * Unit = 0 /\ Rate * (now + 1 - s) = 0
        BY <2>2, <1>1, <1>4
      <3> QED
        BY <3>1, <3>2, <2>0, <2>1, <2>5, <1>3, <1>4
    <2>3. CASE s # now + 1
      <3>1. s \in 0 .. now /\ s \in Nat
        BY <2>1, <2>3, <1>1
      <3>2. before'[s] = before[s] /\ before[s] \in Nat
        BY <3>1, <2>3, <1>1, MaxTimeAssumption DEF Tick, TypeOK
      <3>3. (grants - before[s]) * Unit + Available
                <= Capacity * Used(s) + Rate * (now - s)
        BY <3>1 DEF IInv, WindowCharge
      <3>4. Rate * (now + 1 - s) = Rate * (now - s) + Rate
        BY <3>1, <1>1, <1>4
      <3>5. Rate * (now - s) \in Int /\ (grants - before[s]) * Unit \in Int
        BY <3>1, <3>2, <1>1, <1>4
      <3> QED
        BY <3>2, <3>3, <3>4, <3>5, <2>0, <2>1, <2>5, <1>1, <1>3, <1>4
    <2> QED
      BY <2>2, <2>3
  <1>6. EpochCharge'
    <2>1. epoch.at \in Nat /\ epoch.grants \in Nat /\ epoch.burst \in Nat
      BY <1>1, <1>4 DEF TypeOK
    <2>2. now' = now + 1 /\ grants' = grants /\ epoch' = epoch
      BY DEF Tick
    <2>3. (grants - epoch.grants) * Unit + Available
              <= epoch.burst + Rate * (now - epoch.at)
      BY DEF IInv, EpochCharge
    <2>4. Rate * (now + 1 - epoch.at) = Rate * (now - epoch.at) + Rate
      BY <2>1, <1>1, <1>4
    <2>5. Rate * (now - epoch.at) \in Int /\ (grants - epoch.grants) * Unit \in Int
      BY <2>1, <1>1, <1>4
    <2>6. Available \in Nat /\ Available' \in Nat
      BY <1>1, <1>3, <1>4
    <2>7. (grants - epoch.grants) * Unit + Available'
              <= epoch.burst + Rate * (now + 1 - epoch.at)
      BY <2>1, <2>3, <2>4, <2>5, <2>6, <1>3, <1>4, ChargeRate
    <2>8. (grants' - epoch'.grants) * Unit + Available'
              <= epoch'.burst + Rate * (now' - epoch'.at)
      <3>1. (grants' - epoch'.grants) * Unit = (grants - epoch.grants) * Unit
        BY <2>2
      <3>2. Rate * (now' - epoch'.at) = Rate * (now + 1 - epoch.at)
        <4>1. now' - epoch'.at = now + 1 - epoch.at
          BY <2>1, <2>2, <1>1
        <4> QED
          BY <4>1
      <3>3. epoch'.burst = epoch.burst
        BY <2>2
      <3> QED
        BY <3>1, <3>2, <3>3, <2>7
    <2> QED
      BY <2>8 DEF EpochCharge
  <1> QED
    BY <1>2, <1>5, <1>6 DEF IInv

\* A cycle that starts allows no client before it is made.
LEMMA BeginCycleIInv ==
    ASSUME IInv, BeginCycle
    PROVE  IInv'
  <1>1. /\ TypeOK /\ now \in Nat /\ cycleAt \in Nat /\ grants \in Nat
        /\ Interval \in Nat \ {0} /\ now >= cycleAt + Interval
        /\ served \in BOOLEAN
    BY MaxTimeAssumption, IntervalAssumption DEF IInv, TypeOK, BeginCycle
  <1>2. /\ now' = now /\ grants' = grants /\ before' = before /\ epoch' = epoch
        /\ Available' = Available /\ cycleAt' = now /\ served' = FALSE
    BY DEF BeginCycle, Available
  <1>3. TypeOK'
    <2>1. cycleAt' \in 0 .. now' /\ served' \in BOOLEAN
      <3>1. now \in 0 .. now
        BY <1>1
      <3>2. cycleAt' = now /\ now' = now /\ served' = FALSE
        BY <1>2
      <3> QED
        BY <3>1, <3>2, Zenon
    <2>2. /\ now' = now /\ tokens' = tokens /\ lastRefill' = lastRefill
          /\ pc' = pc /\ wakeAt' = wakeAt /\ grants' = grants
          /\ before' = before /\ epoch' = epoch
      BY DEF BeginCycle
    <2> QED
      BY <2>1, <2>2, <1>1 DEF TypeOK
  <1>4. WindowCharge'
    <2> SUFFICES ASSUME NEW s \in 0 .. now
                 PROVE  (grants - before[s]) * Unit + Available
                            <= Capacity * Used(s)' + Rate * (now - s)
      BY <1>2 DEF WindowCharge
    <2>1. s \in Nat /\ s <= now
      BY <1>1
    <2>2. Used(s)' = 2 + (now - s) \div Interval
      BY <2>1, <1>1, <1>2 DEF Used, Current
    <2>3. (now - s) \div Interval \in Nat
      BY <2>1, <1>1, DivMonotone
    <2>4. Used(s) <= Used(s)'
      <3>1. CASE s <= cycleAt
        <4>1. /\ cycleAt - s \in Nat /\ now - s \in Nat
              /\ cycleAt - s + Interval \in Nat
              /\ cycleAt - s + Interval <= now - s
          BY <3>1, <2>1, <1>1
        <4>2. (cycleAt - s + Interval) \div Interval <= (now - s) \div Interval
          BY <4>1, <1>1, DivMonotone
        <4>3. (cycleAt - s + Interval) \div Interval
                  = (cycleAt - s) \div Interval + 1
          BY <4>1, <1>1, DivStep
        <4>4. (cycleAt - s) \div Interval \in Nat
          BY <4>1, <1>1, DivMonotone
        <4> QED
          BY <4>2, <4>3, <4>4, <3>1, <2>2, <2>3 DEF Used, Current
      <3>2. CASE ~ (s <= cycleAt)
        BY <3>2, <2>2, <2>3 DEF Used, Current
      <3> QED
        BY <3>1, <3>2
    <2>5. Used(s) \in Nat /\ Used(s)' \in Nat
      BY <2>2, <2>3, <1>1, UsedBounds
    <2>6. /\ Capacity * Used(s) <= Capacity * Used(s)'
          /\ Capacity * Used(s) \in Nat /\ Capacity * Used(s)' \in Nat
      BY <2>4, <2>5, AllowanceGrows
    <2>7. (grants - before[s]) * Unit + Available
              <= Capacity * Used(s) + Rate * (now - s)
      BY DEF IInv, WindowCharge
    <2>0. before[s] \in Nat /\ Available \in Fill
      BY <2>1, <1>1, AvailableInFill, MaxTimeAssumption DEF TypeOK
    <2>8. /\ (grants - before[s]) * Unit \in Int /\ Rate * (now - s) \in Int
          /\ Available \in Int
      BY <2>0, <2>1, <1>1, UnitAssumption, RateAssumption, CapacityAssumption
    <2> QED
      BY <2>6, <2>7, <2>8
  <1>5. EpochCharge'
    BY <1>2 DEF IInv, EpochCharge
  <1> QED
    BY <1>3, <1>4, <1>5 DEF IInv

\* A new client brings a full bucket and is allowed one.
LEMMA NewClientIInv ==
    ASSUME IInv, NewClient
    PROVE  IInv'
  <1>1. /\ TypeOK /\ now \in Nat /\ cycleAt \in Nat /\ grants \in Nat
        /\ Capacity \in Nat /\ served = FALSE
    BY MaxTimeAssumption, CapacityAssumption DEF IInv, TypeOK, NewClient
  <1>2. /\ now' = now /\ grants' = grants /\ before' = before
        /\ cycleAt' = cycleAt /\ served' = TRUE
    BY DEF NewClient
  <1>3. TypeOK'
    BY <1>1 DEF NewClient, TypeOK
  <1>4. Available' = Capacity
    <2>1. now' - lastRefill' = 0 /\ tokens' = Capacity
      BY <1>1 DEF NewClient
    <2>2. Capacity \in Fill
      BY <1>1
    <2> QED
      BY <2>1, <2>2, RefillNothing DEF Available
  <1>5. WindowCharge'
    <2> SUFFICES ASSUME NEW s \in 0 .. now
                 PROVE  (grants - before[s]) * Unit + Capacity
                            <= Capacity * Used(s)' + Rate * (now - s)
      BY <1>2, <1>4 DEF WindowCharge
    <2>1. s \in Nat /\ Used(s) \in Nat
      BY <1>1, UsedBounds
    <2>2. Used(s)' = Used(s) + 1
      <3>1. CASE s <= cycleAt
        <4>1. (cycleAt - s) \div Interval \in Nat
          BY <3>1, <2>1, <1>1, DivMonotone, IntervalAssumption
        <4> QED
          BY <4>1, <3>1, <1>1, <1>2 DEF Used, Current
      <3>2. CASE ~ (s <= cycleAt)
        BY <3>2, <1>1, <1>2 DEF Used, Current
      <3> QED
        BY <3>1, <3>2
    <2>3. /\ Capacity * Used(s)' = Capacity * Used(s) + Capacity
          /\ Capacity * Used(s) \in Nat
      BY <2>1, <2>2, AllowanceGrows
    <2>4. (grants - before[s]) * Unit + Available
              <= Capacity * Used(s) + Rate * (now - s)
      BY DEF IInv, WindowCharge
    <2>0. before[s] \in Nat /\ Available \in Fill
      BY <2>1, <1>1, AvailableInFill, MaxTimeAssumption DEF TypeOK
    <2>5. /\ (grants - before[s]) * Unit \in Int /\ Rate * (now - s) \in Int
          /\ Available \in Nat
      BY <2>0, <2>1, <1>1, UnitAssumption, RateAssumption
    <2> QED
      BY <2>3, <2>4, <2>5, <1>1
  <1>6. EpochCharge'
    <2>1. /\ epoch'.grants = grants /\ epoch'.at = now
          /\ epoch'.burst = Capacity
      BY DEF NewClient
    <2>2. (grants - grants) * Unit = 0 /\ Rate * (now - now) = 0
      BY <1>1, UnitAssumption, RateAssumption
    <2> QED
      BY <2>1, <2>2, <1>1, <1>2, <1>4 DEF EpochCharge
  <1> QED
    BY <1>3, <1>5, <1>6 DEF IInv

LEMMA StepIInv == IInv /\ [Next]_vars => IInv'
  <1> SUFFICES ASSUME IInv, [Next]_vars
               PROVE  IInv'
    OBVIOUS
  <1>1. ASSUME NEW c \in Callers, Acquire(c) PROVE IInv'
    BY <1>1, TryTakeIInv DEF Acquire
  <1>2. ASSUME NEW c \in Callers, Wake(c) PROVE IInv'
    BY <1>2, TryTakeIInv DEF Wake
  <1>3. CASE ResetTokens
    BY <1>3, ResetIInv
  <1>4. CASE Tick
    BY <1>4, TickIInv
  <1>5. CASE UNCHANGED vars
    BY <1>5 DEF vars, cycleVars, IInv, TypeOK, WindowCharge, EpochCharge,
                Available, Used, Current
  <1>6. CASE BeginCycle
    BY <1>6, BeginCycleIInv
  <1>7. CASE NewClient
    BY <1>7, NewClientIInv
  <1> QED
    BY <1>1, <1>2, <1>3, <1>4, <1>5, <1>6, <1>7 DEF Next

\* The inductive invariant holds throughout.
LEMMA InductiveInvariant == Spec => []IInv
  BY InitIInv, StepIInv, PTL DEF Spec
----------------------------------------------------------------------------
\* The bucket always holds between nothing and _max_tokens, and its clock
\* never runs ahead of the loop's.
THEOREM TypeCorrect == Spec => []TypeOK
  <1>1. IInv => TypeOK
    BY DEF IInv
  <1> QED
    BY <1>1, InductiveInvariant, PTL

\* In every window of time acquire() returns at most the refill of the window
\* and a full bucket for each client that the window can see: the limit that
\* TokenBucket enforces on the server's behalf, for every number of callers
\* and cycles and every order in which they run.
THEOREM WindowBoundHolds == Spec => []WindowBound
  <1>1. IInv => WindowBound
    <2> SUFFICES ASSUME IInv, NEW s \in 0 .. now
                 PROVE  (grants - before[s]) * Unit
                            <= Capacity * Clients(Interval, now - s)
                               + Rate * (now - s)
      BY DEF WindowBound
    <2>1. TypeOK /\ Available \in Nat /\ Capacity \in Nat
      BY AvailableInFill, CapacityAssumption DEF IInv
    <2>2. before[s] \in Nat /\ grants \in Nat /\ now \in Nat /\ s \in Nat
      BY <2>1, MaxTimeAssumption DEF TypeOK
    <2>3. (grants - before[s]) * Unit + Available
              <= Capacity * Used(s) + Rate * (now - s)
      BY DEF IInv, WindowCharge
    <2>4. (grants - before[s]) * Unit \in Int /\ Rate * (now - s) \in Int
      BY <2>2, UnitAssumption, RateAssumption
    <2>5. /\ Capacity * Used(s) <= Capacity * Clients(Interval, now - s)
          /\ Capacity * Used(s) \in Nat
          /\ Capacity * Clients(Interval, now - s) \in Nat
      BY <2>1, UsedBounds, AllowanceGrows
    <2> QED
      BY <2>1, <2>3, <2>4, <2>5
  <1> QED
    BY <1>1, InductiveInvariant, PTL

\* After reset_tokens() acquire() returns only what was refilled since: the
\* 429 pause is never followed by a burst of the bucket's old contents.
THEOREM NoBurstAfterResetHolds == Spec => []NoBurstAfterReset
  <1>1. IInv => NoBurstAfterReset
    <2> SUFFICES ASSUME IInv
                 PROVE  (grants - epoch.grants) * Unit
                            <= epoch.burst + Rate * (now - epoch.at)
      BY DEF NoBurstAfterReset
    <2> DEFINE a == epoch.at
               g == epoch.grants
               b == epoch.burst
    <2>1. TypeOK /\ Available \in Nat /\ Capacity \in Nat
      BY AvailableInFill, CapacityAssumption DEF IInv
    <2>2. a \in Nat /\ g \in Nat /\ b \in Nat /\ grants \in Nat /\ now \in Nat
      BY <2>1, MaxTimeAssumption DEF TypeOK
    <2>3. (grants - g) * Unit + Available <= b + Rate * (now - a)
      BY DEF IInv, EpochCharge
    <2>4. (grants - g) * Unit \in Int /\ Rate * (now - a) \in Int
      BY <2>2, UnitAssumption, RateAssumption
    <2>5. (grants - g) * Unit <= b + Rate * (now - a)
      <3> HIDE DEF a, g, b
      <3> QED
        BY <2>1, <2>2, <2>3, <2>4
    <2> QED
      BY <2>5
  <1> QED
    BY <1>1, InductiveInvariant, PTL
----------------------------------------------------------------------------
(* The bucket that is refilled at every tick.                              *)

\* A tick of the clock refills what the bucket would hand out by one tick: the
\* refill that is still due grows, and refills compose.
LEMMA TickIsTickIn ==
    ASSUME TypeOK, Tick
    PROVE  Eager!TickIn
  <1> DEFINE e == now - lastRefill
             p == Refill(tokens, e)
  <1>1. e \in Nat /\ tokens \in Fill /\ now \in Nat /\ lastRefill \in Nat
    BY MaxTimeAssumption DEF TypeOK
  <1>2. now' - lastRefill' = e + 1 /\ tokens' = tokens
    BY <1>1 DEF Tick
  <1> HIDE DEF e
  <1>3. Available' = Refill(p, 1)
    BY <1>1, <1>2, RefillComposes DEF Available
  <1>4. Available = p
    BY DEF Available, e
  <1>5. p \in Nat /\ 1 * Rate = Rate
    <2>1. p \in Fill
      BY <1>1, RefillBounds
    <2> HIDE DEF p
    <2> QED
      BY <2>1, CapacityAssumption, RateAssumption
  <1> HIDE DEF p
  <1>6. Available' = IF p + Rate <= Capacity THEN p + Rate ELSE Capacity
    BY <1>3, <1>5 DEF Refill
  <1> QED
    BY <1>4, <1>6 DEF Eager!TickIn

\* A refill on demand changes nothing in what the bucket would hand out.
LEMMA RefilledNow ==
    ASSUME TypeOK, NEW parts \in Fill, tokens' = parts, lastRefill' = now, now' = now
    PROVE  Available' = parts
  <1>1. now' - lastRefill' = 0
    BY MaxTimeAssumption DEF TypeOK
  <1> QED
    BY <1>1, RefillNothing DEF Available

\* Each step of the bucket is one of the eager bucket or leaves it alone.
LEMMA StepIsEager == TypeOK /\ [Next]_vars => [Eager!BucketNext]_Available
  <1> SUFFICES ASSUME TypeOK, [Next]_vars
               PROVE  Eager!BucketNext \/ UNCHANGED Available
    OBVIOUS
  <1>0. Available \in Fill /\ 0 \in Fill /\ Capacity \in Fill
    BY AvailableInFill, CapacityAssumption
  <1>1. ASSUME NEW c \in Callers, TryTake(c)
        PROVE  Eager!TakeOne \/ UNCHANGED Available
    <2>1. lastRefill' = now /\ now' = now
      BY <1>1 DEF TryTake
    <2>2. CASE Take(c)
      <3>1. Available >= Unit /\ tokens' = Available - Unit
        BY <2>2 DEF Take
      <3>2. Available - Unit \in Fill
        BY <3>1, <1>0, UnitAssumption, CapacityAssumption
      <3>3. Available' = Available - Unit
        BY <2>1, <3>1, <3>2, RefilledNow
      <3> QED
        BY <3>1, <3>3 DEF Eager!TakeOne
    <2>3. CASE Sleep(c)
      BY <1>0, <2>1, <2>3, RefilledNow DEF Sleep
    <2> QED
      BY <1>1, <2>2, <2>3 DEF TryTake
  <1>2. CASE ResetTokens
    BY <1>0, <1>2, RefilledNow DEF ResetTokens, Eager!Empty, Eager!InUse, Eager!BucketNext
  <1>3. CASE Tick
    BY <1>3, TickIsTickIn DEF Eager!InUse, Eager!BucketNext
  <1>4. CASE BeginCycle \/ UNCHANGED vars
    BY <1>4 DEF BeginCycle, vars, Available
  <1>5. CASE NewClient
    BY <1>0, <1>5, RefilledNow DEF NewClient, Eager!Fresh, Eager!BucketNext
  <1> QED
    BY <1>1, <1>2, <1>3, <1>4, <1>5 DEF Next, Acquire, Wake, Eager!InUse, Eager!BucketNext

\* The lazy refill of the code and a refill at every tick are the same bucket,
\* whoever sleeps, wakes late, resets it or replaces it.
THEOREM BucketImplementsEagerBucket == Spec => ImplementsEagerBucket
  <1>1. Init => Eager!BucketInit
    <2> SUFFICES ASSUME Init
                 PROVE  Available = Capacity
      BY DEF Eager!BucketInit
    <2>1. now - lastRefill = 0 /\ tokens = Capacity /\ Capacity \in Fill
      BY CapacityAssumption DEF Init
    <2> QED
      BY <2>1, RefillNothing DEF Available
  <1> QED
    BY <1>1, StepIsEager, TypeCorrect, PTL
       DEF Spec, ImplementsEagerBucket, Eager!BucketSpec
============================================================================
