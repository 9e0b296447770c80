------------------------ MODULE TokenBucketOpsProofs ------------------------
(***************************************************************************)
(* Facts about the arithmetic of the token bucket, for every rate and      *)
(* capacity.                                                               *)
(***************************************************************************)
EXTENDS TokenBucketOps, TLAPS

USE DEF Fill

\* _refill keeps _tokens between what it was and _max_tokens, and adds no
\* more than the elapsed time pays for.
LEMMA RefillBounds ==
    ASSUME NEW p \in Fill, NEW e \in Nat
    PROVE  /\ Refill(p, e) \in Fill
           /\ Refill(p, e) >= p
           /\ Refill(p, e) <= p + e * Rate
  <1>1. e * Rate \in Nat
    BY RateAssumption
  <1>2. Capacity \in Nat /\ p \in Nat /\ p <= Capacity
    BY CapacityAssumption
  <1> QED
    BY <1>1, <1>2 DEF Refill

\* A refill over no time at all changes nothing.
LEMMA RefillNothing ==
    ASSUME NEW p \in Fill
    PROVE  Refill(p, 0) = p
  <1>1. 0 * Rate = 0
    BY RateAssumption
  <1> QED
    BY <1>1, CapacityAssumption DEF Refill

\* Two refills in a row are one refill over both times: it does not matter
\* how often the code calls _refill.
LEMMA RefillComposes ==
    ASSUME NEW p \in Fill, NEW d \in Nat, NEW e \in Nat
    PROVE  Refill(Refill(p, d), e) = Refill(p, d + e)
  <1>1. d * Rate \in Nat /\ e * Rate \in Nat
    BY RateAssumption
  <1>2. (d + e) * Rate = d * Rate + e * Rate
    BY RateAssumption
  <1>3. Capacity \in Nat /\ p \in Nat /\ p <= Capacity
    BY CapacityAssumption
  <1> QED
    BY <1>1, <1>2, <1>3 DEF Refill

\* The sleep that acquire() computes is long enough: a bucket that nobody
\* else touches holds a token when it ends.
LEMMA WaitTimeIsEnough ==
    ASSUME NEW p \in Fill, p < Unit
    PROVE  /\ WaitTime(p) \in Nat
           /\ Refill(p, WaitTime(p)) >= Unit
  <1> DEFINE need == Unit - p + Rate - 1
             q == need \div Rate
  <1>1. need \in Nat /\ Rate \in Nat /\ Rate > 0
    BY UnitAssumption, RateAssumption, CapacityAssumption
  <1>2. q \in Int /\ Rate * q <= need /\ need < Rate * (q + 1)
    <2> HIDE DEF need
    <2> QED
      BY <1>1
  <1>3. Rate * (q + 1) = Rate * q + Rate
    <2> HIDE DEF q
    <2> QED
      BY <1>1, <1>2
  <1>4. Rate * q >= Unit - p
    BY <1>1, <1>2, <1>3, UnitAssumption
  <1>5. q \in Nat
    <2> HIDE DEF q, need
    <2>1. ASSUME q < 0 PROVE FALSE
      <3>1. Rate * q <= 0
        BY <2>1, <1>1, <1>2
      <3>2. Unit \in Nat /\ p \in Nat
        BY UnitAssumption, CapacityAssumption
      <3>3. Rate * q \in Int
        BY <1>1, <1>2
      <3> QED
        BY <3>1, <3>2, <3>3, <1>4
    <2> QED
      BY <2>1, <1>2
  <1>6. q * Rate = Rate * q
    BY <1>1, <1>5
  <1>7. WaitTime(p) = q
    BY DEF WaitTime
  <1> HIDE DEF q
  <1>8. p + q * Rate >= Unit /\ p + q * Rate \in Nat
    BY <1>1, <1>4, <1>5, <1>6, UnitAssumption, CapacityAssumption
  <1> QED
    BY <1>5, <1>7, <1>8, UnitAssumption, CapacityAssumption DEF Refill
============================================================================
