-------------------------- MODULE TokenBucketOps --------------------------
(***************************************************************************)
(* The arithmetic of TokenBucket (rate_limiter.py), shared by the module   *)
(* of the bucket itself and by the module of the client that uses it.      *)
(*                                                                         *)
(* The code keeps floats; here a token is Unit indivisible parts, time is  *)
(* counted in ticks and Rate parts are refilled per tick, so that every    *)
(* quantity is a natural number.  With the code's values (2 tokens per     *)
(* second, at most 10) and a tick of 1/4 s: Unit = 2, Rate = 1,            *)
(* Capacity = 20.                                                          *)
(***************************************************************************)
EXTENDS Integers

CONSTANTS Unit,      \* parts in one token
          Rate,      \* parts refilled in one tick (_rate)
          Capacity   \* most parts the bucket holds (_max_tokens)

ASSUME UnitAssumption == Unit \in Nat \ {0}
ASSUME RateAssumption == Rate \in Nat \ {0}
ASSUME CapacityAssumption == Capacity \in Nat /\ Capacity >= Unit

Fill == 0 .. Capacity

\* Fault variant of Refill: the cap on the burst is lost.
RefillUncapped(parts, elapsed) == parts + elapsed * Rate

\* _refill: what the bucket holds after elapsed ticks without a take.
Refill(parts, elapsed) ==
    IF parts + elapsed * Rate <= Capacity THEN parts + elapsed * Rate
                                          ELSE Capacity

\* (1.0 - _tokens) / _rate: the sleep of a caller that found less than one
\* token, rounded up to a whole tick (a timer never fires early).
WaitTime(parts) == (Unit - parts + Rate - 1) \div Rate

\* How many clients of one workspace a window of so many ticks can see, when
\* cycles start at least interval ticks apart.
Clients(interval, window) == 3 + window \div interval
============================================================================
