---------------------------- MODULE EagerBucket ----------------------------
(***************************************************************************)
(* A token bucket that is refilled at every tick: the textbook bucket with *)
(* no clock, no elapsed time and no sleepers.                              *)
(*                                                                         *)
(* It joins two modules.  TokenBucket, which refills on demand as the code *)
(* does, implements it.  RateLimitedClient keeps its buckets this way, and *)
(* every step of it moves them only as InUse allows.                       *)
(***************************************************************************)
EXTENDS Naturals

CONSTANTS Unit,      \* parts in one token
          Rate,      \* parts that come in with one tick
          Capacity   \* most parts the bucket holds

VARIABLE parts

BucketInit == parts = Capacity

TakeOne == /\ parts >= Unit
           /\ parts' = parts - Unit

\* The end of a 429 pause.
Empty == parts' = 0

\* A new client.
Fresh == parts' = Capacity

TickIn == parts' = IF parts + Rate <= Capacity THEN parts + Rate ELSE Capacity

\* What one client does with its bucket.
InUse == TakeOne \/ Empty \/ TickIn

BucketNext == InUse \/ Fresh

BucketSpec == BucketInit /\ [][BucketNext]_parts
============================================================================
