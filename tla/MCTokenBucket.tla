--------------------------- MODULE MCTokenBucket ---------------------------
(***************************************************************************)
(* TokenBucket on a small instance: three callers, a token of 3 parts, 2   *)
(* parts per tick and a bucket of 7 parts, so that waits are rounded up    *)
(* and the cap cuts a refill short.                                        *)
(***************************************************************************)
EXTENDS TokenBucket, TLC

CallerSymmetry == Permutations(Callers)
============================================================================
