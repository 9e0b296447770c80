---------------------------- MODULE TokenBucket ----------------------------
(***************************************************************************)
(* TokenBucket of rate_limiter.py with the coroutines that call acquire()  *)
(* and the 429 handler that calls reset_tokens().                          *)
(*                                                                         *)
(* acquire() awaits only in its asyncio.sleep: nothing is awaited while    *)
(* _lock is held, so the lock is never contended and each turn of its loop *)
(* (refill, then take a token or compute the sleep) is one atomic step.    *)
(* A sleeper may wake late (the event loop was busy), never early, and it  *)
(* has no claim on the token it waited for: whoever runs first takes it.   *)
(*                                                                         *)
(* The bucket is that of one workspace over many cycles: _run_workspace()  *)
(* makes a client, and with it a full bucket, in each.  Cycles are at      *)
(* least Interval apart and do not overlap (SpacedCycles, which Scheduler  *)
(* implements), but within its cycle a workspace may wait as long as it    *)
(* likes for its slot.                                                     *)
(*                                                                         *)
(* grants, before and epoch are history variables: the code does not keep  *)
(* them, and no action reads them.                                         *)
(***************************************************************************)
EXTENDS TokenBucketOps

CONSTANTS Callers,    \* the coroutines that share the bucket
          Interval,   \* ticks between two cycles (extraction_interval)
          MaxTime     \* bound: the clock stops here

ASSUME IntervalAssumption == Interval \in Nat \ {0}
ASSUME MaxTimeAssumption == MaxTime \in Nat

VARIABLES now,         \* loop.time()
          tokens,      \* _tokens
          lastRefill,  \* _last_refill
          pc,          \* idle, or asleep in acquire()
          wakeAt,      \* when the sleep of a caller ends
          cycleAt,     \* when the last cycle was started
          served,      \* it has made its client for the workspace
          grants,      \* history: acquire() returned this many times
          before,      \* history: before[s] of them before instant s
          epoch        \* history: the last reset, or the creation

cycleVars == <<cycleAt, served>>
vars == <<now, tokens, lastRefill, pc, wakeAt, cycleVars, grants, before, epoch>>

TypeOK == /\ now \in 0 .. MaxTime
          /\ tokens \in Fill
          /\ lastRefill \in 0 .. now
          /\ pc \in [Callers -> {"idle", "asleep"}]
          /\ wakeAt \in [Callers -> Nat]
          /\ cycleAt \in 0 .. now
          /\ served \in BOOLEAN
          /\ grants \in Nat
          /\ before \in [0 .. MaxTime -> Nat]
          /\ epoch \in [at : 0 .. now, grants : Nat, burst : Fill]

Init == /\ now = 0
        /\ tokens = Capacity
        /\ lastRefill = 0
        /\ pc = [c \in Callers |-> "idle"]
        /\ wakeAt = [c \in Callers |-> 0]
        /\ cycleAt = 0
        /\ served = TRUE
        /\ grants = 0
        /\ before = [s \in 0 .. MaxTime |-> 0]
        /\ epoch = [at |-> 0, grants |-> 0, burst |-> Capacity]

\* What the bucket would hold if _refill ran at this instant.
Available == Refill(tokens, now - lastRefill)
----------------------------------------------------------------------------
\* acquire() finds a token, takes it and returns.
Take(c) ==
    /\ Available >= Unit
    /\ tokens' = Available - Unit
    /\ pc' = [pc EXCEPT ![c] = "idle"]
    /\ grants' = grants + 1
    /\ UNCHANGED wakeAt

\* acquire() finds less than a token and sleeps until one should be there.
Sleep(c) ==
    /\ Available < Unit
    /\ tokens' = Available
    /\ pc' = [pc EXCEPT ![c] = "asleep"]
    /\ wakeAt' = [wakeAt EXCEPT ![c] = now + WaitTime(Available)]
    /\ UNCHANGED grants

\* One turn of acquire()'s loop; _refill sets _last_refill on each.
TryTake(c) ==
    /\ Take(c) \/ Sleep(c)
    /\ lastRefill' = now
    /\ UNCHANGED <<now, cycleVars, before, epoch>>

\* A caller enters acquire().
Acquire(c) == /\ pc[c] = "idle"
              /\ TryTake(c)

\* The sleep of a caller is over: it goes round the loop again.
Wake(c) == /\ pc[c] = "asleep"
           /\ now >= wakeAt[c]
           /\ TryTake(c)

\* Fault variant of ResetTokens: the time before the reset is refilled again.
ResetKeepsRefillTime ==
    /\ tokens' = 0
    /\ epoch' = [at |-> now, grants |-> grants, burst |-> 0]
    /\ UNCHANGED <<now, lastRefill, pc, wakeAt, cycleVars, grants, before>>

\* reset_tokens(), called by the 429 handler when its pause is over.
ResetTokens ==
    /\ tokens' = 0
    /\ lastRefill' = now
    /\ epoch' = [at |-> now, grants |-> grants, burst |-> 0]
    /\ UNCHANGED <<now, pc, wakeAt, cycleVars, grants, before>>

\* Fault variant of BeginCycle: the interval is not waited for.
BeginCycleAtOnce ==
    /\ cycleAt' = now
    /\ served' = FALSE
    /\ UNCHANGED <<now, tokens, lastRefill, pc, wakeAt, grants, before, epoch>>

\* The next cycle is started.
BeginCycle ==
    /\ now >= cycleAt + Interval
    /\ cycleAt' = now
    /\ served' = FALSE
    /\ UNCHANGED <<now, tokens, lastRefill, pc, wakeAt, grants, before, epoch>>

\* The workspace has its slot in the cycle: a client with a bucket of its own.
\* Callers that were left behind on the old one send nothing any more.
NewClient ==
    /\ ~ served
    /\ served' = TRUE
    /\ tokens' = Capacity
    /\ lastRefill' = now
    /\ pc' = [c \in Callers |-> "idle"]
    /\ epoch' = [at |-> now, grants |-> grants, burst |-> Capacity]
    /\ UNCHANGED <<now, wakeAt, cycleAt, grants, before>>

\* Time passes.
Tick == /\ now < MaxTime
        /\ now' = now + 1
        /\ before' = [before EXCEPT ![now + 1] = grants]
        /\ UNCHANGED <<tokens, lastRefill, pc, wakeAt, cycleVars, grants, epoch>>

Next == \/ \E c \in Callers : Acquire(c) \/ Wake(c)
        \/ ResetTokens
        \/ BeginCycle
        \/ NewClient
        \/ Tick

Spec == Init /\ [][Next]_vars
----------------------------------------------------------------------------
\* The rate limit as the server sees it: in every window of time that ends
\* now, acquire() returned at most what was refilled during the window and
\* one full bucket for each client that can have been in use: the one at its
\* start, a late one of the cycle that was running then, and one for each
\* cycle that can start in it.
WindowBound ==
    \A s \in 0 .. now :
        (grants - before[s]) * Unit
            <= Capacity * Clients(Interval, now - s) + Rate * (now - s)

\* No burst after a 429 pause: since the last reset_tokens() of the client,
\* acquire() returned no more often than the refill since then pays for,
\* whatever the bucket held before and whoever was asleep in acquire() at the
\* reset.
NoBurstAfterReset ==
    (grants - epoch.grants) * Unit <= epoch.burst + Rate * (now - epoch.at)

Eager == INSTANCE EagerBucket WITH parts <- Available

\* It does not matter that _refill runs only when somebody asks: what the bucket
\* would hand out now is what a bucket holds that is refilled at every tick,
\* across takes, sleeps that end late, resets and new clients.
ImplementsEagerBucket == Eager!BucketSpec
============================================================================
