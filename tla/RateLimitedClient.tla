------------------------- MODULE RateLimitedClient -------------------------
(***************************************************************************)
(* RateLimitedClient (rate_limited_client.py): coroutines of several       *)
(* workspaces that share the global request semaphore, each workspace with *)
(* its token bucket and its 429 state, on top of AsanaClient._request with *)
(* its tenacity retries (client.py).                                       *)
(*                                                                         *)
(* One call is                                                             *)
(*    wait_if_paused -> semaphore -> bucket.acquire -> HTTP -> 429 state   *)
(* and a 429 repeats all of it once, by recursion inside the except clause *)
(* of the first attempt: the semaphore slot of the first attempt is kept   *)
(* until the whole call returns.                                           *)
(*                                                                         *)
(* Coroutines switch only where one really suspends: in a sleep, in the    *)
(* queue of the semaphore, in HTTP and in a backoff.  An acquire that      *)
(* finds a slot or a token does not suspend, so what follows it belongs to *)
(* the same step.                                                          *)
(*                                                                         *)
(* Each workspace is extracted through a client of its own; the client of  *)
(* a later cycle is one more element of Workspaces.  A client is closed    *)
(* when extract_workspace() returns or raises, and then a coroutine that   *)
(* gather() left behind may be anywhere in its call.                       *)
(*                                                                         *)
(* Time is in ticks, and timers count down to 0.  A timer that reached 0   *)
(* may be served late.  HTTP and backoffs last as long as they like.  The  *)
(* bucket is refilled at every tick instead of at its next use, which is   *)
(* the same (EagerBucket, which TokenBucket implements).                   *)
(***************************************************************************)
EXTENDS TokenBucketOps, Sequences, FiniteSets

CONSTANTS Callers,        \* coroutines that use the client
          Workspaces,     \* the workspaces, each with its own client
          WorkspaceOf,    \* the workspace a coroutine works for
          MaxConcurrent,  \* slots of GlobalRequestSemaphore
          RetryAfters,    \* pauses, in ticks, that a 429 may ask for
          Max429,         \* MAX_CONSECUTIVE_429S
          MaxAttempts,    \* stop_after_attempt of tenacity
          MaxCalls        \* bound: calls that each coroutine makes in a run

ASSUME CallersAssumption == IsFiniteSet(Callers)
ASSUME WorkspaceAssumption == WorkspaceOf \in [Callers -> Workspaces]
ASSUME LimitsAssumption == /\ MaxConcurrent \in Nat \ {0}
                           /\ RetryAfters \subseteq Nat
                           /\ Max429 \in Nat \ {0}
                           /\ MaxAttempts \in Nat \ {0}
                           /\ MaxCalls \in [Callers -> Nat]

VARIABLES pc,           \* where a coroutine is suspended
          timer,        \* ticks until its sleep ends
          retry,        \* is_retry: it is in the recursive attempt
          attempt,      \* number of the HTTP attempt inside _request
          calls,        \* calls it has begun
          permits,      \* slots of the semaphore that are not taken
          queue,        \* coroutines waiting for a slot, oldest first
          closed,       \* workspaces whose session is closed
          bucket,       \* parts in the bucket of a workspace
          pause,        \* ticks until _pause_until
          consecutive,  \* _consecutive_429s
          streak        \* history: 429 responses since the last success

callerVars == <<pc, timer, retry, attempt, calls>>
slotVars   == <<permits, queue>>
stateVars  == <<bucket, pause, consecutive, streak>>
vars == <<callerVars, slotVars, closed, stateVars>>

Inside == {"throttled", "sending", "backoff", "cooling"}
Places == {"idle", "paused", "queued"} \cup Inside

TypeOK == /\ pc \in [Callers -> Places]
          /\ timer \in [Callers -> Nat]
          /\ retry \in [Callers -> BOOLEAN]
          /\ attempt \in [Callers -> 0 .. MaxAttempts]
          /\ calls \in [Callers -> Nat]
          /\ permits \in 0 .. MaxConcurrent
          /\ queue \in Seq(Callers)
          /\ closed \in SUBSET Workspaces
          /\ bucket \in [Workspaces -> Fill]
          /\ pause \in [Workspaces -> Nat]
          /\ consecutive \in [Workspaces -> Nat]
          /\ streak \in [Workspaces -> Nat]

Init == /\ pc = [c \in Callers |-> "idle"]
        /\ timer = [c \in Callers |-> 0]
        /\ retry = [c \in Callers |-> FALSE]
        /\ attempt = [c \in Callers |-> 0]
        /\ calls = [c \in Callers |-> 0]
        /\ permits = MaxConcurrent
        /\ queue = <<>>
        /\ closed = {}
        /\ bucket = [w \in Workspaces |-> Capacity]
        /\ pause = [w \in Workspaces |-> 0]
        /\ consecutive = [w \in Workspaces |-> 0]
        /\ streak = [w \in Workspaces |-> 0]

Goto(c, place) == pc' = [pc EXCEPT ![c] = place]
----------------------------------------------------------------------------
(* The way into the HTTP call.  b is the state of the buckets in which     *)
(* these operators run: a 429 pause ends with a reset just before.  again  *)
(* is the is_retry of the attempt, free the slots left when it has its own.*)

\* The slots given back when the exception or the result of an attempt
\* leaves every `async with self._semaphore` around it.
Frames(again) == IF again THEN 2 ELSE 1

\* Fault variant of FailUnsent: only the inner `async with` is left.
FailUnsentOnce(c, b, again, free) ==
    /\ Goto(c, "idle")
    /\ permits' = free + 1
    /\ bucket' = b
    /\ retry' = [retry EXCEPT ![c] = FALSE]
    /\ attempt' = [attempt EXCEPT ![c] = 0]
    /\ UNCHANGED timer

\* `assert self._session is not None` in _request() fails: nothing is sent
\* over a client that was closed, and the exception leaves the call.
FailUnsent(c, b, again, free) ==
    /\ Goto(c, "idle")
    /\ permits' = free + Frames(again)
    /\ bucket' = b
    /\ retry' = [retry EXCEPT ![c] = FALSE]
    /\ attempt' = [attempt EXCEPT ![c] = 0]
    /\ UNCHANGED timer

\* One turn of bucket.acquire(): a token and on to HTTP, or a sleep.
TakeToken(c, b, again, free) ==
    LET w == WorkspaceOf[c]
        paid == [b EXCEPT ![w] = @ - Unit]
    IN
    \/ /\ b[w] >= Unit
       /\ w \notin closed
       /\ bucket' = paid
       /\ Goto(c, "sending")
       /\ attempt' = [attempt EXCEPT ![c] = 1]
       /\ retry' = [retry EXCEPT ![c] = again]
       /\ permits' = free
       /\ UNCHANGED timer
    \/ /\ b[w] >= Unit
       /\ w \in closed
       /\ FailUnsent(c, paid, again, free)
    \/ /\ b[w] < Unit
       /\ bucket' = b
       /\ Goto(c, "throttled")
       /\ timer' = [timer EXCEPT ![c] = WaitTime(b[w])]
       /\ retry' = [retry EXCEPT ![c] = again]
       /\ permits' = free
       /\ UNCHANGED attempt

\* semaphore.__aenter__(): a free slot if nobody is waiting for one, else the
\* end of the queue.
AcquireSlot(c, b, again) ==
    \/ /\ permits > 0
       /\ queue = <<>>
       /\ UNCHANGED queue
       /\ TakeToken(c, b, again, permits - 1)
    \/ /\ permits = 0 \/ queue # <<>>
       /\ queue' = Append(queue, c)
       /\ Goto(c, "queued")
       /\ bucket' = b
       /\ retry' = [retry EXCEPT ![c] = again]
       /\ UNCHANGED <<permits, timer, attempt>>

\* wait_if_paused(): sleep for what is left of the pause, if anything is.
WaitIfPaused(c, b, again) ==
    LET left == pause[WorkspaceOf[c]] IN
    \/ /\ left > 0
       /\ Goto(c, "paused")
       /\ timer' = [timer EXCEPT ![c] = left]
       /\ bucket' = b
       /\ retry' = [retry EXCEPT ![c] = again]
       /\ UNCHANGED <<permits, queue, attempt>>
    \/ /\ left = 0
       /\ AcquireSlot(c, b, again)

\* get() or a page of paginated_get(): a new call.
BeginCall(c) ==
    /\ pc[c] = "idle"
    /\ calls[c] < MaxCalls[c]
    /\ calls' = [calls EXCEPT ![c] = @ + 1]
    /\ WaitIfPaused(c, bucket, FALSE)
    /\ UNCHANGED <<closed, pause, consecutive, streak>>

\* The sleep in wait_if_paused() ends.  The pause is not looked at again.
PauseEnds(c) ==
    /\ pc[c] = "paused"
    /\ timer[c] = 0
    /\ AcquireSlot(c, bucket, retry[c])
    /\ UNCHANGED <<calls, closed, pause, consecutive, streak>>

\* The oldest waiter gets a slot that was released.
SlotGranted(c) ==
    /\ pc[c] = "queued"
    /\ permits > 0
    /\ queue # <<>> /\ c = Head(queue)
    /\ queue' = Tail(queue)
    /\ TakeToken(c, bucket, retry[c], permits - 1)
    /\ UNCHANGED <<calls, closed, pause, consecutive, streak>>

\* Fault variant of TokenWaitEnds: the sleep is trusted, the bucket is not
\* looked at again.
TokenWaitTrusted(c) ==
    LET w == WorkspaceOf[c]
        left == IF bucket[w] >= Unit THEN bucket[w] - Unit ELSE 0
    IN
    /\ pc[c] = "throttled"
    /\ timer[c] = 0
    /\ Goto(c, "sending")
    /\ attempt' = [attempt EXCEPT ![c] = 1]
    /\ bucket' = [bucket EXCEPT ![w] = left]
    /\ UNCHANGED <<timer, retry, calls, slotVars, closed, pause, consecutive, streak>>

\* A sleep in bucket.acquire() ends: another turn of its loop.
TokenWaitEnds(c) ==
    /\ pc[c] = "throttled"
    /\ timer[c] = 0
    /\ TakeToken(c, bucket, retry[c], permits)
    /\ UNCHANGED <<calls, queue, closed, pause, consecutive, streak>>
----------------------------------------------------------------------------
(* The way out of it.                                                      *)

\* Fault variant of Leave: a retried call gives back one slot only.
LeaveKeepingOuterSlot(c) ==
    /\ Goto(c, "idle")
    /\ permits' = permits + 1
    /\ retry' = [retry EXCEPT ![c] = FALSE]
    /\ attempt' = [attempt EXCEPT ![c] = 0]
    /\ UNCHANGED <<timer, calls, queue, closed, bucket>>

\* The call returns or raises: every `async with self._semaphore` that it is
\* in gives its slot back, the retry's and then that of the first attempt.
Leave(c) ==
    /\ Goto(c, "idle")
    /\ permits' = permits + Frames(retry[c])
    /\ retry' = [retry EXCEPT ![c] = FALSE]
    /\ attempt' = [attempt EXCEPT ![c] = 0]
    /\ UNCHANGED <<timer, calls, queue, closed, bucket>>

\* Fault variant of Succeed: record_success() is not called.
SucceedUnrecorded(c) ==
    /\ pc[c] = "sending"
    /\ Leave(c)
    /\ streak' = [streak EXCEPT ![WorkspaceOf[c]] = 0]
    /\ UNCHANGED <<pause, consecutive>>

\* 2xx: record_success() and return.
Succeed(c) ==
    /\ pc[c] = "sending"
    /\ Leave(c)
    /\ consecutive' = [consecutive EXCEPT ![WorkspaceOf[c]] = 0]
    /\ streak' = [streak EXCEPT ![WorkspaceOf[c]] = 0]
    /\ UNCHANGED pause

\* 5xx, a connection error or the 30 s timeout, with attempts left: tenacity
\* backs off inside _request, the slot and the spent token are kept.
BackOff(c) ==
    /\ pc[c] = "sending"
    /\ attempt[c] < MaxAttempts
    /\ Goto(c, "backoff")
    /\ attempt' = [attempt EXCEPT ![c] = @ + 1]
    /\ UNCHANGED <<timer, retry, calls, slotVars, closed, stateVars>>

\* The backoff ends: _request sends again, without asking the bucket, or
\* finds that the client was closed meanwhile and raises.
Resend(c) ==
    /\ pc[c] = "backoff"
    /\ \/ /\ WorkspaceOf[c] \notin closed
          /\ Goto(c, "sending")
          /\ UNCHANGED <<timer, retry, attempt, calls, slotVars, closed, bucket>>
       \/ /\ WorkspaceOf[c] \in closed
          /\ Leave(c)
    /\ UNCHANGED <<pause, consecutive, streak>>

\* The last attempt fails too: the error is raised to the caller.
ExhaustAttempts(c) ==
    /\ pc[c] = "sending"
    /\ attempt[c] = MaxAttempts
    /\ Leave(c)
    /\ UNCHANGED <<pause, consecutive, streak>>

\* 4xx other than 429: raised at once.
PermanentError(c) ==
    /\ pc[c] = "sending"
    /\ Leave(c)
    /\ UNCHANGED <<pause, consecutive, streak>>
----------------------------------------------------------------------------
(* 429.                                                                    *)

\* Fault variant of Record429: the pause is set before the limit is checked.
Record429PauseFirst(c, after) ==
    LET w == WorkspaceOf[c]
        count == consecutive[w] + 1
    IN  /\ consecutive' = [consecutive EXCEPT ![w] = count]
        /\ pause' = [pause EXCEPT ![w] = after]
        /\ \/ /\ count >= Max429
              /\ Leave(c)
           \/ /\ count < Max429
              /\ Goto(c, "cooling")
              /\ timer' = [timer EXCEPT ![c] = after]
              /\ attempt' = [attempt EXCEPT ![c] = 0]
              /\ UNCHANGED <<retry, calls, slotVars, closed, bucket>>

\* record_429(): count it; at the limit raise, else announce the pause and
\* sleep through it.  A pause that is running is overwritten.
Record429(c, after) ==
    LET w == WorkspaceOf[c]
        count == consecutive[w] + 1
    IN  /\ consecutive' = [consecutive EXCEPT ![w] = count]
        /\ \/ /\ count >= Max429
              /\ Leave(c)
              /\ UNCHANGED pause
           \/ /\ count < Max429
              /\ pause' = [pause EXCEPT ![w] = after]
              /\ Goto(c, "cooling")
              /\ timer' = [timer EXCEPT ![c] = after]
              /\ attempt' = [attempt EXCEPT ![c] = 0]
              /\ UNCHANGED <<retry, calls, slotVars, closed, bucket>>

\* The server answers 429.  The retry of a call raises it unrecorded.
TooManyRequests(c, after) ==
    /\ pc[c] = "sending"
    /\ streak' = [streak EXCEPT ![WorkspaceOf[c]] = @ + 1]
    /\ \/ /\ ~ retry[c]
          /\ Record429(c, after)
       \/ /\ retry[c]
          /\ Leave(c)
          /\ UNCHANGED <<pause, consecutive>>

\* Fault variant of CoolDownEnds: the call gives up after the pause.
CoolDownGivesUp(c) ==
    /\ pc[c] = "cooling"
    /\ timer[c] = 0
    /\ Leave(c)
    /\ UNCHANGED <<pause, consecutive, streak>>

\* record_429()'s sleep ends: the bucket is emptied and the whole request
\* starts over as a retry, still inside the first attempt's slot.
CoolDownEnds(c) ==
    LET reset == [bucket EXCEPT ![WorkspaceOf[c]] = 0] IN
    /\ pc[c] = "cooling"
    /\ timer[c] = 0
    /\ WaitIfPaused(c, reset, TRUE)
    /\ UNCHANGED <<calls, closed, pause, consecutive, streak>>
----------------------------------------------------------------------------
Less(n) == IF n > 0 THEN n - 1 ELSE 0

\* Time passes, as long as anything depends on it.
Tick ==
    /\ \/ \E c \in Callers : timer[c] > 0
       \/ \E w \in Workspaces : pause[w] > 0 \/ bucket[w] < Capacity
    /\ timer' = [c \in Callers |-> Less(timer[c])]
    /\ pause' = [w \in Workspaces |-> Less(pause[w])]
    /\ bucket' = [w \in Workspaces |-> Refill(bucket[w], 1)]
    /\ UNCHANGED <<pc, retry, attempt, calls, slotVars, closed, consecutive, streak>>

\* __aexit__() of the client: a coroutine of the workspace has ended, and
\* extract_workspace() returns, or raises when gather() does not wait for the
\* others.  What they have under way is cut off, unless its answer had come.
Close(w) ==
    /\ w \notin closed
    /\ \E c \in Callers : WorkspaceOf[c] = w /\ pc[c] = "idle" /\ calls[c] > 0
    /\ closed' = closed \cup {w}
    /\ UNCHANGED <<callerVars, slotVars, stateVars>>

\* Every coroutine has made its calls.
Done == /\ \A c \in Callers : pc[c] = "idle" /\ calls[c] = MaxCalls[c]
        /\ UNCHANGED vars

Answer(c) == \/ Succeed(c)
             \/ BackOff(c)
             \/ ExhaustAttempts(c)
             \/ PermanentError(c)
             \/ \E after \in RetryAfters : TooManyRequests(c, after)

Continue(c) == \/ PauseEnds(c)
               \/ SlotGranted(c)
               \/ TokenWaitEnds(c)
               \/ Answer(c)
               \/ Resend(c)
               \/ CoolDownEnds(c)

Next == \/ \E c \in Callers : BeginCall(c) \/ Continue(c)
        \/ \E w \in Workspaces : Close(w)
        \/ Tick
        \/ Done

Spec == Init /\ [][Next]_vars

\* The event loop runs whatever is ready, its clock advances, and HTTP always
\* ends: ClientTimeout(total=30) turns silence into a TimeoutError.
FairSpec == Spec /\ WF_vars(Tick) /\ \A c \in Callers : WF_vars(Continue(c))
----------------------------------------------------------------------------
(* The `async with self._semaphore` blocks that are open.                  *)
Outer == {c \in Callers : retry[c]}
Inner == {c \in Callers : pc[c] \in Inside}

Waiting == {c \in Callers : pc[c] = "queued"}

\* No slot of the global semaphore is ever lost or given back twice: on every
\* way out of a call, at whatever depth of the retry, the slots that are free
\* and the `async with` blocks that are open make up the limit.
SlotsAccounted == permits + Cardinality(Outer) + Cardinality(Inner) = MaxConcurrent

\* A pause is never left without the coroutine that resets the bucket when it
\* is over: while the workspace is paused, one that recorded a 429 sleeps
\* until exactly the end of the pause, although pauses overwrite each other.
PauseOwned ==
    \A w \in Workspaces :
        pause[w] > 0 => \E c \in Callers : /\ WorkspaceOf[c] = w
                                           /\ pc[c] = "cooling"
                                           /\ timer[c] = pause[w]

\* The limit is never reached early: the counter of record_429() does not
\* exceed the number of 429s the workspace really got since its last success.
CountNotAboveStreak == \A w \in Workspaces : consecutive[w] <= streak[w]

\* Every call of the client returns or raises, whatever the server answers.
EveryCallReturns == \A c \in Callers : pc[c] # "idle" ~> pc[c] = "idle"

\* A request that was answered with a 429 and pauses is sent again, unless
\* its client is closed before that.
RetriedAfterPause ==
    \A c \in Callers :
        pc[c] = "cooling" ~> pc[c] = "sending" \/ WorkspaceOf[c] \in closed

\* No request of a workspace is sent while the workspace is paused.
NoSendWhilePaused ==
    [][\A c \in Callers : (pc[c] # "sending" /\ pc'[c] = "sending")
                              => pause[WorkspaceOf[c]] = 0]_vars

\* The third 429 in a row fails the workspace: who gets it does not pause.
ThirdInARowFails ==
    [][\A c \in Callers : (pc[c] # "cooling" /\ pc'[c] = "cooling")
                              => streak'[WorkspaceOf[c]] < Max429]_vars

\* A coroutine waits for a slot only if some slot is used for its own
\* workspace or by a workspace that is not serving a 429 pause.
Isolation ==
    \A c \in Waiting : permits = 0 =>
        \E h \in Outer \cup Inner : \/ WorkspaceOf[h] = WorkspaceOf[c]
                                    \/ pc[h] # "cooling"

Eager(w) == INSTANCE EagerBucket WITH parts <- bucket[w]

\* No request goes out unpaid: who enters the HTTP call takes one token of its
\* workspace in that step, however long it slept for it and whoever woke at the
\* same time (only a resend of tenacity, out of a backoff, is free), and
\* nothing else is done to a bucket than the abstract one allows in use.
PaidFor ==
    [][\A w \in Workspaces :
          /\ Eager(w)!InUse \/ UNCHANGED bucket[w]
          /\ \A c \in Callers :
                WorkspaceOf[c] = w /\ pc[c] \notin {"sending", "backoff"}
                    /\ pc'[c] = "sending" => Eager(w)!TakeOne]_vars
============================================================================
