----------------------------- MODULE Scheduler -----------------------------
(***************************************************************************)
(* ExtractionScheduler (scheduler.py): the loop of run(), the task of each *)
(* cycle, the signals that ask for a shutdown, and run_once().             *)
(*                                                                         *)
(* A cycle is a task of its own: run() looks at the flag _running, never   *)
(* at the task, to see whether it is in progress.  What a cycle does is    *)
(* left out: it lasts as long as it likes, and only list_tenants() can     *)
(* make it fail, because orchestrator.run() never raises.                  *)
(*                                                                         *)
(* The event loop serves what is ready in order: a task that run() has     *)
(* just created takes its first step before run() goes on, and before      *)
(* asyncio.run, which ends with run(), cancels what is left.  Timers count *)
(* down to 0 and may be served late.                                       *)
(***************************************************************************)
EXTENDS Naturals

CONSTANTS Interval,         \* extraction_interval, in ticks
          ShutdownTimeout,  \* shutdown_timeout_seconds, in ticks
          MaxCycles         \* bound: cycles that are created in a run

ASSUME IntervalAssumption == Interval \in Nat \ {0}
ASSUME TimeoutAssumption == ShutdownTimeout \in Nat \ {0}
ASSUME MaxCyclesAssumption == MaxCycles \in Nat \ {0}

VARIABLES loop,      \* where run() or run_once() is
          running,   \* _running
          shutdown,  \* _shutdown_event is set
          timer,     \* ticks left of the wait_for that run() is in
          cycle,     \* what became of the task of each cycle
          current,   \* the last of them, cycle_task
          grace,     \* history: ticks since the drain began
          since,     \* history: ticks since the last cycle was created, up to Interval
          early      \* history: stop() came before run()

histories == <<grace, since, early>>
vars == <<loop, running, shutdown, timer, cycle, current, histories>>

Cycles == 1 .. MaxCycles
Over == {"exited", "raised"}

TypeOK == /\ loop \in {"built", "once", "waiting", "draining", "cancelling"} \cup Over
          /\ running \in BOOLEAN
          /\ shutdown \in BOOLEAN
          /\ timer \in Nat
          /\ cycle \in [Cycles -> {"none", "created", "running", "completed",
                                   "failed", "cancelled"}]
          /\ current \in 0 .. MaxCycles
          /\ grace \in 0 .. ShutdownTimeout
          /\ since \in 0 .. Interval
          /\ early \in BOOLEAN

Init == /\ loop = "built"
        /\ running = FALSE
        /\ shutdown = FALSE
        /\ timer = 0
        /\ cycle = [n \in Cycles |-> "none"]
        /\ current = 0
        /\ grace = 0
        /\ since = Interval
        /\ early = FALSE

Become(state) == cycle' = [cycle EXCEPT ![current] = state]

\* cycle_task is created and has not taken its first step.
Created == current > 0 /\ cycle[current] = "created"

\* The task of a cycle is not over.
CycleInProgress == \E n \in Cycles : cycle[n] \in {"created", "running"}

\* asyncio.create_task(self._run_cycle())
CreateCycle == /\ current < MaxCycles
               /\ current' = current + 1
               /\ cycle' = [cycle EXCEPT ![current + 1] = "created"]
               /\ since' = 0
----------------------------------------------------------------------------
(* run() and run_once().                                                   *)

\* run_once(): one cycle, awaited with no timeout and no signal handler.
RunOnce == /\ loop = "built"
           /\ CreateCycle
           /\ loop' = "once"
           /\ UNCHANGED <<running, shutdown, timer, grace, early>>

\* run(): the first cycle is created at once.  If stop() came before, the loop
\* is not entered: _running is still unset, nothing is waited for, and run()
\* returns before the cycle has taken its first step.
Run == /\ loop = "built"
       /\ CreateCycle
       /\ \/ /\ ~ shutdown
             /\ loop' = "waiting"
             /\ timer' = Interval
          \/ /\ shutdown
             /\ loop' = "exited"
             /\ UNCHANGED timer
       /\ early' = shutdown
       /\ UNCHANGED <<running, shutdown, grace>>

\* Fault variant of IntervalEnds: a new cycle follows when the interval is half
\* over and the previous one has ended.
IntervalCutShort ==
    /\ loop = "waiting"
    /\ timer * 2 <= Interval /\ ~ shutdown /\ ~ Created /\ ~ running
    /\ timer' = Interval
    /\ CreateCycle
    /\ UNCHANGED <<loop, running, shutdown, grace, early>>

\* Fault variant of IntervalEnds: the previous cycle is not looked at.
IntervalIgnoresOverlap ==
    /\ loop = "waiting"
    /\ timer = 0 /\ ~ shutdown /\ ~ Created
    /\ timer' = Interval
    /\ CreateCycle
    /\ UNCHANGED <<loop, running, shutdown, grace, early>>

\* The interval is over: skip if _running, else start the next cycle.
IntervalEnds ==
    /\ loop = "waiting"
    /\ timer = 0 /\ ~ shutdown /\ ~ Created
    /\ timer' = Interval
    /\ \/ /\ running
          /\ UNCHANGED <<cycle, current, since>>
       \/ /\ ~ running
          /\ CreateCycle
    /\ UNCHANGED <<loop, running, shutdown, grace, early>>

\* Fault variant of LeaveLoop: a cycle in progress is left alone.
LeaveWithoutWaiting ==
    /\ loop = "waiting"
    /\ shutdown /\ ~ Created
    /\ loop' = "exited"
    /\ UNCHANGED <<running, shutdown, timer, cycle, current, histories>>

\* The shutdown event is noticed: run() leaves its loop, and if _running it
\* waits for the cycle.
LeaveLoop ==
    /\ loop = "waiting"
    /\ shutdown /\ ~ Created
    /\ \/ /\ running
          /\ loop' = "draining"
          /\ timer' = ShutdownTimeout
       \/ /\ ~ running
          /\ loop' = "exited"
          /\ UNCHANGED timer
    /\ UNCHANGED <<running, shutdown, cycle, current, histories>>

\* The cycle that run() or run_once() waits for is done: wait_for returns, or
\* it raises what the task raised.
Drained ==
    /\ loop \in {"draining", "once"}
    /\ \/ /\ cycle[current] = "completed"
          /\ loop' = "exited"
       \/ /\ cycle[current] = "failed"
          /\ loop' = "raised"
    /\ UNCHANGED <<running, shutdown, timer, cycle, current, histories>>

\* Fault variant of DrainTimesOut: the grace period is not waited for.
DrainAtOnce ==
    /\ loop = "draining"
    /\ cycle[current] = "running"
    /\ loop' = "cancelling"
    /\ UNCHANGED <<running, shutdown, timer, cycle, current, histories>>

\* Fault variant of DrainTimesOut: the wait for the cycle has no timeout.
DrainForever == FALSE /\ UNCHANGED vars

\* shutdown_timeout_seconds are over: wait_for cancels the cycle.
DrainTimesOut ==
    /\ loop = "draining"
    /\ timer = 0
    /\ cycle[current] = "running"
    /\ loop' = "cancelling"
    /\ UNCHANGED <<running, shutdown, timer, cycle, current, histories>>

\* The cancelled cycle has ended and run() returns.
CancelDone ==
    /\ loop = "cancelling"
    /\ cycle[current] = "cancelled"
    /\ loop' = "exited"
    /\ UNCHANGED <<running, shutdown, timer, cycle, current, histories>>
----------------------------------------------------------------------------
(* _run_cycle().                                                           *)

\* Its first step, with tenants to extract.
CycleBegins ==
    /\ Created
    /\ running' = TRUE
    /\ Become("running")
    /\ UNCHANGED <<loop, shutdown, timer, current, histories>>

\* Its first step, with no tenants: orchestrator.run() returns at once.
CycleOfNoTenants ==
    /\ Created
    /\ running' = FALSE
    /\ Become("completed")
    /\ UNCHANGED <<loop, shutdown, timer, current, histories>>

\* Its first step, where list_tenants() raises: the file cannot be read or
\* decoded, or its top level is not an object.
CycleRaises ==
    /\ Created
    /\ running' = TRUE
    /\ Become("failed")
    /\ UNCHANGED <<loop, shutdown, timer, current, histories>>

\* Its first step, where list_tenants() calls sys.exit: SystemExit ends the
\* event loop and the process with it.
CycleExits ==
    /\ Created
    /\ running' = TRUE
    /\ Become("failed")
    /\ loop' = "raised"
    /\ UNCHANGED <<shutdown, timer, current, histories>>

\* Fault variant of CycleCompletes: the flag is not reset.
CycleCompletesStillRunning ==
    /\ \E n \in Cycles : /\ cycle[n] = "running"
                         /\ cycle' = [cycle EXCEPT ![n] = "completed"]
    /\ loop \notin Over \cup {"cancelling"}
    /\ UNCHANGED <<loop, running, shutdown, timer, current, histories>>

\* orchestrator.run() returns and the cycle ends.
CycleCompletes ==
    /\ \E n \in Cycles : /\ cycle[n] = "running"
                         /\ cycle' = [cycle EXCEPT ![n] = "completed"]
    /\ loop \notin Over \cup {"cancelling"}
    /\ running' = FALSE
    /\ UNCHANGED <<loop, shutdown, timer, current, histories>>

\* A cancelled cycle unwinds: _running = False is not reached.
CycleCancelled ==
    /\ loop = "cancelling"
    /\ cycle[current] = "running"
    /\ Become("cancelled")
    /\ UNCHANGED <<loop, running, shutdown, timer, current, histories>>

\* run() has returned and asyncio.run cancels the cycle that is still waiting
\* for its workspaces; it unwinds as every cancelled cycle.
CycleCutOff ==
    /\ loop = "exited" /\ current > 0
    /\ cycle[current] = "running"
    /\ Become("cancelled")
    /\ UNCHANGED <<loop, running, shutdown, timer, current, histories>>
----------------------------------------------------------------------------
\* stop(), SIGTERM or SIGINT.
Stop == /\ loop \in {"built", "waiting", "draining", "cancelling"}
        /\ ~ shutdown
        /\ shutdown' = TRUE
        /\ UNCHANGED <<loop, running, timer, cycle, current, histories>>

\* Fault variant of Tick: a timer that is over keeps the time running.
TickPastTheEnd ==
    /\ loop \in {"waiting", "draining"}
    /\ timer' = IF timer > 0 THEN timer - 1 ELSE 0
    /\ grace' = IF loop = "draining" THEN grace + 1 ELSE grace
    /\ since' = IF since < Interval THEN since + 1 ELSE since
    /\ UNCHANGED <<loop, running, shutdown, cycle, current, early>>

\* Time passes while run() waits.
Tick == /\ loop \in {"waiting", "draining"}
        /\ timer > 0
        /\ timer' = timer - 1
        /\ grace' = IF loop = "draining" THEN grace + 1 ELSE grace
        /\ since' = IF since < Interval THEN since + 1 ELSE since
        /\ UNCHANGED <<loop, running, shutdown, cycle, current, early>>

\* Nothing is left to do: the scheduler has ended, or, in the model only, it
\* has no number left for the next cycle.
Stopped == /\ \/ loop \in Over /\ ~ CycleInProgress
              \/ loop = "waiting" /\ timer = 0 /\ current = MaxCycles /\ ~ running
           /\ UNCHANGED vars

Scheduling == Run \/ RunOnce \/ IntervalEnds \/ LeaveLoop
                  \/ Drained \/ DrainTimesOut \/ CancelDone

CycleStarts == CycleBegins \/ CycleOfNoTenants \/ CycleRaises \/ CycleExits

Next == Scheduling \/ CycleStarts \/ CycleCompletes \/ CycleCancelled
            \/ CycleCutOff \/ Stop \/ Tick \/ Stopped

Spec == Init /\ [][Next]_vars

\* The event loop runs what is ready and its clock advances, and a cancelled
\* cycle unwinds.  Nothing is assumed of how long a cycle takes.
FairSpec == /\ Spec
            /\ WF_vars(Scheduling)
            /\ WF_vars(CycleStarts)
            /\ WF_vars(CycleCancelled \/ CycleCutOff)
            /\ WF_vars(Tick)
----------------------------------------------------------------------------
\* Skip-on-overlap: no two cycles are ever in progress together, although
\* run() only looks at a flag that the cycles set and reset themselves.
NoOverlap ==
    \A m, n \in Cycles : cycle[m] = "running" /\ cycle[n] = "running" => m = n

\* Graceful shutdown: run() and run_once() never return while a cycle is in
\* progress, it has completed or was cancelled and has unwound.  The exception is
\* a stop() that came before run(): then run() returns at once, and the cycle it
\* has created begins afterwards.
NothingLeftBehind == loop = "exited" /\ ~ early => ~ CycleInProgress

\* Cycles as the rest of the program sees them: the task of a cycle that is not
\* over, and how long the next one has to wait, whatever run() is waiting for.
Spaced == INSTANCE SpacedCycles
    WITH wait <- Interval - since,
         busy <- CycleInProgress

\* The scheduler paces the program: cycles come one at a time and at least an
\* interval apart, also after skipped intervals, failed cycles and late wake-ups.
ImplementsSpacedCycles == Spaced!CyclesSpec

\* A cycle is cancelled only after the whole grace period, unless stop() came
\* before run(): asyncio.run gives the cycle in progress no time at all.
GraceRespected ==
    \A n \in Cycles : cycle[n] = "cancelled" /\ ~ early => grace = ShutdownTimeout

\* A shutdown that run() was asked for, before or while it runs, comes to its
\* end: run() returns and no cycle is in progress any more, however long it
\* would still take.
ShutdownEnds == shutdown /\ loop \notin {"built", "once"}
                    ~> loop \in Over /\ ~ CycleInProgress

\* The service goes on: as long as no shutdown is asked for, a cycle that
\* completed is followed by the next one.
NextCycleFollows ==
    \A n \in Cycles : n + 1 \in Cycles =>
        (loop = "waiting" /\ cycle[n] = "completed"
            ~> shutdown \/ cycle[n + 1] # "none")

\* _running says what its documentation says, whenever run() relies on it: a
\* cycle is in progress.
RunningMeansInProgress ==
    running /\ loop = "waiting" => \E n \in Cycles : cycle[n] = "running"
============================================================================
