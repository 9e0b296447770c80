--------------------------- MODULE SchedulerProofs ---------------------------
(***************************************************************************)
(* Proofs about Scheduler for every interval, every shutdown timeout and   *)
(* any number of cycles.                                                   *)
(*                                                                         *)
(* run() looks at a flag and never at the task of a cycle.  The invariant  *)
(* says why that is enough: only the last cycle can be in progress, and    *)
(* while it is, the flag is set.  The converse does not hold (a cycle that *)
(* raised leaves the flag set) and is not needed.                          *)
(***************************************************************************)
EXTENDS Scheduler, TLAPS

\* Cycles are numbered in the order they are created.
Numbered == \A n \in Cycles : n > current => cycle[n] = "none"

\* All cycles but the last one are over.
EarlierAreOver ==
    \A n \in Cycles : n < current => cycle[n] \notin {"created", "running"}

\* The flag is set as long as a cycle is in progress.
FlagIsSet == \A n \in Cycles : cycle[n] = "running" => running

\* Before run() or run_once() there is no cycle, and afterwards there is one.
BuiltIsEmpty == /\ loop = "built" <=> current = 0
                /\ loop = "built" => ~ running

\* Only the last cycle is cancelled, and none is created after it.
CancelledIsLast ==
    \A n \in Cycles : cycle[n] = "cancelled"
                          => n = current /\ loop \in {"cancelling"} \cup Over

\* The grace period is measured by the timer of the drain.
GraceMeasured == /\ loop \in {"built", "waiting"} => grace = 0
                 /\ loop = "draining" => grace + timer = ShutdownTimeout
                 /\ loop = "cancelling" => grace = ShutdownTimeout

\* While run() waits, its timer does not end before the interval since the last
\* cycle has passed; before run() or run_once() no cycle has to be waited for.
SinceMeasured == /\ loop = "built" => since = Interval
                 /\ loop = "waiting" => since + timer >= Interval

\* A stop() that came before run() is known only once run() has returned.
EarlyIsOver == early => loop \in Over

IInv == /\ TypeOK
        /\ Numbered /\ EarlierAreOver /\ FlagIsSet
        /\ BuiltIsEmpty /\ CancelledIsLast /\ GraceMeasured /\ SinceMeasured
        /\ EarlyIsOver /\ NothingLeftBehind /\ GraceRespected
----------------------------------------------------------------------------
\* Nothing has happened in the initial state.
LEMMA InitEstablishes == Init => IInv
  <1> SUFFICES ASSUME Init
               PROVE  IInv
    OBVIOUS
  <1>1. /\ loop = "built" /\ running = FALSE /\ shutdown = FALSE
        /\ timer = 0 /\ current = 0 /\ grace = 0 /\ since = Interval /\ early = FALSE
        /\ cycle = [n \in Cycles |-> "none"]
    BY DEF Init
  <1>2. TypeOK
    <2>1. cycle \in [Cycles -> {"none", "created", "running", "completed",
                               "failed", "cancelled"}]
      BY <1>1
    <2>2. loop \in {"built", "once", "waiting", "draining", "cancelling"} \cup Over
      BY <1>1
    <2>3. running \in BOOLEAN /\ shutdown \in BOOLEAN /\ early \in BOOLEAN
      BY <1>1
    <2>4. timer \in Nat /\ current \in 0 .. MaxCycles /\ grace \in 0 .. ShutdownTimeout
        /\ since \in 0 .. Interval
      BY <1>1, TimeoutAssumption, MaxCyclesAssumption, IntervalAssumption
    <2> QED
      BY <2>1, <2>2, <2>3, <2>4 DEF TypeOK
  <1>3. \A n \in Cycles : cycle[n] = "none"
    BY <1>1
  <1> QED
    BY <1>1, <1>2, <1>3
    DEF IInv, Numbered, EarlierAreOver, FlagIsSet, BuiltIsEmpty, CancelledIsLast,
        GraceMeasured, SinceMeasured, EarlyIsOver, NothingLeftBehind, GraceRespected,
        CycleInProgress

\* The cycle in progress is the last one that was created.
LEMMA OnlyTheLast ==
    ASSUME IInv, NEW n \in Cycles, cycle[n] \in {"created", "running"}
    PROVE  n = current
  BY MaxCyclesAssumption DEF IInv, TypeOK, Numbered, EarlierAreOver, Cycles

\* An asyncio.create_task of run() or run_once(): the previous cycle, if
\* there is one, is neither waiting for its first step nor in progress.
LEMMA CreatePreserves ==
    ASSUME IInv, ~ Created, ~ running, CreateCycle,
           loop \in {"built", "waiting"}, loop' \in {"once", "waiting", "exited"},
           timer' \in Nat, loop' = "waiting" => timer' = Interval,
           early' \in BOOLEAN, early' <=> loop' = "exited",
           UNCHANGED <<running, shutdown, grace>>
    PROVE  IInv'
  <1>1. /\ current' = current + 1 /\ current' \in Cycles
        /\ cycle' = [cycle EXCEPT ![current'] = "created"]
    BY MaxCyclesAssumption DEF CreateCycle, IInv, TypeOK, Cycles
  <1>2. \A n \in Cycles : cycle'[n] = IF n = current' THEN "created" ELSE cycle[n]
    BY <1>1 DEF IInv, TypeOK
  <1>3. TypeOK'
    BY <1>1, IntervalAssumption DEF CreateCycle, IInv, TypeOK, Cycles, Over
  <1>9. SinceMeasured'
    <2>1. loop' # "built" /\ since' = 0
      BY DEF CreateCycle
    <2>2. loop' = "waiting" => 0 + timer' >= Interval
      BY IntervalAssumption
    <2> QED
      BY <2>1, <2>2 DEF SinceMeasured
  <1>4. Numbered'
    BY <1>1, <1>2, MaxCyclesAssumption DEF IInv, TypeOK, Numbered, Cycles
  <1>5. \A n \in Cycles : cycle[n] \notin {"created", "running"}
    <2>1. ASSUME NEW n \in Cycles, cycle[n] \in {"created", "running"}
          PROVE  FALSE
      <3>1. n = current /\ n > 0
        BY <2>1, OnlyTheLast DEF Cycles
      <3> QED
        BY <2>1, <3>1 DEF Created, IInv, FlagIsSet
    <2> QED
      BY <2>1
  <1>6. EarlierAreOver' /\ FlagIsSet'
    BY <1>1, <1>2, <1>5 DEF EarlierAreOver, FlagIsSet
  <1>7. \A n \in Cycles : cycle'[n] # "cancelled"
    BY <1>2 DEF IInv, CancelledIsLast, Over
  <1>8. current' # 0 /\ ~ running'
    BY <1>1, MaxCyclesAssumption DEF Cycles
  <1> QED
    BY <1>3, <1>4, <1>6, <1>7, <1>8, <1>9
    DEF IInv, BuiltIsEmpty, CancelledIsLast, GraceMeasured, EarlyIsOver,
        NothingLeftBehind, GraceRespected, Over

\* The last cycle goes from one state to a later one: the flag is set if the
\* cycle is in progress now, and a cancellation comes at the end of the grace
\* period, or after a run() that had nothing to wait for.
LEMMA BecomePreserves ==
    ASSUME IInv, NEW state \in {"running", "completed", "failed", "cancelled"},
           current > 0, cycle[current] \in {"created", "running"}, Become(state),
           running' \in BOOLEAN, state = "running" => running',
           state = "cancelled" => loop \in {"cancelling", "exited"},
           loop' \in {loop, "raised"},
           UNCHANGED <<shutdown, timer, current, histories>>
    PROVE  IInv'
  <1>1. current \in Cycles
    BY MaxCyclesAssumption DEF IInv, TypeOK, Cycles
  <1>2. /\ cycle' = [cycle EXCEPT ![current] = state]
        /\ \A n \in Cycles : cycle'[n] = IF n = current THEN state ELSE cycle[n]
    BY <1>1 DEF Become, IInv, TypeOK
  <1>3. TypeOK' /\ SinceMeasured'
    BY <1>1, <1>2 DEF IInv, TypeOK, SinceMeasured, histories, Over
  <1>4. Numbered' /\ EarlierAreOver'
    BY <1>1, <1>2, MaxCyclesAssumption
    DEF IInv, TypeOK, Numbered, EarlierAreOver, Cycles
  <1>5. \A n \in Cycles : cycle'[n] = "running" => n = current /\ state = "running"
    BY <1>2, OnlyTheLast
  <1>6. FlagIsSet'
    BY <1>5 DEF FlagIsSet
  <1>7. loop # "built"
    BY DEF IInv, BuiltIsEmpty
  <1>8. ASSUME NEW n \in Cycles, cycle'[n] = "cancelled"
        PROVE  n = current /\ state = "cancelled"
    BY <1>2, <1>8 DEF IInv, CancelledIsLast
  <1>9. loop = "exited" => early
    BY <1>1 DEF IInv, NothingLeftBehind, CycleInProgress
  <1>10. CancelledIsLast'
    BY <1>8 DEF IInv, CancelledIsLast, Over
  <1>11. GraceRespected'
    BY <1>8, <1>9 DEF IInv, GraceRespected, GraceMeasured, histories
  <1>12. NothingLeftBehind' /\ EarlyIsOver'
    BY <1>9 DEF IInv, NothingLeftBehind, EarlyIsOver, histories, Over
  <1> QED
    BY <1>3, <1>4, <1>6, <1>7, <1>10, <1>11, <1>12
    DEF IInv, BuiltIsEmpty, GraceMeasured, histories

\* run() moves on and the cycles are what they were.
LEMMA LoopPreserves ==
    ASSUME IInv, UNCHANGED <<running, cycle, current>>, TypeOK', BuiltIsEmpty',
           GraceMeasured', SinceMeasured', NothingLeftBehind',
           UNCHANGED early, loop \in Over => loop' \in Over,
           loop \in {"cancelling"} \cup Over => loop' \in {"cancelling"} \cup Over,
           grace' # grace => loop = "draining"
    PROVE  IInv'
  <1>1. Numbered' /\ EarlierAreOver' /\ FlagIsSet'
    BY DEF IInv, Numbered, EarlierAreOver, FlagIsSet
  <1>2. CancelledIsLast'
    BY DEF IInv, CancelledIsLast
  <1>3. GraceRespected'
    BY DEF IInv, CancelledIsLast, GraceRespected, Over
  <1>4. EarlyIsOver'
    BY DEF IInv, EarlyIsOver
  <1> QED
    BY <1>1, <1>2, <1>3, <1>4 DEF IInv

\* Every step of the scheduler, of a cycle, of the signals and of the clock
\* preserves the invariant.
LEMMA StepPreserves == IInv /\ [Next]_vars => IInv'
  <1> SUFFICES ASSUME IInv, [Next]_vars
               PROVE  IInv'
    OBVIOUS
  <1>typed. TypeOK
    BY DEF IInv
  <1>1. CASE RunOnce
    <2>1. ~ Created /\ ~ running /\ ~ early
      BY <1>1 DEF RunOnce, IInv, BuiltIsEmpty, EarlyIsOver, Created, Over
    <2> QED
      BY <1>1, <2>1, CreatePreserves, <1>typed DEF RunOnce, TypeOK
  <1>2. CASE Run
    <2>1. ~ running /\ ~ Created /\ shutdown \in BOOLEAN /\ timer \in Nat
      BY <1>2, <1>typed DEF Run, IInv, BuiltIsEmpty, Created, TypeOK
    <2>2. /\ loop' \in {"waiting", "exited"}
          /\ early' \in BOOLEAN /\ (early' <=> loop' = "exited")
      BY <1>2, <2>1 DEF Run
    <2>3. timer' \in Nat /\ (loop' = "waiting" => timer' = Interval)
      BY <1>2, <2>1, IntervalAssumption DEF Run
    <2> QED
      BY <1>2, <2>1, <2>2, <2>3, CreatePreserves DEF Run
  <1>3. CASE IntervalEnds
    <2>0. ~ early
      BY <1>3 DEF IntervalEnds, IInv, EarlyIsOver, Over
    <2>1. CASE running
      BY <1>3, <2>1, <1>typed, LoopPreserves, IntervalAssumption
      DEF IntervalEnds, IInv, TypeOK, BuiltIsEmpty, GraceMeasured, SinceMeasured, NothingLeftBehind,
          CycleInProgress, histories, Over
    <2>2. CASE ~ running
      <3>1. loop' = "waiting" /\ timer' \in Nat /\ timer' = Interval
        BY <1>3, IntervalAssumption DEF IntervalEnds
      <3>2. early' \in BOOLEAN /\ (early' <=> loop' = "exited")
        BY <1>3, <1>typed, <2>0, <3>1 DEF IntervalEnds, TypeOK
      <3> QED
        BY <1>3, <2>2, <3>1, <3>2, CreatePreserves DEF IntervalEnds
    <2> QED
      BY <2>1, <2>2
  <1>4. CASE LeaveLoop
    <2>1. ~ running => \A n \in Cycles : cycle[n] \notin {"created", "running"}
      BY <1>4, OnlyTheLast DEF LeaveLoop, Created, IInv, FlagIsSet, Cycles
    <2> QED
      BY <1>4, <2>1, <1>typed, LoopPreserves, TimeoutAssumption
      DEF LeaveLoop, IInv, TypeOK, BuiltIsEmpty, GraceMeasured, SinceMeasured, NothingLeftBehind,
          CycleInProgress, histories, Over
  <1>5. CASE Drained
    <2>1. \A n \in Cycles : cycle[n] \notin {"created", "running"}
      BY <1>5, OnlyTheLast DEF Drained
    <2> QED
      BY <1>5, <2>1, <1>typed, LoopPreserves
      DEF Drained, IInv, TypeOK, BuiltIsEmpty, GraceMeasured, SinceMeasured, NothingLeftBehind,
          CycleInProgress, histories, Over
  <1>6. CASE DrainTimesOut
    BY <1>6, <1>typed, LoopPreserves, TimeoutAssumption
    DEF DrainTimesOut, IInv, TypeOK, BuiltIsEmpty, GraceMeasured, SinceMeasured, NothingLeftBehind,
          CycleInProgress, histories, Over
  <1>7. CASE CancelDone
    <2>1. \A n \in Cycles : cycle[n] \notin {"created", "running"}
      BY <1>7, OnlyTheLast DEF CancelDone
    <2> QED
      BY <1>7, <2>1, <1>typed, LoopPreserves
      DEF CancelDone, IInv, TypeOK, BuiltIsEmpty, GraceMeasured, SinceMeasured, NothingLeftBehind,
          CycleInProgress, histories, Over
  <1>8. CASE CycleStarts
    BY <1>8, BecomePreserves
    DEF CycleStarts, CycleBegins, CycleOfNoTenants, CycleRaises, CycleExits, Created
  <1>9. CASE CycleCompletes
    <2>1. PICK n \in Cycles : /\ cycle[n] = "running"
                             /\ cycle' = [cycle EXCEPT ![n] = "completed"]
      BY <1>9 DEF CycleCompletes
    <2>2. n = current /\ current > 0
      BY <2>1, OnlyTheLast DEF Cycles
    <2> QED
      BY <1>9, <2>1, <2>2, BecomePreserves DEF CycleCompletes, Become
  <1>10. CASE CycleCancelled
    <2>1. current > 0
      BY <1>10, MaxCyclesAssumption DEF CycleCancelled, IInv, TypeOK, BuiltIsEmpty
    <2> QED
      BY <1>10, <2>1, <1>typed, BecomePreserves DEF CycleCancelled, TypeOK
  <1>11. CASE CycleCutOff
    BY <1>11, <1>typed, BecomePreserves DEF CycleCutOff, TypeOK
  <1>12. CASE Stop
    BY <1>12, <1>typed, LoopPreserves
    DEF Stop, IInv, TypeOK, BuiltIsEmpty, GraceMeasured, SinceMeasured, NothingLeftBehind,
          CycleInProgress, histories, Over
  <1>13. CASE Tick
    BY <1>13, <1>typed, LoopPreserves, TimeoutAssumption, IntervalAssumption
    DEF Tick, IInv, TypeOK, BuiltIsEmpty, GraceMeasured, SinceMeasured, NothingLeftBehind,
          CycleInProgress, histories, Over
  <1>14. CASE UNCHANGED vars
    BY <1>14 DEF vars, IInv, TypeOK, Numbered, EarlierAreOver, FlagIsSet, BuiltIsEmpty,
                 CancelledIsLast, GraceMeasured, SinceMeasured, EarlyIsOver,
                 NothingLeftBehind, GraceRespected, CycleInProgress, histories
  <1> QED
    BY <1>1, <1>2, <1>3, <1>4, <1>5, <1>6, <1>7, <1>8, <1>9, <1>10, <1>11, <1>12, <1>13,
       <1>14
    DEF Next, Scheduling, Stopped

\* The invariant holds throughout.
THEOREM Inductive == Spec => []IInv
  BY InitEstablishes, StepPreserves, PTL DEF Spec
----------------------------------------------------------------------------
\* The state of the scheduler keeps its types; in particular a drain never
\* lasts longer than shutdown_timeout_seconds.
THEOREM TypeCorrect == Spec => []TypeOK
  <1>1. IInv => TypeOK
    BY DEF IInv
  <1> QED
    BY <1>1, Inductive, PTL

\* Skip-on-overlap: no two cycles are ever in progress together.
THEOREM NoOverlapHolds == Spec => []NoOverlap
  <1>1. IInv => NoOverlap
    <2> SUFFICES ASSUME IInv, NEW m \in Cycles, NEW n \in Cycles,
                        cycle[m] = "running", cycle[n] = "running"
                 PROVE  m = n
      BY DEF NoOverlap
    <2> QED
      BY OnlyTheLast
  <1> QED
    BY <1>1, Inductive, PTL

\* Graceful shutdown: unless stop() came before run(), run() and run_once()
\* never return while a cycle is in progress.
THEOREM NothingLeftBehindHolds == Spec => []NothingLeftBehind
  <1>1. IInv => NothingLeftBehind
    BY DEF IInv
  <1> QED
    BY <1>1, Inductive, PTL

\* Unless stop() came before run(), a cycle is cancelled only after the whole
\* grace period.
THEOREM GraceRespectedHolds == Spec => []GraceRespected
  <1>1. IInv => GraceRespected
    BY DEF IInv
  <1> QED
    BY <1>1, Inductive, PTL
----------------------------------------------------------------------------
(* The abstract specification of the paced cycles.                         *)

\* If any cycle is in progress, it is the last one.
LEMMA BusyIsTheLast ==
    ASSUME IInv
    PROVE  CycleInProgress <=> current > 0 /\ cycle[current] \in {"created", "running"}
  <1>1. current > 0 => current \in Cycles
    BY MaxCyclesAssumption DEF IInv, TypeOK, Cycles
  <1>2. ASSUME NEW n \in Cycles, cycle[n] \in {"created", "running"}
        PROVE  current > 0 /\ cycle[current] \in {"created", "running"}
    BY <1>2, OnlyTheLast DEF Cycles
  <1> QED
    BY <1>1, <1>2 DEF CycleInProgress

\* A task that is created begins an abstract cycle: none is in progress, and
\* the interval since the last one is over.
LEMMA CreateBegins ==
    ASSUME IInv, ~ Created, ~ running, CreateCycle, since = Interval
    PROVE  Spaced!BeginCycle
  <1>1. ~ CycleInProgress
    BY BusyIsTheLast DEF IInv, FlagIsSet, TypeOK, Created, Cycles
  <1>2. current' \in Cycles /\ cycle'[current'] = "created"
    BY MaxCyclesAssumption DEF CreateCycle, IInv, TypeOK, Cycles
  <1>3. since' = 0
    BY DEF CreateCycle
  <1> QED
    BY <1>1, <1>2, <1>3, IntervalAssumption DEF CycleInProgress, Spaced!BeginCycle

\* A cycle that takes its first step or ends is an abstract stutter or an
\* abstract end.
LEMMA BecomeEnds ==
    ASSUME IInv, NEW state \in {"running", "completed", "failed", "cancelled"},
           current > 0, cycle[current] \in {"created", "running"}, Become(state),
           UNCHANGED <<current, since>>
    PROVE  Spaced!EndCycle \/ UNCHANGED Spaced!cyclesVars
  <1>1. current \in Cycles
    BY MaxCyclesAssumption DEF IInv, TypeOK, Cycles
  <1>2. \A n \in Cycles : cycle'[n] = IF n = current THEN state ELSE cycle[n]
    BY <1>1 DEF Become, IInv, TypeOK
  <1>3. CycleInProgress
    BY <1>1 DEF CycleInProgress
  <1>4. \A n \in Cycles : cycle'[n] \in {"created", "running"}
                             <=> n = current /\ state = "running"
    BY <1>2, OnlyTheLast
  <1>5. CycleInProgress' <=> state = "running"
    BY <1>1, <1>4 DEF CycleInProgress
  <1>6. CASE state = "running"
    BY <1>3, <1>5, <1>6 DEF CycleInProgress, Spaced!cyclesVars
  <1>7. CASE state # "running"
    BY <1>3, <1>5, <1>7 DEF CycleInProgress, Spaced!EndCycle
  <1> QED
    BY <1>6, <1>7

\* A step that moves neither the tasks nor their age is an abstract stutter.
LEMMA CyclesStutter ==
    ASSUME UNCHANGED <<cycle, since>>
    PROVE  UNCHANGED Spaced!cyclesVars
  BY DEF Spaced!cyclesVars, CycleInProgress

\* Every step of the scheduler begins or ends an abstract cycle, lets time pass
\* in it, or leaves it alone.
LEMMA StepIsAbstract ==
    ASSUME IInv, [Next]_vars
    PROVE  [Spaced!CyclesNext]_(Spaced!cyclesVars)
  <1>1. CASE RunOnce
    <2>1. ~ Created /\ ~ running /\ since = Interval
      BY <1>1 DEF RunOnce, IInv, BuiltIsEmpty, SinceMeasured, Created
    <2> QED
      BY <1>1, <2>1, CreateBegins DEF RunOnce, Spaced!CyclesNext
  <1>2. CASE Run
    <2>1. ~ Created /\ ~ running /\ since = Interval
      BY <1>2 DEF Run, IInv, BuiltIsEmpty, SinceMeasured, Created
    <2> QED
      BY <1>2, <2>1, CreateBegins DEF Run, Spaced!CyclesNext
  <1>3. CASE IntervalEnds
    <2>1. CASE running
      BY <1>3, <2>1, CyclesStutter DEF IntervalEnds
    <2>2. CASE ~ running
      <3>1. since = Interval
        BY <1>3, IntervalAssumption DEF IntervalEnds, IInv, TypeOK, SinceMeasured
      <3> QED
        BY <1>3, <2>2, <3>1, CreateBegins DEF IntervalEnds, Spaced!CyclesNext
    <2> QED
      BY <2>1, <2>2
  <1>4. CASE LeaveLoop \/ Drained \/ DrainTimesOut \/ CancelDone \/ Stop \/ UNCHANGED vars
    BY <1>4, CyclesStutter
    DEF LeaveLoop, Drained, DrainTimesOut, CancelDone, Stop, vars, histories
  <1>5. CASE CycleStarts
    BY <1>5, BecomeEnds
    DEF CycleStarts, CycleBegins, CycleOfNoTenants, CycleRaises, CycleExits, Created,
        histories, Spaced!CyclesNext
  <1>6. CASE CycleCompletes
    <2>1. PICK n \in Cycles : /\ cycle[n] = "running"
                             /\ cycle' = [cycle EXCEPT ![n] = "completed"]
      BY <1>6 DEF CycleCompletes
    <2>2. n = current /\ current > 0
      BY <2>1, OnlyTheLast DEF Cycles
    <2> QED
      BY <1>6, <2>1, <2>2, BecomeEnds
      DEF CycleCompletes, Become, histories, Spaced!CyclesNext
  <1>7. CASE CycleCancelled
    <2>1. current > 0
      BY <1>7, MaxCyclesAssumption DEF CycleCancelled, IInv, TypeOK, BuiltIsEmpty
    <2> QED
      BY <1>7, <2>1, BecomeEnds DEF CycleCancelled, histories, Spaced!CyclesNext
  <1>8. CASE Tick
    <2>1. cycle' = cycle /\ since \in 0 .. Interval
      BY <1>8 DEF Tick, IInv, TypeOK
    <2>2. CASE since = Interval
      BY <1>8, <2>1, <2>2, IntervalAssumption, CyclesStutter DEF Tick
    <2>3. CASE since < Interval
      BY <1>8, <2>1, <2>3, IntervalAssumption
      DEF Tick, Spaced!CyclesNext, Spaced!Tick, CycleInProgress
    <2> QED
      BY <2>1, <2>2, <2>3, IntervalAssumption
  <1>9. CASE CycleCutOff
    BY <1>9, BecomeEnds DEF CycleCutOff, histories, Spaced!CyclesNext
  <1> QED
    BY <1>1, <1>2, <1>3, <1>4, <1>5, <1>6, <1>7, <1>8, <1>9
    DEF Next, Scheduling, Stopped

\* The scheduler implements the abstract specification of the paced cycles: they
\* come one at a time and at least an interval apart, also after skipped
\* intervals, failed cycles and late wake-ups.
THEOREM ImplementsSpacedCyclesHolds == Spec => ImplementsSpacedCycles
  <1>1. Init => Spaced!CyclesInit
    <2> SUFFICES ASSUME Init
                 PROVE  Spaced!CyclesInit
      OBVIOUS
    <2>1. ~ CycleInProgress
      BY DEF Init, CycleInProgress
    <2> QED
      BY <2>1, IntervalAssumption DEF Init, CycleInProgress, Spaced!CyclesInit
  <1>2. IInv /\ [Next]_vars => [Spaced!CyclesNext]_(Spaced!cyclesVars)
    BY StepIsAbstract
  <1> QED
    BY <1>1, <1>2, Inductive, PTL DEF Spec, ImplementsSpacedCycles, Spaced!CyclesSpec
=============================================================================
