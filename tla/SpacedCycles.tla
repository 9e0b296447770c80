---------------------------- MODULE SpacedCycles ----------------------------
(***************************************************************************)
(* What the scheduler promises to those who are paced by it: cycles come   *)
(* one at a time and begin at least Interval ticks apart, with no loop,    *)
(* flag, timeout or signal in it.  Scheduler implements this specification *)
(* and TokenBucket relies on it.                                           *)
(***************************************************************************)
EXTENDS Naturals

CONSTANT Interval

VARIABLES wait,  \* ticks until the next cycle may begin
          busy   \* a cycle has begun and is not over

cyclesVars == <<wait, busy>>

CyclesInit == wait = 0 /\ busy = FALSE

BeginCycle == /\ ~ busy /\ wait = 0
              /\ busy' = TRUE /\ wait' = Interval

EndCycle == /\ busy
            /\ busy' = FALSE
            /\ UNCHANGED wait

Tick == /\ wait > 0
        /\ wait' = wait - 1
        /\ UNCHANGED busy

CyclesNext == BeginCycle \/ EndCycle \/ Tick

CyclesSpec == CyclesInit /\ [][CyclesNext]_cyclesVars
============================================================================
