---------------------- MODULE RateLimitedClientProofs ----------------------
(***************************************************************************)
(* Proofs about RateLimitedClient for every finite set of coroutines, every*)
(* assignment to workspaces and every limit.                               *)
(*                                                                         *)
(* What a coroutine holds of the semaphore is a function of where it is    *)
(* and of is_retry (Held).  Every step of a coroutine has the same shape:  *)
(* it goes to a place, with an is_retry, gives to the semaphore what it    *)
(* holds less afterwards, and joins or leaves the queue if that place is   *)
(* or was the queue.  The accounting follows from the shape.               *)
(***************************************************************************)
EXTENDS RateLimitedClient, TokenBucketOpsProofs, FiniteSetTheorems, SequenceTheorems

USE DEF Fill

\* The slots a coroutine holds at a place.
Held(place, again) == (IF place \in Inside THEN 1 ELSE 0) + (IF again THEN 1 ELSE 0)

\* Only a first attempt sleeps in record_429(), because a retry raises its
\* 429, and a call that is over is no retry.
FirstAttempts == \A c \in Callers : pc[c] \in {"cooling", "idle"} => ~ retry[c]

\* TypeOK except for the upper bound on permits, which is a consequence of
\* the accounting.
Typed == /\ pc \in [Callers -> Places]
         /\ timer \in [Callers -> Nat]
         /\ retry \in [Callers -> BOOLEAN]
         /\ attempt \in [Callers -> 0 .. MaxAttempts]
         /\ calls \in [Callers -> Nat]
         /\ permits \in Nat
         /\ queue \in Seq(Callers)
         /\ closed \in SUBSET Workspaces
         /\ bucket \in [Workspaces -> Fill]
         /\ pause \in [Workspaces -> Nat]
         /\ consecutive \in [Workspaces -> Nat]
         /\ streak \in [Workspaces -> Nat]

IInv == Typed /\ SlotsAccounted /\ FirstAttempts

\* The queue of the semaphore when a coroutine goes to a place.
Queueing(c, place) ==
    \/ pc[c] # "queued" /\ place = "queued" /\ queue' = Append(queue, c)
    \/ /\ pc[c] = "queued" /\ place # "queued"
       /\ queue # <<>> /\ c = Head(queue) /\ queue' = Tail(queue)
    \/ pc[c] # "queued" /\ place # "queued" /\ queue' = queue

\* The shape of a step of a coroutine.
Shape(c, place, again) ==
    /\ Goto(c, place)
    /\ retry' = [retry EXCEPT ![c] = again]
    /\ permits' \in Nat
    /\ permits' + Held(place, again) = permits + Held(pc[c], retry[c])
    /\ place \in {"cooling", "idle"} => ~ again
    /\ Queueing(c, place)

\* The variables that the shape does not speak of keep their types.
RestTyped == /\ timer' \in [Callers -> Nat]
             /\ attempt' \in [Callers -> 0 .. MaxAttempts]
             /\ calls' \in [Callers -> Nat]
             /\ closed' \in SUBSET Workspaces
             /\ bucket' \in [Workspaces -> Fill]
             /\ pause' \in [Workspaces -> Nat]
             /\ consecutive' \in [Workspaces -> Nat]
             /\ streak' \in [Workspaces -> Nat]
----------------------------------------------------------------------------
(* Counting the `async with` blocks that are open.                         *)

\* There are finitely many coroutines inside the semaphore.
LEMMA FramesFinite ==
    /\ IsFiniteSet(Outer) /\ Cardinality(Outer) \in Nat
    /\ IsFiniteSet(Inner) /\ Cardinality(Inner) \in Nat
    /\ IsFiniteSet(Waiting) /\ Cardinality(Waiting) \in Nat
    /\ Cardinality(Outer) <= Cardinality(Callers)
  <1>1. /\ Outer \in SUBSET Callers /\ Inner \in SUBSET Callers
        /\ Waiting \in SUBSET Callers
    BY DEF Outer, Inner, Waiting
  <1> QED
    BY <1>1, CallersAssumption, FS_Subset, FS_CardinalityType

LEMMA TypedAccounted == Typed /\ SlotsAccounted => TypeOK
  <1> SUFFICES ASSUME Typed, SlotsAccounted
               PROVE  TypeOK
    OBVIOUS
  <1>1. permits \in 0 .. MaxConcurrent
    BY FramesFinite, LimitsAssumption DEF SlotsAccounted, Typed
  <1> QED
    BY <1>1 DEF Typed, TypeOK

\* A coroutine that moves opens and closes its own blocks and no other's.
LEMMA FramesMove ==
    ASSUME Typed, NEW c \in Callers, NEW place \in Places, NEW again \in BOOLEAN,
           Goto(c, place), retry' = [retry EXCEPT ![c] = again]
    PROVE  /\ Cardinality(Outer') \in Nat /\ Cardinality(Inner') \in Nat
           /\ Cardinality(Outer') + Cardinality(Inner') + Held(pc[c], retry[c])
                  = Cardinality(Outer) + Cardinality(Inner) + Held(place, again)
  <1>1. /\ \A d \in Callers : pc'[d] = IF d = c THEN place ELSE pc[d]
        /\ \A d \in Callers : retry'[d] = IF d = c THEN again ELSE retry[d]
    BY DEF Typed, Goto
  <1>2. /\ Outer' = IF again THEN Outer \cup {c} ELSE Outer \ {c}
        /\ Inner' = IF place \in Inside THEN Inner \cup {c} ELSE Inner \ {c}
    BY <1>1 DEF Outer, Inner
  <1>3. /\ c \in Outer <=> retry[c]
        /\ c \in Inner <=> pc[c] \in Inside
    BY DEF Outer, Inner
  <1>4. /\ Cardinality(Outer \cup {c})
               = IF c \in Outer THEN Cardinality(Outer) ELSE Cardinality(Outer) + 1
        /\ Cardinality(Outer \ {c})
               = IF c \in Outer THEN Cardinality(Outer) - 1 ELSE Cardinality(Outer)
        /\ Cardinality(Inner \cup {c})
               = IF c \in Inner THEN Cardinality(Inner) ELSE Cardinality(Inner) + 1
        /\ Cardinality(Inner \ {c})
               = IF c \in Inner THEN Cardinality(Inner) - 1 ELSE Cardinality(Inner)
    BY FramesFinite, FS_AddElement, FS_RemoveElement
  <1>5. Cardinality(Outer') \in Nat /\ Cardinality(Inner') \in Nat
    <2>1. Outer' \in SUBSET Callers /\ Inner' \in SUBSET Callers
      BY DEF Outer, Inner
    <2> QED
      BY <2>1, CallersAssumption, FS_Subset, FS_CardinalityType
  <1>6. Cardinality(Outer) \in Nat /\ Cardinality(Inner) \in Nat
    BY FramesFinite
  <1> DEFINE o == Cardinality(Outer)
             i == Cardinality(Inner)
  <1>7. Cardinality(Outer')
            = o + (IF again THEN 1 ELSE 0) - (IF retry[c] THEN 1 ELSE 0)
    BY <1>2, <1>3, <1>4, <1>6
  <1>8. Cardinality(Inner')
            = i + (IF place \in Inside THEN 1 ELSE 0)
                - (IF pc[c] \in Inside THEN 1 ELSE 0)
    BY <1>2, <1>3, <1>4, <1>6
  <1> QED
    BY <1>5, <1>6, <1>7, <1>8 DEF Held
----------------------------------------------------------------------------
(* The shape of the steps.                                                 *)

\* A turn of bucket.acquire() goes on, sleeps or fails, and what the attempt
\* then holds and the free slots make up what there was.
LEMMA TakeTokenShape ==
    ASSUME Typed, NEW c \in Callers, NEW b \in [Workspaces -> Fill],
           NEW again \in BOOLEAN, NEW free \in Nat, TakeToken(c, b, again, free)
    PROVE  /\ \E place \in {"sending", "throttled", "idle"}, r \in BOOLEAN :
                  /\ Goto(c, place)
                  /\ retry' = [retry EXCEPT ![c] = r]
                  /\ permits' \in Nat
                  /\ permits' + Held(place, r) = free + Held("sending", again)
                  /\ place = "idle" => ~ r
           /\ timer' \in [Callers -> Nat]
           /\ \A d \in Callers \ {c} : timer'[d] = timer[d]
           /\ attempt' \in [Callers -> 0 .. MaxAttempts]
           /\ bucket' \in [Workspaces -> Fill]
  <1> DEFINE w == WorkspaceOf[c]
             paid == [b EXCEPT ![w] = @ - Unit]
  <1>1. w \in Workspaces /\ b[w] \in Fill
    BY WorkspaceAssumption
  <1>2. b[w] >= Unit => b[w] - Unit \in Fill
    BY <1>1, UnitAssumption, CapacityAssumption
  <1>3. b[w] >= Unit => paid \in [Workspaces -> Fill]
    <2> HIDE DEF Fill
    <2> QED
      BY <1>1, <1>2
  <1>4. 0 \in 0 .. MaxAttempts /\ 1 \in 0 .. MaxAttempts
    BY LimitsAssumption
  <1>5. CASE /\ b[w] >= Unit
             /\ bucket' = paid
             /\ Goto(c, "sending")
             /\ attempt' = [attempt EXCEPT ![c] = 1]
             /\ retry' = [retry EXCEPT ![c] = again]
             /\ permits' = free
             /\ UNCHANGED timer
    <2> HIDE DEF Fill, paid
    <2>1. permits' + Held("sending", again) = free + Held("sending", again)
      BY <1>5
    <2> QED
      BY <1>3, <1>4, <1>5, <2>1 DEF Typed
  <1>6. CASE b[w] >= Unit /\ FailUnsent(c, paid, again, free)
    <2>1. /\ bucket' = paid
          /\ Goto(c, "idle")
          /\ attempt' = [attempt EXCEPT ![c] = 0]
          /\ retry' = [retry EXCEPT ![c] = FALSE]
          /\ permits' = free + Frames(again)
          /\ UNCHANGED timer
      BY <1>6 DEF FailUnsent
    <2>2. permits' \in Nat /\ permits' + Held("idle", FALSE) = free + Held("sending", again)
      BY <2>1 DEF Held, Frames, Inside
    <2> HIDE DEF Fill, paid
    <2> QED
      BY <1>3, <1>4, <1>6, <2>1, <2>2 DEF Typed
  <1>7. CASE /\ b[w] < Unit
             /\ bucket' = b
             /\ Goto(c, "throttled")
             /\ timer' = [timer EXCEPT ![c] = WaitTime(b[w])]
             /\ retry' = [retry EXCEPT ![c] = again]
             /\ permits' = free
             /\ UNCHANGED attempt
    <2>1. WaitTime(b[w]) \in Nat
      BY <1>1, <1>7, WaitTimeIsEnough
    <2>2. permits' + Held("throttled", again) = free + Held("sending", again)
      BY <1>7 DEF Held, Inside
    <2> HIDE DEF Fill, paid
    <2> QED
      BY <1>7, <2>1, <2>2 DEF Typed
  <1> QED
    BY <1>5, <1>6, <1>7 DEF TakeToken

\* Going in by wait_if_paused() and the semaphore.
LEMMA EntryShape ==
    ASSUME Typed, NEW c \in Callers, NEW b \in [Workspaces -> Fill],
           NEW again \in BOOLEAN, pc[c] # "queued",
           WaitIfPaused(c, b, again) \/ AcquireSlot(c, b, again)
    PROVE  /\ \E place \in {"sending", "throttled", "idle", "queued", "paused"},
                 r \in BOOLEAN :
                  /\ Goto(c, place)
                  /\ retry' = [retry EXCEPT ![c] = r]
                  /\ permits' \in Nat
                  /\ permits' + Held(place, r) = permits + Held("queued", again)
                  /\ place = "idle" => ~ r
                  /\ Queueing(c, place)
           /\ timer' \in [Callers -> Nat]
           /\ \A d \in Callers \ {c} : timer'[d] = timer[d]
           /\ attempt' \in [Callers -> 0 .. MaxAttempts]
           /\ bucket' \in [Workspaces -> Fill]
  <1> HIDE DEF Fill
  <1>1. Held("sending", again) = 1 + Held("queued", again) /\ Held("queued", again) \in Nat
    BY DEF Held, Inside
  <1>2. CASE permits > 0 /\ queue' = queue /\ TakeToken(c, b, again, permits - 1)
    <2>1. permits - 1 \in Nat
      BY <1>2 DEF Typed
    <2>2. PICK place \in {"sending", "throttled", "idle"}, r \in BOOLEAN :
              /\ Goto(c, place)
              /\ retry' = [retry EXCEPT ![c] = r]
              /\ permits' \in Nat
              /\ permits' + Held(place, r) = (permits - 1) + Held("sending", again)
              /\ place = "idle" => ~ r
      BY <1>2, <2>1, TakeTokenShape
    <2>3. permits' + Held(place, r) = permits + Held("queued", again)
      BY <1>1, <2>2 DEF Typed
    <2>4. Queueing(c, place)
      BY <1>2, <2>2 DEF Queueing
    <2>5. place \in {"sending", "throttled", "idle", "queued", "paused"}
      OBVIOUS
    <2>6. /\ timer' \in [Callers -> Nat]
          /\ \A d \in Callers \ {c} : timer'[d] = timer[d]
          /\ attempt' \in [Callers -> 0 .. MaxAttempts]
          /\ bucket' \in [Workspaces -> Fill]
      BY <1>2, <2>1, TakeTokenShape
    <2> QED
      BY <2>2, <2>3, <2>4, <2>5, <2>6
  <1>3. CASE /\ queue' = Append(queue, c)
             /\ Goto(c, "queued")
             /\ bucket' = b
             /\ retry' = [retry EXCEPT ![c] = again]
             /\ UNCHANGED <<permits, timer, attempt>>
    <2>1. Queueing(c, "queued")
      BY <1>3 DEF Queueing
    <2> QED
      BY <1>3, <2>1 DEF Typed
  <1>4. CASE /\ pause[WorkspaceOf[c]] > 0
             /\ Goto(c, "paused")
             /\ timer' = [timer EXCEPT ![c] = pause[WorkspaceOf[c]]]
             /\ bucket' = b
             /\ retry' = [retry EXCEPT ![c] = again]
             /\ UNCHANGED <<permits, queue, attempt>>
    <2>1. pause[WorkspaceOf[c]] \in Nat
      BY WorkspaceAssumption DEF Typed
    <2>2. Held("paused", again) = Held("queued", again)
      BY DEF Held, Inside
    <2>3. Queueing(c, "paused")
      BY <1>4 DEF Queueing
    <2> QED
      BY <1>4, <2>1, <2>2, <2>3 DEF Typed
  <1> QED
    BY <1>2, <1>3, <1>4 DEF WaitIfPaused, AcquireSlot

\* A call that ends gives back what it holds.
LEMMA LeaveShape ==
    ASSUME Typed, NEW c \in Callers, pc[c] \in {"sending", "backoff"}, Leave(c)
    PROVE  /\ Shape(c, "idle", FALSE)
           /\ attempt' \in [Callers -> 0 .. MaxAttempts]
           /\ UNCHANGED <<timer, calls, closed, bucket>>
  <1>1. permits' = permits + Frames(retry[c]) /\ retry[c] \in BOOLEAN
    BY DEF Leave, Typed
  <1>2. permits' \in Nat
        /\ permits' + Held("idle", FALSE) = permits + Held(pc[c], retry[c])
    BY <1>1 DEF Held, Inside, Frames, Typed
  <1>3. Queueing(c, "idle")
    BY DEF Queueing, Leave
  <1>4. 0 \in 0 .. MaxAttempts
    BY LimitsAssumption
  <1> QED
    BY <1>2, <1>3, <1>4 DEF Leave, Shape, Typed

\* A coroutine that stays inside the semaphore in the same attempt.
LEMMA InsideShape ==
    ASSUME Typed, NEW c \in Callers, pc[c] \in Inside,
           NEW place \in {"sending", "backoff", "cooling"}, Goto(c, place),
           place = "cooling" => ~ retry[c], UNCHANGED <<retry, permits, queue>>
    PROVE  Shape(c, place, retry[c])
  <1>1. retry' = [retry EXCEPT ![c] = retry[c]]
    BY DEF Typed
  <1>2. permits' + Held(place, retry[c]) = permits + Held(pc[c], retry[c])
    BY DEF Held, Inside
  <1>3. Queueing(c, place)
    BY DEF Queueing, Inside
  <1> QED
    BY <1>1, <1>2, <1>3 DEF Shape, Typed

\* The bucket of a workspace that is emptied when its pause is over.
LEMMA ResetTyped ==
    ASSUME Typed, NEW w \in Workspaces
    PROVE  [bucket EXCEPT ![w] = 0] \in [Workspaces -> Fill]
  <1>1. 0 \in Fill /\ bucket \in [Workspaces -> Fill]
    BY CapacityAssumption, UnitAssumption DEF Typed
  <1> HIDE DEF Fill
  <1> QED
    BY <1>1

\* Going in from outside the semaphore: BeginCall and PauseEnds.
LEMMA GoInShape ==
    ASSUME Typed, NEW c \in Callers, pc[c] \in {"idle", "paused"},
           WaitIfPaused(c, bucket, retry[c]) \/ AcquireSlot(c, bucket, retry[c]),
           calls' \in [Callers -> Nat],
           UNCHANGED <<closed, pause, consecutive, streak>>
    PROVE  /\ \E place \in Places, r \in BOOLEAN : Shape(c, place, r) /\ place # "cooling"
           /\ RestTyped
  <1>1. bucket \in [Workspaces -> Fill] /\ retry[c] \in BOOLEAN
    BY DEF Typed
  <1> HIDE DEF Fill
  <1>2. PICK place \in {"sending", "throttled", "idle", "queued", "paused"},
             r \in BOOLEAN :
              /\ Goto(c, place)
              /\ retry' = [retry EXCEPT ![c] = r]
              /\ permits' \in Nat
              /\ permits' + Held(place, r) = permits + Held("queued", retry[c])
              /\ place = "idle" => ~ r
              /\ Queueing(c, place)
    BY <1>1, EntryShape
  <1>3. Held("queued", retry[c]) = Held(pc[c], retry[c])
    BY DEF Held, Inside
  <1>4. place \in Places /\ place # "cooling"
    BY DEF Places, Inside
  <1>5. Shape(c, place, r)
    BY <1>2, <1>3, <1>4 DEF Shape
  <1>6. /\ timer' \in [Callers -> Nat]
        /\ attempt' \in [Callers -> 0 .. MaxAttempts]
        /\ bucket' \in [Workspaces -> Fill]
    BY <1>1, EntryShape
  <1>7. RestTyped
    BY <1>6 DEF RestTyped, Typed
  <1> QED
    BY <1>4, <1>5, <1>7

LEMMA SlotGrantedShape ==
    ASSUME Typed, NEW c \in Callers, SlotGranted(c)
    PROVE  /\ \E place \in Places, r \in BOOLEAN : Shape(c, place, r) /\ place # "cooling"
           /\ RestTyped
  <1>1. /\ bucket \in [Workspaces -> Fill] /\ retry[c] \in BOOLEAN
        /\ permits - 1 \in Nat
    BY DEF Typed, SlotGranted
  <1> HIDE DEF Fill
  <1>2. PICK place \in {"sending", "throttled", "idle"}, r \in BOOLEAN :
              /\ Goto(c, place)
              /\ retry' = [retry EXCEPT ![c] = r]
              /\ permits' \in Nat
              /\ permits' + Held(place, r) = (permits - 1) + Held("sending", retry[c])
              /\ place = "idle" => ~ r
    BY <1>1, TakeTokenShape DEF SlotGranted
  <1>3. Held("sending", retry[c]) = 1 + Held(pc[c], retry[c])
        /\ Held(pc[c], retry[c]) \in Nat
    BY DEF Held, Inside, SlotGranted
  <1>4. place \in Places /\ place # "cooling" /\ place # "queued"
    BY DEF Places, Inside
  <1>5. Queueing(c, place)
    BY <1>4 DEF Queueing, SlotGranted
  <1>6. Shape(c, place, r)
    BY <1>2, <1>3, <1>4, <1>5 DEF Shape, Typed
  <1>7. /\ timer' \in [Callers -> Nat]
        /\ attempt' \in [Callers -> 0 .. MaxAttempts]
        /\ bucket' \in [Workspaces -> Fill]
    BY <1>1, TakeTokenShape DEF SlotGranted
  <1>8. RestTyped
    BY <1>7 DEF RestTyped, Typed, SlotGranted
  <1> QED
    BY <1>4, <1>6, <1>8

LEMMA TokenWaitEndsShape ==
    ASSUME Typed, NEW c \in Callers, TokenWaitEnds(c)
    PROVE  /\ \E place \in Places, r \in BOOLEAN : Shape(c, place, r) /\ place # "cooling"
           /\ RestTyped
  <1>1. /\ bucket \in [Workspaces -> Fill] /\ retry[c] \in BOOLEAN
        /\ permits \in Nat
    BY DEF Typed
  <1> HIDE DEF Fill
  <1>2. PICK place \in {"sending", "throttled", "idle"}, r \in BOOLEAN :
              /\ Goto(c, place)
              /\ retry' = [retry EXCEPT ![c] = r]
              /\ permits' \in Nat
              /\ permits' + Held(place, r) = permits + Held("sending", retry[c])
              /\ place = "idle" => ~ r
    BY <1>1, TakeTokenShape DEF TokenWaitEnds
  <1>3. Held("sending", retry[c]) = Held(pc[c], retry[c])
    BY DEF Held, Inside, TokenWaitEnds
  <1>4. place \in Places /\ place # "cooling" /\ place # "queued"
    BY DEF Places, Inside
  <1>5. Queueing(c, place)
    BY <1>4 DEF Queueing, TokenWaitEnds
  <1>6. Shape(c, place, r)
    BY <1>2, <1>3, <1>4, <1>5 DEF Shape
  <1>7. /\ timer' \in [Callers -> Nat]
        /\ attempt' \in [Callers -> 0 .. MaxAttempts]
        /\ bucket' \in [Workspaces -> Fill]
    BY <1>1, TakeTokenShape DEF TokenWaitEnds
  <1>8. RestTyped
    BY <1>7 DEF RestTyped, Typed, TokenWaitEnds
  <1> QED
    BY <1>4, <1>6, <1>8

\* The pause is over: the first attempt keeps its slot, and the retry goes in
\* as a second `async with`, queues or pauses.
LEMMA CoolDownEndsShape ==
    ASSUME Typed, FirstAttempts, NEW c \in Callers, CoolDownEnds(c)
    PROVE  /\ \E place \in Places, r \in BOOLEAN : Shape(c, place, r) /\ place # "cooling"
           /\ RestTyped
  <1> DEFINE reset == [bucket EXCEPT ![WorkspaceOf[c]] = 0]
  <1>1. reset \in [Workspaces -> Fill]
    BY ResetTyped, WorkspaceAssumption
  <1>2. /\ pc[c] = "cooling" /\ WaitIfPaused(c, reset, TRUE)
        /\ UNCHANGED <<calls, closed, pause, consecutive, streak>>
    BY DEF CoolDownEnds
  <1> HIDE DEF Fill, reset
  <1>3. PICK place \in {"sending", "throttled", "idle", "queued", "paused"},
             r \in BOOLEAN :
              /\ Goto(c, place)
              /\ retry' = [retry EXCEPT ![c] = r]
              /\ permits' \in Nat
              /\ permits' + Held(place, r) = permits + Held("queued", TRUE)
              /\ place = "idle" => ~ r
              /\ Queueing(c, place)
    BY <1>1, <1>2, EntryShape
  <1>4. Held("queued", TRUE) = Held(pc[c], retry[c])
    BY <1>2 DEF Held, Inside, FirstAttempts
  <1>5. place \in Places /\ place # "cooling"
    BY DEF Places, Inside
  <1>6. Shape(c, place, r)
    BY <1>3, <1>4, <1>5 DEF Shape
  <1>7. /\ timer' \in [Callers -> Nat]
        /\ attempt' \in [Callers -> 0 .. MaxAttempts]
        /\ bucket' \in [Workspaces -> Fill]
    BY <1>1, <1>2, EntryShape
  <1>8. RestTyped
    BY <1>2, <1>7 DEF RestTyped, Typed
  <1> QED
    BY <1>5, <1>6, <1>8

\* A 429 is counted and ends the call, or sends a first attempt to sleep; on
\* a retry it ends the call.
LEMMA TooManyRequestsShape ==
    ASSUME Typed, NEW c \in Callers, NEW after \in RetryAfters,
           TooManyRequests(c, after)
    PROVE  /\ \E place \in Places, r \in BOOLEAN : Shape(c, place, r)
           /\ RestTyped
  <1> DEFINE w == WorkspaceOf[c]
             count == consecutive[w] + 1
  <1>1. w \in Workspaces /\ after \in Nat /\ count \in Nat
    BY WorkspaceAssumption, LimitsAssumption DEF Typed
  <1>2. pc[c] = "sending" /\ streak' = [streak EXCEPT ![w] = @ + 1]
    BY DEF TooManyRequests
  <1>3. streak' \in [Workspaces -> Nat]
    BY <1>1, <1>2 DEF Typed
  <1>4. "idle" \in Places /\ "cooling" \in Places
    BY DEF Places, Inside
  <1>5. CASE Leave(c) /\ UNCHANGED pause /\ consecutive' \in [Workspaces -> Nat]
    <2>1. /\ Shape(c, "idle", FALSE)
          /\ attempt' \in [Callers -> 0 .. MaxAttempts]
          /\ UNCHANGED <<timer, calls, closed, bucket>>
      BY <1>2, <1>5, LeaveShape
    <2>2. RestTyped
      BY <1>3, <1>5, <2>1 DEF RestTyped, Typed
    <2> QED
      BY <1>4, <2>1, <2>2
  <1>6. CASE /\ ~ retry[c]
             /\ consecutive' \in [Workspaces -> Nat]
             /\ pause' = [pause EXCEPT ![w] = after]
             /\ Goto(c, "cooling")
             /\ timer' = [timer EXCEPT ![c] = after]
             /\ attempt' = [attempt EXCEPT ![c] = 0]
             /\ UNCHANGED <<retry, calls, slotVars, closed, bucket>>
    <2>1. pc[c] \in Inside
      BY <1>2 DEF Inside
    <2>2. Shape(c, "cooling", retry[c])
      BY <1>6, <2>1, InsideShape DEF slotVars
    <2>3. 0 \in 0 .. MaxAttempts
      BY LimitsAssumption
    <2>4. RestTyped
      BY <1>1, <1>3, <1>6, <2>3 DEF RestTyped, Typed
    <2>5. retry[c] \in BOOLEAN
      BY DEF Typed
    <2> QED
      BY <1>4, <2>2, <2>4, <2>5
  <1>7. consecutive' \in [Workspaces -> Nat]
    <2>1. consecutive' = consecutive \/ consecutive' = [consecutive EXCEPT ![w] = count]
      BY DEF TooManyRequests, Record429
    <2> QED
      BY <1>1, <2>1 DEF Typed
  <1> QED
    BY <1>5, <1>6, <1>7 DEF TooManyRequests, Record429

\* The other answers of HTTP, and the end of a backoff.
LEMMA AnswerShape ==
    ASSUME Typed, NEW c \in Callers,
           \/ Succeed(c) \/ BackOff(c) \/ ExhaustAttempts(c)
           \/ PermanentError(c) \/ Resend(c)
    PROVE  /\ \E place \in Places, r \in BOOLEAN : Shape(c, place, r) /\ place # "cooling"
           /\ RestTyped
  <1>1. {"idle", "sending", "backoff"} \subseteq Places /\ retry[c] \in BOOLEAN
    BY DEF Places, Inside, Typed
  <1>2. CASE /\ pc[c] \in {"sending", "backoff"}
             /\ Leave(c)
             /\ pause' \in [Workspaces -> Nat]
             /\ consecutive' \in [Workspaces -> Nat]
             /\ streak' \in [Workspaces -> Nat]
    <2>1. /\ Shape(c, "idle", FALSE)
          /\ attempt' \in [Callers -> 0 .. MaxAttempts]
          /\ UNCHANGED <<timer, calls, closed, bucket>>
      BY <1>2, LeaveShape
    <2>2. RestTyped
      BY <1>2, <2>1 DEF RestTyped, Typed
    <2> QED
      BY <1>1, <2>1, <2>2
  <1>3. CASE Succeed(c)
    <2>1. 0 \in Nat /\ WorkspaceOf[c] \in Workspaces
      BY WorkspaceAssumption
    <2> QED
      BY <1>2, <1>3, <2>1 DEF Succeed, Typed
  <1>4. CASE ExhaustAttempts(c) \/ PermanentError(c)
    BY <1>2, <1>4 DEF ExhaustAttempts, PermanentError, Typed
  <1>5. CASE BackOff(c)
    <2>1. pc[c] \in Inside
      BY <1>5 DEF BackOff, Inside
    <2>2. Shape(c, "backoff", retry[c])
      BY <1>5, <2>1, InsideShape DEF BackOff, slotVars
    <2>3. attempt' \in [Callers -> 0 .. MaxAttempts]
      BY <1>5, LimitsAssumption DEF BackOff, Typed
    <2>4. RestTyped
      BY <1>5, <2>3 DEF BackOff, RestTyped, Typed, stateVars
    <2> QED
      BY <1>1, <2>2, <2>4
  <1>6. CASE Resend(c)
    <2>1. UNCHANGED <<pause, consecutive, streak>> /\ pc[c] = "backoff"
      BY <1>6 DEF Resend
    <2>2. CASE Leave(c)
      BY <1>2, <2>1, <2>2 DEF Typed
    <2>3. CASE /\ Goto(c, "sending")
               /\ UNCHANGED <<timer, retry, attempt, calls, slotVars, closed, bucket>>
      <3>1. pc[c] \in Inside
        BY <2>1 DEF Inside
      <3>2. Shape(c, "sending", retry[c])
        BY <2>3, <3>1, InsideShape DEF slotVars
      <3>3. RestTyped
        BY <2>1, <2>3 DEF RestTyped, Typed
      <3> QED
        BY <1>1, <3>2, <3>3
    <2> QED
      BY <1>6, <2>2, <2>3 DEF Resend
  <1> QED
    BY <1>3, <1>4, <1>5, <1>6

\* Every step of a coroutine has the shape.
LEMMA CallerShape ==
    ASSUME Typed, FirstAttempts, NEW c \in Callers, BeginCall(c) \/ Continue(c)
    PROVE  /\ \E place \in Places, r \in BOOLEAN : Shape(c, place, r)
           /\ RestTyped
  <1>1. CASE BeginCall(c)
    <2>1. pc[c] = "idle" /\ retry[c] = FALSE
      BY <1>1 DEF BeginCall, FirstAttempts, Typed
    <2>2. calls' \in [Callers -> Nat]
      BY <1>1 DEF BeginCall, Typed
    <2>3. WaitIfPaused(c, bucket, retry[c])
      BY <1>1, <2>1 DEF BeginCall
    <2> QED
      BY <1>1, <2>1, <2>2, <2>3, GoInShape DEF BeginCall
  <1>2. CASE PauseEnds(c)
    <2>1. calls' \in [Callers -> Nat]
      BY <1>2 DEF PauseEnds, Typed
    <2> QED
      BY <1>2, <2>1, GoInShape DEF PauseEnds
  <1>3. CASE SlotGranted(c)
    BY <1>3, SlotGrantedShape
  <1>4. CASE TokenWaitEnds(c)
    BY <1>4, TokenWaitEndsShape
  <1>5. CASE CoolDownEnds(c)
    BY <1>5, CoolDownEndsShape
  <1>6. ASSUME NEW after \in RetryAfters, TooManyRequests(c, after)
        PROVE  /\ \E place \in Places, r \in BOOLEAN : Shape(c, place, r)
               /\ RestTyped
    BY <1>6, TooManyRequestsShape
  <1>7. CASE \/ Succeed(c) \/ BackOff(c) \/ ExhaustAttempts(c)
             \/ PermanentError(c) \/ Resend(c)
    BY <1>7, AnswerShape
  <1> QED
    BY <1>1, <1>2, <1>3, <1>4, <1>5, <1>6, <1>7 DEF Continue, Answer
----------------------------------------------------------------------------
(* What a step of this shape preserves.                                    *)

LEMMA ShapeTyped ==
    ASSUME Typed, NEW c \in Callers, NEW place \in Places, NEW r \in BOOLEAN,
           Shape(c, place, r), RestTyped
    PROVE  Typed'
  <1>1. pc' \in [Callers -> Places] /\ retry' \in [Callers -> BOOLEAN]
    BY DEF Typed, Shape, Goto
  <1>2. permits' \in Nat
    BY DEF Shape
  <1>3. queue' \in Seq(Callers)
    <2>1. queue \in Seq(Callers) /\ Queueing(c, place)
      BY DEF Typed, Shape
    <2>2. Append(queue, c) \in Seq(Callers)
      BY <2>1, AppendProperties
    <2>3. queue # <<>> => Tail(queue) \in Seq(Callers)
      BY <2>1, HeadTailProperties
    <2> QED
      BY <2>1, <2>2, <2>3 DEF Queueing
  <1> QED
    BY <1>1, <1>2, <1>3 DEF Typed, RestTyped

\* Slots that go from the free ones to the blocks of a coroutine, or back.
LEMMA SlotsBalance ==
    ASSUME NEW free \in Nat, NEW outer \in Nat, NEW inner \in Nat, NEW held \in Nat,
           NEW free2 \in Nat, NEW outer2 \in Nat, NEW inner2 \in Nat, NEW held2 \in Nat,
           NEW all \in Nat,
           free + outer + inner = all,
           free2 + held2 = free + held,
           outer2 + inner2 + held = outer + inner + held2
    PROVE  free2 + outer2 + inner2 = all
  OBVIOUS

\* No slot is lost or made by such a step.
LEMMA ShapeSlots ==
    ASSUME Typed, SlotsAccounted, FirstAttempts,
           NEW c \in Callers, NEW place \in Places, NEW r \in BOOLEAN,
           Shape(c, place, r)
    PROVE  SlotsAccounted' /\ FirstAttempts'
  <1>1. /\ Cardinality(Outer') \in Nat /\ Cardinality(Inner') \in Nat
        /\ Cardinality(Outer') + Cardinality(Inner') + Held(pc[c], retry[c])
               = Cardinality(Outer) + Cardinality(Inner) + Held(place, r)
    BY FramesMove DEF Shape
  <1>2. /\ permits \in Nat /\ permits' \in Nat
        /\ permits' + Held(place, r) = permits + Held(pc[c], retry[c])
    BY DEF Shape, Typed
  <1>3. Held(place, r) \in Nat /\ Held(pc[c], retry[c]) \in Nat
    BY DEF Held
  <1>4. /\ Cardinality(Outer) \in Nat /\ Cardinality(Inner) \in Nat
        /\ MaxConcurrent \in Nat
    BY FramesFinite, LimitsAssumption
  <1>5. SlotsAccounted'
    <2>1. permits + Cardinality(Outer) + Cardinality(Inner) = MaxConcurrent
      BY DEF SlotsAccounted
    <2>2. permits' + Cardinality(Outer') + Cardinality(Inner') = MaxConcurrent
      BY <1>1, <1>2, <1>3, <1>4, <2>1, SlotsBalance
    <2> QED
      BY <2>2 DEF SlotsAccounted
  <1>6. /\ \A d \in Callers : pc'[d] = IF d = c THEN place ELSE pc[d]
        /\ \A d \in Callers : retry'[d] = IF d = c THEN r ELSE retry[d]
        /\ place \in {"cooling", "idle"} => ~ r
    BY DEF Shape, Goto, Typed
  <1>7. FirstAttempts'
    BY <1>6 DEF FirstAttempts
  <1> QED
    BY <1>5, <1>7
----------------------------------------------------------------------------
(* The inductive invariant.                                                *)

LEMMA InitIInv == Init => IInv
  <1> SUFFICES ASSUME Init
               PROVE  IInv
    OBVIOUS
  <1>1. Typed
    BY UnitAssumption, CapacityAssumption, LimitsAssumption
       DEF Init, Typed, Places
  <1>2. Outer = {} /\ Inner = {}
    BY DEF Init, Outer, Inner, Inside
  <1>3. SlotsAccounted
    BY <1>2, FS_EmptySet, LimitsAssumption DEF Init, SlotsAccounted
  <1>4. FirstAttempts
    BY DEF Init, FirstAttempts
  <1> QED
    BY <1>1, <1>3, <1>4 DEF IInv

\* A step that leaves the coroutines where they are.
LEMMA StillIInv ==
    ASSUME IInv, Typed', UNCHANGED <<pc, retry, permits>>
    PROVE  IInv'
  <1>1. Outer' = Outer /\ Inner' = Inner
    BY DEF Outer, Inner
  <1> QED
    BY <1>1 DEF IInv, SlotsAccounted, FirstAttempts

LEMMA TickTyped ==
    ASSUME Typed, Tick
    PROVE  Typed'
  <1>1. \A n \in Nat : Less(n) \in Nat
    BY DEF Less
  <1>2. \A w \in Workspaces : Refill(bucket[w], 1) \in Fill
    BY RefillBounds DEF Typed
  <1>3. UNCHANGED <<pc, retry, attempt, calls, permits, queue, closed, consecutive, streak>>
    BY DEF Tick, slotVars
  <1>4. /\ timer' \in [Callers -> Nat]
        /\ pause' \in [Workspaces -> Nat]
        /\ bucket' \in [Workspaces -> Fill]
    BY <1>1, <1>2 DEF Tick, Typed
  <1> QED
    BY <1>3, <1>4 DEF Typed

LEMMA StepIInv == IInv /\ [Next]_vars => IInv'
  <1> SUFFICES ASSUME IInv, [Next]_vars
               PROVE  IInv'
    OBVIOUS
  <1>1. ASSUME NEW c \in Callers, BeginCall(c) \/ Continue(c)
        PROVE  IInv'
    <2>1. PICK place \in Places, r \in BOOLEAN : Shape(c, place, r)
      BY <1>1, CallerShape DEF IInv
    <2>2. RestTyped
      BY <1>1, CallerShape DEF IInv
    <2>3. Typed'
      BY <2>1, <2>2, ShapeTyped DEF IInv
    <2>4. SlotsAccounted' /\ FirstAttempts'
      BY <2>1, ShapeSlots DEF IInv
    <2> QED
      BY <2>3, <2>4 DEF IInv
  <1>2. ASSUME NEW w \in Workspaces, Close(w)
        PROVE  IInv'
    <2>1. Typed'
      BY <1>2 DEF IInv, Typed, Close, callerVars, slotVars, stateVars
    <2> QED
      BY <1>2, <2>1, StillIInv DEF Close, callerVars, slotVars
  <1>3. CASE Tick
    BY <1>3, TickTyped, StillIInv DEF IInv, Tick, slotVars
  <1>4. CASE UNCHANGED vars
    <2>1. Typed'
      BY <1>4 DEF IInv, Typed, vars, callerVars, slotVars, stateVars
    <2> QED
      BY <1>4, <2>1, StillIInv DEF vars, callerVars, slotVars
  <1> QED
    BY <1>1, <1>2, <1>3, <1>4 DEF Next, Done

\* The inductive invariant holds throughout.
LEMMA InductiveInvariant == Spec => []IInv
  BY InitIInv, StepIInv, PTL DEF Spec
----------------------------------------------------------------------------
\* The client's state is well formed; in particular the semaphore never has
\* more free slots than it was created with.
THEOREM TypeCorrect == Spec => []TypeOK
  <1>1. IInv => TypeOK
    BY TypedAccounted DEF IInv
  <1> QED
    BY <1>1, InductiveInvariant, PTL

\* No slot of the global semaphore is lost or returned twice, on any way out
\* of a call, over clients that are open or closed, for any number of
\* coroutines, workspaces and slots.
THEOREM SlotsAccountedHolds == Spec => []SlotsAccounted
  <1>1. IInv => SlotsAccounted
    BY DEF IInv
  <1> QED
    BY <1>1, InductiveInvariant, PTL

\* There are never more coroutines in an HTTP call than the semaphore allows
\* (GlobalRequestSemaphore: global cap on in-flight requests).
THEOREM InFlightBounded ==
    Spec => [](Cardinality({c \in Callers : pc[c] = "sending"}) <= MaxConcurrent)
  <1> DEFINE Sending == {c \in Callers : pc[c] = "sending"}
  <1>1. IInv => Cardinality(Sending) <= MaxConcurrent
    <2> SUFFICES ASSUME IInv
                 PROVE  Cardinality(Sending) <= MaxConcurrent
      OBVIOUS
    <2>1. Sending \in SUBSET Inner
      BY DEF Inner, Inside
    <2>2. /\ Cardinality(Sending) <= Cardinality(Inner)
          /\ Cardinality(Sending) \in Nat
      BY <2>1, FramesFinite, FS_Subset, FS_CardinalityType
    <2>3. /\ Cardinality(Inner) <= MaxConcurrent
          /\ Cardinality(Inner) \in Nat /\ MaxConcurrent \in Nat
      BY FramesFinite, LimitsAssumption DEF IInv, Typed, SlotsAccounted
    <2> HIDE DEF Sending
    <2> QED
      BY <2>2, <2>3
  <1> QED
    BY <1>1, InductiveInvariant, PTL

\* A standstill: somebody waits for a slot, none is free, and everybody who holds
\* one waits for another.
Standstill == /\ Waiting # {} /\ permits = 0
              /\ \A c \in Outer \cup Inner : c \in Waiting

\* The only standstill there can be is the one of the nested `async with`: every
\* slot is held by the first attempt of a call whose retry waits for another.
THEOREM OnlyRetriesStandStill ==
    Spec => [](Standstill => /\ Cardinality(Outer) = MaxConcurrent
                             /\ Outer \subseteq Waiting
                             /\ Inner = {})
  <1> DEFINE P == Standstill => /\ Cardinality(Outer) = MaxConcurrent
                                /\ Outer \subseteq Waiting
                                /\ Inner = {}
  <1>1. IInv => P
    <2> SUFFICES ASSUME IInv, Standstill
                 PROVE  /\ Cardinality(Outer) = MaxConcurrent
                        /\ Outer \subseteq Waiting
                        /\ Inner = {}
      OBVIOUS
    <2>1. Outer \subseteq Waiting /\ Inner = {} /\ permits = 0
      BY DEF Standstill, Inner, Waiting, Inside
    <2>2. Cardinality(Inner) = 0
      BY <2>1, FS_EmptySet
    <2>3. Cardinality(Outer) = MaxConcurrent
      BY <2>1, <2>2, FramesFinite DEF IInv, SlotsAccounted
    <2> QED
      BY <2>1, <2>3
  <1> QED
    BY <1>1, InductiveInvariant, PTL

\* A coroutine sets no other coroutine's timer.
LEMMA OtherTimers ==
    ASSUME Typed, NEW c \in Callers, BeginCall(c) \/ Continue(c)
    PROVE  \A d \in Callers \ {c} : timer'[d] = timer[d]
  <1>1. ASSUME NEW b, NEW again, NEW free, TakeToken(c, b, again, free)
        PROVE  \A d \in Callers \ {c} : timer'[d] = timer[d]
    BY <1>1 DEF TakeToken, FailUnsent, Typed
  <1>2. ASSUME NEW b, NEW again, WaitIfPaused(c, b, again) \/ AcquireSlot(c, b, again)
        PROVE  \A d \in Callers \ {c} : timer'[d] = timer[d]
    BY <1>1, <1>2 DEF WaitIfPaused, AcquireSlot, Typed
  <1>3. CASE BeginCall(c) \/ PauseEnds(c) \/ CoolDownEnds(c)
    BY <1>2, <1>3 DEF BeginCall, PauseEnds, CoolDownEnds
  <1>4. CASE SlotGranted(c) \/ TokenWaitEnds(c)
    BY <1>1, <1>4 DEF SlotGranted, TokenWaitEnds
  <1>5. CASE Answer(c) \/ Resend(c)
    BY <1>5 DEF Answer, Resend, Succeed, BackOff, ExhaustAttempts, PermanentError,
                TooManyRequests, Record429, Leave, Typed
  <1> QED
    BY <1>3, <1>4, <1>5 DEF Continue

\* A pause of a workspace has an owner throughout: a coroutine that will
\* empty the bucket and retry at the very end of it.  Only the owner's own
\* step could end that, and it takes none before its sleep is over.
THEOREM PauseOwnedHolds == Spec => []PauseOwned
  <1>1. Init => PauseOwned
    BY DEF Init, PauseOwned
  <1>2. IInv /\ PauseOwned /\ [Next]_vars => PauseOwned'
    <2> SUFFICES ASSUME IInv, PauseOwned, [Next]_vars
                 PROVE  PauseOwned'
      OBVIOUS
    <2>1. ASSUME UNCHANGED <<pc, timer, pause>>
          PROVE  PauseOwned'
      BY <2>1 DEF PauseOwned
    <2>2. ASSUME NEW c \in Callers, pc[c] = "cooling" => timer[c] = 0,
                 \A d \in Callers \ {c} : pc'[d] = pc[d] /\ timer'[d] = timer[d],
                 UNCHANGED pause
          PROVE  PauseOwned'
      BY <2>2 DEF PauseOwned
    <2>3. ASSUME NEW c \in Callers, NEW after \in RetryAfters, pc[c] = "sending",
                 pause' = [pause EXCEPT ![WorkspaceOf[c]] = after],
                 Goto(c, "cooling"), timer' = [timer EXCEPT ![c] = after]
          PROVE  PauseOwned'
      <3>1. /\ \A w \in Workspaces :
                   pause'[w] = IF w = WorkspaceOf[c] THEN after ELSE pause[w]
            /\ \A d \in Callers : pc'[d] = IF d = c THEN "cooling" ELSE pc[d]
            /\ \A d \in Callers : timer'[d] = IF d = c THEN after ELSE timer[d]
        BY <2>3 DEF IInv, Typed, Goto
      <3> QED
        BY <2>3, <3>1 DEF PauseOwned
    <2>4. ASSUME NEW c \in Callers, BeginCall(c) \/ Continue(c), UNCHANGED pause,
                 pc[c] = "cooling" => timer[c] = 0
          PROVE  PauseOwned'
      <3>1. PICK place \in Places, r \in BOOLEAN : Shape(c, place, r)
        BY <2>4, CallerShape DEF IInv
      <3>2. \A d \in Callers \ {c} : pc'[d] = pc[d]
        BY <3>1 DEF Shape, Goto, IInv, Typed
      <3>3. \A d \in Callers \ {c} : timer'[d] = timer[d]
        BY <2>4, OtherTimers DEF IInv
      <3> QED
        BY <2>2, <2>4, <3>2, <3>3
    <2>5. ASSUME NEW c \in Callers, BeginCall(c) \/ Continue(c)
          PROVE  PauseOwned'
      <3>1. CASE UNCHANGED pause /\ (pc[c] = "cooling" => timer[c] = 0)
        BY <2>4, <2>5, <3>1
      <3>2. ASSUME NEW after \in RetryAfters, TooManyRequests(c, after)
            PROVE  PauseOwned'
        <4>1. CASE UNCHANGED pause
          BY <3>1, <3>2, <4>1 DEF TooManyRequests
        <4>2. CASE pause' # pause
          <5>1. /\ pause' = [pause EXCEPT ![WorkspaceOf[c]] = after]
                /\ Goto(c, "cooling") /\ timer' = [timer EXCEPT ![c] = after]
                /\ pc[c] = "sending"
            BY <3>2, <4>2 DEF TooManyRequests, Record429
          <5> QED
            BY <2>3, <5>1
        <4> QED
          BY <4>1, <4>2
      <3> QED
        BY <2>5, <3>1, <3>2
           DEF BeginCall, Continue, Answer, PauseEnds, SlotGranted, TokenWaitEnds,
               Succeed, BackOff, ExhaustAttempts, PermanentError, Resend,
               CoolDownEnds, stateVars
    <2>6. CASE Tick
      <3>1. /\ \A c \in Callers : timer'[c] = Less(timer[c]) /\ timer[c] \in Nat
            /\ \A w \in Workspaces : pause'[w] = Less(pause[w]) /\ pause[w] \in Nat
            /\ pc' = pc
        BY <2>6 DEF Tick, IInv, Typed
      <3> SUFFICES ASSUME NEW w \in Workspaces, pause'[w] > 0
                   PROVE  \E c \in Callers : /\ WorkspaceOf[c] = w
                                             /\ pc'[c] = "cooling"
                                             /\ timer'[c] = pause'[w]
        BY DEF PauseOwned
      <3>2. pause[w] > 0
        BY <3>1 DEF Less
      <3>3. PICK c \in Callers : /\ WorkspaceOf[c] = w
                                 /\ pc[c] = "cooling"
                                 /\ timer[c] = pause[w]
        BY <3>2 DEF PauseOwned
      <3> QED
        BY <3>1, <3>3
    <2>7. ASSUME NEW w \in Workspaces, Close(w)
          PROVE  PauseOwned'
      BY <2>1, <2>7 DEF Close, callerVars, stateVars
    <2>8. CASE UNCHANGED vars
      BY <2>1, <2>8 DEF vars, callerVars, stateVars
    <2> QED
      BY <2>5, <2>6, <2>7, <2>8 DEF Next, Done
  <1> QED
    BY <1>1, <1>2, InductiveInvariant, PTL DEF Spec

\* record_429() never counts a 429 that the workspace did not get since its
\* last success, so the limit is never reached early.
THEOREM CountNotAboveStreakHolds == Spec => []CountNotAboveStreak
  <1>1. Init => CountNotAboveStreak
    BY DEF Init, CountNotAboveStreak
  <1>2. IInv /\ CountNotAboveStreak /\ [Next]_vars => CountNotAboveStreak'
    <2> SUFFICES ASSUME Typed, CountNotAboveStreak, [Next]_vars
                 PROVE  CountNotAboveStreak'
      BY DEF IInv
    <2>1. ASSUME UNCHANGED <<consecutive, streak>>
          PROVE  CountNotAboveStreak'
      BY <2>1 DEF CountNotAboveStreak
    <2>2. ASSUME NEW c \in Callers, Succeed(c)
          PROVE  CountNotAboveStreak'
      BY <2>2 DEF Succeed, CountNotAboveStreak, Typed
    <2>3. ASSUME NEW c \in Callers, NEW after \in RetryAfters,
                 TooManyRequests(c, after)
          PROVE  CountNotAboveStreak'
      <3>1. streak' = [streak EXCEPT ![WorkspaceOf[c]] = @ + 1]
        BY <2>3 DEF TooManyRequests
      <3>2. \/ consecutive' = consecutive
            \/ consecutive' = [consecutive EXCEPT ![WorkspaceOf[c]]
                                   = consecutive[WorkspaceOf[c]] + 1]
        BY <2>3 DEF TooManyRequests, Record429
      <3> SUFFICES ASSUME NEW w \in Workspaces
                   PROVE  consecutive'[w] <= streak'[w]
        BY DEF CountNotAboveStreak
      <3>3. /\ consecutive[w] \in Nat /\ streak[w] \in Nat
            /\ consecutive[w] <= streak[w]
        BY DEF CountNotAboveStreak, Typed
      <3>4. streak'[w] = IF w = WorkspaceOf[c] THEN streak[w] + 1 ELSE streak[w]
        BY <3>1 DEF Typed
      <3>5. \/ consecutive'[w] = consecutive[w]
            \/ w = WorkspaceOf[c] /\ consecutive'[w] = consecutive[w] + 1
        BY <3>2 DEF Typed
      <3> QED
        BY <3>3, <3>4, <3>5
    <2> QED
      BY <2>1, <2>2, <2>3
         DEF Next, BeginCall, Continue, PauseEnds, SlotGranted, TokenWaitEnds,
             Answer, BackOff, ExhaustAttempts, PermanentError, Resend,
             CoolDownEnds, Tick, Close, Done, vars, stateVars
  <1> QED
    BY <1>1, <1>2, InductiveInvariant, PTL DEF Spec
----------------------------------------------------------------------------
(* Every request is paid for.                                              *)

\* A coroutine goes on from where the buckets are b: it stays outside the HTTP
\* call and pays nothing, or pays one token of its workspace.
Pays(c, b) ==
    /\ \A d \in Callers \ {c} : pc'[d] = pc[d]
    /\ \/ bucket' = b /\ pc'[c] # "sending"
       \/ /\ b[WorkspaceOf[c]] >= Unit
          /\ bucket' = [b EXCEPT ![WorkspaceOf[c]] = @ - Unit]

\* Every turn of bucket.acquire(), and every way to it, pays or stays outside.
LEMMA TakeTokenPays ==
    ASSUME Typed, NEW c \in Callers, NEW b, NEW again, NEW free,
           TakeToken(c, b, again, free)
    PROVE  Pays(c, b)
  BY DEF TakeToken, FailUnsent, Goto, Typed, Pays

LEMMA EntryPays ==
    ASSUME Typed, NEW c \in Callers, NEW b, NEW again,
           WaitIfPaused(c, b, again) \/ AcquireSlot(c, b, again)
    PROVE  Pays(c, b)
  <1>1. ASSUME NEW free, TakeToken(c, b, again, free)
        PROVE  Pays(c, b)
    BY <1>1, TakeTokenPays
  <1>2. ASSUME NEW place \in {"queued", "paused"}, Goto(c, place), bucket' = b
        PROVE  Pays(c, b)
    BY <1>2 DEF Goto, Typed, Pays
  <1> QED
    BY <1>1, <1>2 DEF WaitIfPaused, AcquireSlot

\* Every answer of HTTP and every end of a backoff is free, and only the latter
\* leads back to HTTP.
LEMMA AnswersAreFree ==
    ASSUME Typed, NEW c \in Callers, Answer(c) \/ Resend(c)
    PROVE  /\ bucket' = bucket
           /\ \A d \in Callers \ {c} : pc'[d] = pc[d]
           /\ pc[c] \in {"sending", "backoff"}
  BY DEF Answer, Resend, Succeed, BackOff, ExhaustAttempts, PermanentError,
         TooManyRequests, Record429, Leave, Goto, Typed, stateVars

\* What a step of one coroutine does to the bucket of a workspace.
PaidStep(w) ==
    /\ Eager(w)!InUse \/ UNCHANGED bucket[w]
    /\ \A c \in Callers :
          WorkspaceOf[c] = w /\ pc[c] \notin {"sending", "backoff"}
              /\ pc'[c] = "sending" => Eager(w)!TakeOne

\* Paying out of the buckets as they are.
LEMMA PaysIsPaid ==
    ASSUME Typed, NEW c \in Callers, Pays(c, bucket), NEW w \in Workspaces
    PROVE  PaidStep(w)
  <1>1. CASE bucket' = bucket /\ pc'[c] # "sending"
    BY <1>1 DEF Pays, PaidStep
  <1>2. CASE /\ bucket[WorkspaceOf[c]] >= Unit
             /\ bucket' = [bucket EXCEPT ![WorkspaceOf[c]] = @ - Unit]
    <2>1. CASE w = WorkspaceOf[c]
      <3>1. bucket'[w] = bucket[w] - Unit
        BY <1>2, <2>1 DEF Typed
      <3>2. Eager(w)!TakeOne
        BY <1>2, <2>1, <3>1 DEF Eager!TakeOne
      <3> QED
        BY <3>2 DEF PaidStep, Eager!InUse
    <2>2. CASE w # WorkspaceOf[c]
      <3>1. bucket'[w] = bucket[w]
        BY <1>2, <2>2 DEF Typed
      <3> QED
        BY <2>2, <3>1 DEF Pays, PaidStep
    <2> QED
      BY <2>1, <2>2
  <1> QED
    BY <1>1, <1>2 DEF Pays

\* The end of a 429 pause: the bucket was emptied just before, so nobody is let
\* through.
LEMMA CoolDownIsPaid ==
    ASSUME Typed, NEW c \in Callers, CoolDownEnds(c), NEW w \in Workspaces
    PROVE  PaidStep(w)
  <1> DEFINE reset == [bucket EXCEPT ![WorkspaceOf[c]] = 0]
  <1>1. Pays(c, reset)
    BY EntryPays DEF CoolDownEnds
  <1>2. reset[WorkspaceOf[c]] = 0 /\ ~ (0 >= Unit)
    BY WorkspaceAssumption, UnitAssumption DEF Typed
  <1>3. bucket' = reset /\ pc'[c] # "sending"
    BY <1>1, <1>2 DEF Pays
  <1>4. bucket'[w] = bucket[w] \/ bucket'[w] = 0
    BY <1>3 DEF Typed
  <1>5. \A d \in Callers : pc'[d] = "sending" => pc[d] = "sending"
    BY <1>1, <1>3 DEF Pays
  <1> QED
    BY <1>4, <1>5 DEF PaidStep, Eager!InUse, Eager!Empty

\* No request goes out unpaid, for any number of coroutines that sleep for a
\* token of one bucket and wake together; and the buckets of the client move as
\* the bucket of TokenBucket does.
THEOREM PaidForHolds == Spec => PaidFor
  <1>1. ASSUME IInv, [Next]_vars, NEW w \in Workspaces
        PROVE  PaidStep(w)
    <2>typed. Typed
      BY <1>1 DEF IInv
    <2>1. ASSUME NEW c \in Callers, BeginCall(c) \/ Continue(c)
          PROVE  PaidStep(w)
      <3>1. CASE BeginCall(c) \/ PauseEnds(c) \/ SlotGranted(c) \/ TokenWaitEnds(c)
        <4>1. Pays(c, bucket)
          BY <3>1, <2>typed, EntryPays, TakeTokenPays
          DEF BeginCall, PauseEnds, SlotGranted, TokenWaitEnds
        <4> QED
          BY <4>1, <2>typed, PaysIsPaid
      <3>2. CASE CoolDownEnds(c)
        BY <3>2, <2>typed, CoolDownIsPaid
      <3>3. CASE Answer(c) \/ Resend(c)
        BY <3>3, <2>typed, AnswersAreFree DEF PaidStep
      <3> QED
        BY <2>1, <3>1, <3>2, <3>3 DEF Continue
    <2>2. CASE Tick
      <3>1. bucket'[w] = Refill(bucket[w], 1) /\ pc' = pc
        BY <2>2 DEF Tick
      <3>2. 1 * Rate = Rate
        BY RateAssumption
      <3>3. Eager(w)!TickIn
        BY <3>1, <3>2 DEF Refill, Eager!TickIn
      <3> QED
        BY <3>1, <3>3 DEF PaidStep, Eager!InUse
    <2>3. CASE UNCHANGED <<pc, bucket>>
      BY <2>3 DEF PaidStep
    <2> QED
      BY <1>1, <2>1, <2>2, <2>3
      DEF Next, Close, Done, vars, callerVars, stateVars
  <1>2. IInv /\ [Next]_vars
            => [\A w \in Workspaces :
                  /\ Eager(w)!InUse \/ UNCHANGED bucket[w]
                  /\ \A c \in Callers :
                        WorkspaceOf[c] = w /\ pc[c] \notin {"sending", "backoff"}
                            /\ pc'[c] = "sending" => Eager(w)!TakeOne]_vars
    BY <1>1 DEF PaidStep
  <1> QED
    BY <1>2, InductiveInvariant, PTL DEF Spec, PaidFor
============================================================================
