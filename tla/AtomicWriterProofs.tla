------------------------- MODULE AtomicWriterProofs -------------------------
(***************************************************************************)
(* Proofs about AtomicWriter for every set of contents and one writer of   *)
(* the file, which is what the extractor's one thread guarantees.          *)
(*                                                                         *)
(* Two writers share the name of the temporary file, so nothing of this    *)
(* holds for two of them; OneWriter is an assumption of every theorem.     *)
(***************************************************************************)
EXTENDS AtomicWriter, TLAPS

OneWriter == \A a, b \in Writers : a = b

\* What the two files hold at each place of the call.
Progress ==
    \A w \in Writers :
        /\ pc[w] \in {"opened", "written", "cleanup"} => final = before[w]
        /\ pc[w] = "opened" => data[w] \in Contents
        /\ pc[w] = "written" => data[w] \in Contents /\ tmp = data[w]
        /\ pc[w] = "replaced" => final = data[w] /\ tmp = Absent

\* Only a call that has ended has a result.
ResultAtTheEnd == \A w \in Writers : result[w] # "none" => pc[w] = "idle"

IInv == /\ TypeOK
        /\ Progress /\ ResultAtTheEnd
        /\ NeverPartial /\ OutcomeTold /\ OldOrNew /\ NoLitter
----------------------------------------------------------------------------
\* There are no files in the initial state.
LEMMA InitEstablishes == Init => IInv
  BY FileAssumption
  DEF Init, IInv, TypeOK, File, Progress, ResultAtTheEnd, NeverPartial, OutcomeTold,
      OldOrNew, NoLitter

\* With one writer, a step of the writer leaves no other writer behind.
LEMMA TheOnlyOne ==
    ASSUME OneWriter, NEW w \in Writers, NEW v \in Writers
    PROVE  v = w
  BY DEF OneWriter

\* Every step of the call and a crash between any two of them preserve the
\* invariant.
LEMMA StepPreserves ==
    ASSUME OneWriter, IInv, [Next]_vars
    PROVE  IInv'
  <1> USE FileAssumption, TheOnlyOne DEF IInv, Goto, End
  <1>1. ASSUME NEW w \in Writers, NEW d \in Contents, Begin(w, d)
        PROVE  IInv'
    <2>1. TypeOK'
      BY <1>1 DEF Begin, TypeOK, File
    <2>2. Progress' /\ ResultAtTheEnd'
      BY <1>1 DEF Begin, TypeOK, Progress, ResultAtTheEnd
    <2>3. NeverPartial' /\ OutcomeTold' /\ OldOrNew'
      BY <1>1 DEF Begin, TypeOK, File, Progress, ResultAtTheEnd, NeverPartial, OutcomeTold,
                   OldOrNew
    <2>4. NoLitter'
      BY <1>1 DEF Begin, TypeOK, Progress, NoLitter
    <2> QED
      BY <2>1, <2>2, <2>3, <2>4
  <1>2. ASSUME NEW w \in Writers, Write(w)
        PROVE  IInv'
    <2>1. TypeOK'
      BY <1>2 DEF Write, TypeOK, File
    <2>2. Progress' /\ ResultAtTheEnd'
      BY <1>2 DEF Write, TypeOK, Progress, ResultAtTheEnd
    <2>3. NeverPartial' /\ OutcomeTold' /\ OldOrNew'
      BY <1>2 DEF Write, TypeOK, File, Progress, ResultAtTheEnd, NeverPartial, OutcomeTold,
                   OldOrNew
    <2>4. NoLitter'
      BY <1>2 DEF Write, TypeOK, Progress, NoLitter
    <2> QED
      BY <2>1, <2>2, <2>3, <2>4
  <1>3. ASSUME NEW w \in Writers, Replace(w)
        PROVE  IInv'
    <2>1. TypeOK'
      BY <1>3 DEF Replace, TypeOK, File
    <2>2. Progress' /\ ResultAtTheEnd'
      BY <1>3 DEF Replace, TypeOK, Progress, ResultAtTheEnd
    <2>3. NeverPartial' /\ OutcomeTold' /\ OldOrNew'
      BY <1>3 DEF Replace, TypeOK, File, Progress, ResultAtTheEnd, NeverPartial, OutcomeTold,
                   OldOrNew
    <2>4. NoLitter'
      BY <1>3 DEF Replace, TypeOK, Progress, NoLitter
    <2> QED
      BY <2>1, <2>2, <2>3, <2>4
  <1>4. ASSUME NEW w \in Writers, Finish(w)
        PROVE  IInv'
    <2>1. TypeOK'
      BY <1>4 DEF Finish, TypeOK, File
    <2>2. Progress' /\ ResultAtTheEnd'
      BY <1>4 DEF Finish, TypeOK, Progress, ResultAtTheEnd
    <2>3. NeverPartial' /\ OutcomeTold' /\ OldOrNew'
      BY <1>4 DEF Finish, TypeOK, File, Progress, ResultAtTheEnd, NeverPartial, OutcomeTold,
                   OldOrNew
    <2>4. NoLitter'
      BY <1>4 DEF Finish, TypeOK, Progress, NoLitter
    <2> QED
      BY <2>1, <2>2, <2>3, <2>4
  <1>5. ASSUME NEW w \in Writers, CleanUp(w)
        PROVE  IInv'
    <2>1. TypeOK'
      BY <1>5 DEF CleanUp, TypeOK, File
    <2>2. Progress' /\ ResultAtTheEnd'
      BY <1>5 DEF CleanUp, TypeOK, Progress, ResultAtTheEnd
    <2>3. NeverPartial' /\ OutcomeTold' /\ OldOrNew'
      BY <1>5 DEF CleanUp, TypeOK, File, Progress, ResultAtTheEnd, NeverPartial, OutcomeTold,
                   OldOrNew
    <2>4. NoLitter'
      BY <1>5 DEF CleanUp, TypeOK, Progress, NoLitter
    <2> QED
      BY <2>1, <2>2, <2>3, <2>4
  <1>6. CASE Crash
    <2>1. TypeOK'
      BY <1>6 DEF Crash, TypeOK, File
    <2>2. Progress' /\ ResultAtTheEnd'
      BY <1>6 DEF Crash, Progress, ResultAtTheEnd
    <2>3. NeverPartial' /\ OutcomeTold' /\ OldOrNew'
      BY <1>6 DEF Crash, NeverPartial, OutcomeTold, OldOrNew
    <2>4. NoLitter'
      BY <1>6 DEF Crash, NoLitter
    <2> QED
      BY <2>1, <2>2, <2>3, <2>4
  <1>7. CASE UNCHANGED vars
    BY <1>7 DEF vars, TypeOK, File, Progress, ResultAtTheEnd, NeverPartial, OutcomeTold,
                OldOrNew, NoLitter
  <1> QED
    BY <1>1, <1>2, <1>3, <1>4, <1>5, <1>6, <1>7 DEF Next

\* The invariant holds throughout.
THEOREM Inductive == ASSUME OneWriter PROVE Spec => []IInv
  <1>1. OneWriter /\ IInv /\ [Next]_vars => IInv'
    BY StepPreserves
  <1> QED
    BY <1>1, InitEstablishes, PTL DEF Spec
----------------------------------------------------------------------------
\* No reader ever finds a file that is not complete, whatever fails and
\* whenever the process dies.
THEOREM NeverPartialHolds == ASSUME OneWriter PROVE Spec => []NeverPartial
  <1>1. IInv => NeverPartial
    BY DEF IInv
  <1> QED
    BY <1>1, Inductive, PTL

\* A write that returned has taken place and one that raised has not.
THEOREM OutcomeToldHolds == ASSUME OneWriter PROVE Spec => []OutcomeTold
  <1>1. IInv => OutcomeTold
    BY DEF IInv
  <1> QED
    BY <1>1, Inductive, PTL

\* A crash leaves the old file or the new one.
THEOREM OldOrNewHolds == ASSUME OneWriter PROVE Spec => []OldOrNew
  <1>1. IInv => OldOrNew
    BY DEF IInv
  <1> QED
    BY <1>1, Inductive, PTL

\* Temporary files do not pile up.
THEOREM NoLitterHolds == ASSUME OneWriter PROVE Spec => []NoLitter
  <1>1. IInv => NoLitter
    BY DEF IInv
  <1> QED
    BY <1>1, Inductive, PTL
----------------------------------------------------------------------------
(* The abstract specification of the file.                                 *)

\* The calls as AtomicFile sees them.
Calls == [w \in Writers |-> CallOf(pc[w])]

\* A writer that goes to another place of the call moves the abstract call of
\* that writer.
LEMMA GotoMovesCall ==
    ASSUME TypeOK, NEW w \in Writers, NEW place, Goto(w, place)
    PROVE  /\ Calls[w] = CallOf(pc[w])
           /\ Calls' = [Calls EXCEPT ![w] = CallOf(place)]
           /\ CallOf(place) = CallOf(pc[w]) => Calls' = Calls
  <1>1. \A v \in Writers : pc'[v] = IF v = w THEN place ELSE pc[v]
    BY DEF Goto, TypeOK
  <1>2. \A v \in Writers : Calls'[v] = IF v = w THEN CallOf(place) ELSE Calls[v]
    BY <1>1 DEF Calls
  <1>3. Calls' = [v \in Writers |-> Calls'[v]] /\ Calls = [v \in Writers |-> Calls[v]]
    BY DEF Calls
  <1>4. Calls[w] = CallOf(pc[w])
    BY DEF Calls
  <1>5. Calls' = [Calls EXCEPT ![w] = CallOf(place)]
    BY <1>2, <1>3
  <1>6. CallOf(place) = CallOf(pc[w]) => Calls' = Calls
    BY <1>2, <1>3, <1>4
  <1> QED
    BY <1>4, <1>5, <1>6

\* A step inside a call that does not move the file is no step of AtomicFile.
LEMMA InsideTheCall ==
    ASSUME TypeOK, NEW w \in Writers, NEW place \in {"opened", "written", "cleanup"},
           pc[w] \in {"opened", "written", "cleanup"}, Goto(w, place),
           UNCHANGED <<final, data, result>>
    PROVE  UNCHANGED Atomic!fileVars
  <1>1. CallOf(place) = "begun" /\ CallOf(pc[w]) = "begun"
    BY DEF CallOf
  <1>2. Calls' = Calls
    BY <1>1, GotoMovesCall
  <1> QED
    BY <1>2 DEF Calls, Atomic!fileVars

\* Every step of a write begins or ends an abstract call, lets it take effect,
\* or leaves it alone.
LEMMA StepIsAbstract ==
    ASSUME OneWriter, IInv, [Next]_vars
    PROVE  [Atomic!FileNext]_(Atomic!fileVars)
  <1>typed. TypeOK
    BY DEF IInv
  <1>1. ASSUME NEW w \in Writers, NEW d \in Contents, Begin(w, d)
        PROVE  Atomic!BeginCall(w, d)
    <2>1. PICK place \in {"opened", "cleanup"} : Goto(w, place)
      BY <1>1 DEF Begin
    <2>2. CallOf(pc[w]) = "idle" /\ CallOf(place) = "begun"
      BY <1>1 DEF Begin, CallOf
    <2>3. Calls[w] = "idle" /\ Calls' = [Calls EXCEPT ![w] = "begun"]
      BY <2>1, <2>2, <1>typed, GotoMovesCall
    <2> QED
      BY <1>1, <2>3 DEF Begin, Calls, Atomic!BeginCall
  <1>2. ASSUME NEW w \in Writers, Write(w)
        PROVE  UNCHANGED Atomic!fileVars
    BY <1>2, <1>typed, InsideTheCall DEF Write
  <1>3. ASSUME NEW w \in Writers, Replace(w)
        PROVE  [Atomic!TakeEffect(w)]_(Atomic!fileVars)
    <2>1. CASE Goto(w, "cleanup")
      BY <1>3, <2>1, <1>typed, InsideTheCall DEF Replace, Goto, TypeOK
    <2>2. CASE final' = tmp /\ Goto(w, "replaced") /\ UNCHANGED <<data, result>>
      <3>1. CallOf(pc[w]) = "begun" /\ CallOf("replaced") = "done"
        BY <1>3 DEF Replace, CallOf
      <3>2. Calls[w] = "begun" /\ Calls' = [Calls EXCEPT ![w] = "done"]
        BY <2>2, <3>1, <1>typed, GotoMovesCall
      <3>3. final' = data[w]
        BY <1>3, <2>2 DEF Replace, IInv, Progress
      <3> QED
        BY <2>2, <3>2, <3>3 DEF Calls, Atomic!TakeEffect
    <2> QED
      BY <1>3, <2>1, <2>2 DEF Replace
  <1>4. ASSUME NEW w \in Writers, Finish(w) \/ CleanUp(w)
        PROVE  Atomic!EndCall(w)
    <2>1. Goto(w, "idle") /\ CallOf("idle") = "idle"
      BY <1>4 DEF Finish, CleanUp, End, CallOf
    <2>2. Calls[w] = CallOf(pc[w]) /\ Calls' = [Calls EXCEPT ![w] = "idle"]
      BY <2>1, <1>typed, GotoMovesCall
    <2>3. CASE Finish(w)
      BY <2>2, <2>3 DEF Finish, End, CallOf, Calls, Atomic!EndCall
    <2>4. CASE CleanUp(w)
      BY <2>2, <2>4 DEF CleanUp, End, CallOf, Calls, Atomic!EndCall
    <2> QED
      BY <1>4, <2>3, <2>4
  <1>5. ASSUME Crash
        PROVE  Atomic!Die
    <2>1. \A w \in Writers : CallOf(pc'[w]) = "idle"
      BY <1>5 DEF Crash, CallOf
    <2> QED
      BY <1>5, <2>1 DEF Crash, Atomic!Die
  <1>6. CASE UNCHANGED vars
    BY <1>6 DEF vars, CallOf, Atomic!fileVars
  <1> QED
    BY <1>1, <1>2, <1>3, <1>4, <1>5, <1>6 DEF Next, Atomic!FileNext

\* The five steps of a write are one step to every reader, which lies inside
\* the call and was taken exactly if the call returns, at every failure and
\* every crash.
THEOREM ImplementsAtomicFileHolds ==
    ASSUME OneWriter PROVE Spec => ImplementsAtomicFile
  <1>1. Init => Atomic!FileInit
    BY DEF Init, CallOf, Atomic!FileInit
  <1>2. OneWriter /\ IInv /\ [Next]_vars => [Atomic!FileNext]_(Atomic!fileVars)
    BY StepIsAbstract
  <1> QED
    BY <1>1, <1>2, Inductive, PTL DEF Spec, ImplementsAtomicFile, Atomic!FileSpec
============================================================================
