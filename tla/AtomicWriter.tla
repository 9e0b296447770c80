---------------------------- MODULE AtomicWriter ----------------------------
(***************************************************************************)
(* The write of one file by EntityWriter.write_entity (writer.py) and by   *)
(* save_state (state.py): serialise, write a temporary file of a fixed     *)
(* name in the same directory, os.replace it onto the final name, and in a *)
(* finally clause remove the temporary file if it is still there.          *)
(*                                                                         *)
(* Nothing is awaited in it, so in the extractor's one thread only a crash *)
(* of the process comes between two steps.  Every reader sees the final    *)
(* name at any moment.  Two Writers are two threads or processes that      *)
(* write the same file.                                                    *)
(***************************************************************************)
EXTENDS FiniteSets

CONSTANTS Writers,
          Contents,   \* complete contents of the file
          Absent,     \* no such file
          Partial     \* a file whose content is not complete

ASSUME FileAssumption == Absent \notin Contents /\ Partial \notin Contents
                            /\ Absent # Partial

VARIABLES final,    \* the file
          tmp,      \* the temporary file
          pc,       \* where a writer is
          data,     \* what it writes
          result,   \* how its last write ended
          before,   \* history: the file when that write began
          litter    \* history: a crash or a failed unlink left tmp behind

vars == <<final, tmp, pc, data, result, before, litter>>

File == Contents \cup {Absent, Partial}

TypeOK == /\ final \in File
          /\ tmp \in File
          /\ pc \in [Writers -> {"idle", "opened", "written", "replaced", "cleanup"}]
          /\ data \in [Writers -> Contents \cup {Absent}]
          /\ result \in [Writers -> {"none", "returned", "raised"}]
          /\ before \in [Writers -> File]
          /\ litter \in BOOLEAN

Init == /\ final = Absent
        /\ tmp = Absent
        /\ pc = [w \in Writers |-> "idle"]
        /\ data = [w \in Writers |-> Absent]
        /\ result = [w \in Writers |-> "none"]
        /\ before = [w \in Writers |-> Absent]
        /\ litter = FALSE

Goto(w, place) == pc' = [pc EXCEPT ![w] = place]

\* The call ends.
End(w, how) == /\ Goto(w, "idle")
               /\ result' = [result EXCEPT ![w] = how]
----------------------------------------------------------------------------
\* The write begins: orjson.dumps succeeds and opening the temporary file
\* creates or truncates it, or dumps or open raises and leaves it alone.
Begin(w, d) ==
    /\ pc[w] = "idle"
    /\ data' = [data EXCEPT ![w] = d]
    /\ before' = [before EXCEPT ![w] = final]
    /\ result' = [result EXCEPT ![w] = "none"]
    /\ \/ /\ tmp' = Partial
          /\ Goto(w, "opened")
       \/ /\ Goto(w, "cleanup")
          /\ UNCHANGED tmp
    /\ UNCHANGED <<final, litter>>

\* Fault variant of Write: the final name is opened and written in place.
WriteInPlace(w) ==
    /\ pc[w] = "opened"
    /\ final' = Partial
    /\ Goto(w, "written")
    /\ tmp' = data[w]
    /\ UNCHANGED <<data, result, before, litter>>

\* Fault variant of Write: a full disk goes unnoticed.
WriteUnchecked(w) ==
    /\ pc[w] = "opened"
    /\ Goto(w, "written")
    /\ tmp' \in {data[w], Partial}
    /\ UNCHANGED <<final, data, result, before, litter>>

\* write_bytes() has written everything, or raises when the disk is full.
Write(w) ==
    /\ pc[w] = "opened"
    /\ \/ /\ tmp' = data[w]
          /\ Goto(w, "written")
       \/ /\ Goto(w, "cleanup")
          /\ UNCHANGED tmp
    /\ UNCHANGED <<final, data, result, before, litter>>

\* Fault variant of Replace: an error of os.replace is swallowed.
ReplaceUnchecked(w) ==
    /\ pc[w] = "written"
    /\ \/ /\ tmp # Absent
          /\ final' = tmp
          /\ tmp' = Absent
       \/ UNCHANGED <<final, tmp>>
    /\ Goto(w, "replaced")
    /\ UNCHANGED <<data, result, before, litter>>

\* os.replace() moves whatever the temporary name holds, or raises.
Replace(w) ==
    /\ pc[w] = "written"
    /\ \/ /\ tmp # Absent
          /\ final' = tmp
          /\ tmp' = Absent
          /\ Goto(w, "replaced")
       \/ /\ Goto(w, "cleanup")
          /\ UNCHANGED <<final, tmp>>
    /\ UNCHANGED <<data, result, before, litter>>

\* The finally clause after a replace: there should be nothing to remove.
Finish(w) ==
    /\ pc[w] = "replaced"
    /\ tmp' = Absent
    /\ litter' = FALSE
    /\ End(w, "returned")
    /\ UNCHANGED <<final, data, before>>

\* Fault variant of CleanUp: there is no finally clause.
NoCleanUp(w) ==
    /\ pc[w] = "cleanup"
    /\ End(w, "raised")
    /\ UNCHANGED <<final, tmp, data, before, litter>>

\* The finally clause after an exception: the temporary file is removed if it
\* exists, an OSError of unlink() is ignored, and the exception goes on.
CleanUp(w) ==
    /\ pc[w] = "cleanup"
    /\ \/ /\ tmp' = Absent
          /\ litter' = FALSE
       \/ /\ tmp # Absent
          /\ litter' = TRUE
          /\ UNCHANGED tmp
    /\ End(w, "raised")
    /\ UNCHANGED <<final, data, before>>

\* The process dies and is started again: only the files are left.
Crash ==
    /\ \E w \in Writers : pc[w] # "idle"
    /\ pc' = [w \in Writers |-> "idle"]
    /\ result' = [w \in Writers |-> "none"]
    /\ litter' = (litter \/ tmp # Absent)
    /\ UNCHANGED <<final, tmp, data, before>>

Next == \/ \E w \in Writers : \/ \E d \in Contents : Begin(w, d)
                              \/ Write(w)
                              \/ Replace(w)
                              \/ Finish(w)
                              \/ CleanUp(w)
        \/ Crash

Spec == Init /\ [][Next]_vars
----------------------------------------------------------------------------
\* No reader ever finds a file that is not complete, whatever fails and
\* whenever the process dies.
NeverPartial == final # Partial

\* A write is done or not done, and says which: after one that returned the
\* file has its content, after one that raised the file is what it was.
OutcomeTold ==
    \A w \in Writers :
        /\ result[w] = "returned" => final = data[w]
        /\ result[w] = "raised" => final = before[w]

\* A crash leaves the old file or the new one.
OldOrNew ==
    \A w \in Writers : final \in {before[w], data[w]}

\* Temporary files do not pile up: one is left only by a crash or a failed
\* unlink, and the next write of the file that gets to its end removes it.
NoLitter ==
    (\A w \in Writers : pc[w] = "idle") /\ tmp # Absent => litter

\* How far a call is, seen from outside: it has taken effect once os.replace()
\* has moved the temporary file.
CallOf(place) == CASE place = "idle" -> "idle"
                   [] place = "replaced" -> "done"
                   [] OTHER -> "begun"

Atomic == INSTANCE AtomicFile
    WITH file <- final, call <- [w \in Writers |-> CallOf(pc[w])]

\* The five steps of a write are one step to every reader, and the end of the
\* call says whether it was taken, at every failure and every crash.
ImplementsAtomicFile == Atomic!FileSpec
============================================================================
