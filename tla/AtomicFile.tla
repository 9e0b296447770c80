----------------------------- MODULE AtomicFile -----------------------------
(***************************************************************************)
(* What a write promises to everyone who reads the file or calls the       *)
(* write: the content changes in one step, that step lies inside the call, *)
(* a call that returns has taken it and one that raises has not.  There is *)
(* no temporary file in it.  AtomicWriter implements this specification;   *)
(* Extraction, whose writes are single steps, relies on it.                *)
(***************************************************************************)
CONSTANTS Writers,
          Contents,   \* complete contents of the file
          Absent      \* no such file

VARIABLES file,    \* what a reader finds
          call,    \* how far the call of a writer is
          data,    \* what it writes
          result   \* how its last call ended

fileVars == <<file, call, data, result>>

FileInit == /\ file = Absent
            /\ call = [w \in Writers |-> "idle"]
            /\ data = [w \in Writers |-> Absent]
            /\ result = [w \in Writers |-> "none"]

BeginCall(w, d) == /\ call[w] = "idle"
                   /\ call' = [call EXCEPT ![w] = "begun"]
                   /\ data' = [data EXCEPT ![w] = d]
                   /\ result' = [result EXCEPT ![w] = "none"]
                   /\ UNCHANGED file

TakeEffect(w) == /\ call[w] = "begun"
                 /\ call' = [call EXCEPT ![w] = "done"]
                 /\ file' = data[w]
                 /\ UNCHANGED <<data, result>>

\* The call ends after it has taken effect, or before and never will.
EndCall(w) == /\ \/ /\ call[w] = "done"
                    /\ result' = [result EXCEPT ![w] = "returned"]
                 \/ /\ call[w] = "begun"
                    /\ result' = [result EXCEPT ![w] = "raised"]
              /\ call' = [call EXCEPT ![w] = "idle"]
              /\ UNCHANGED <<file, data>>

\* The process dies before or after any of these steps.
Die == /\ call' = [w \in Writers |-> "idle"]
       /\ result' = [w \in Writers |-> "none"]
       /\ UNCHANGED <<file, data>>

FileNext == \/ \E w \in Writers : \/ \E d \in Contents : BeginCall(w, d)
                                  \/ TakeEffect(w)
                                  \/ EndCall(w)
            \/ Die

FileSpec == FileInit /\ [][FileNext]_fileVars
============================================================================
