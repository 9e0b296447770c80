------------------------------ MODULE Replica ------------------------------
(***************************************************************************)
(* What incremental extraction promises about its copy of the tasks, with  *)
(* no cycles, walks, pages or timestamps in it.  Extraction implements     *)
(* this specification.                                                     *)
(*                                                                         *)
(* A task of the copy is current, or due: it is out of date, and the next  *)
(* cycle that sees it will fetch it; or missed: it is out of date, and no  *)
(* cycle will ask for it before somebody edits it.  A task that has been   *)
(* seen is missed only with a report.  The promise does not reach further: *)
(* one that is missed before it is seen (its project is shared with the    *)
(* extractor later than a timestamp was saved) is not reported, and stays  *)
(* missed when it is seen.                                                 *)
(***************************************************************************)
CONSTANT Tasks

VARIABLES status,     \* of each task
          seen,       \* tasks of which the extractor has seen a project
          reported    \* tasks that a warning says were not fetched

replicaVars == <<status, seen, reported>>

ReplicaInit == /\ status = [t \in Tasks |-> "due"]
               /\ seen = {}
               /\ reported = {}

\* The task is edited: an old report is not about its new content.
Change(t) == /\ status' = [status EXCEPT ![t] = "due"]
             /\ reported' = reported \ {t}
             /\ UNCHANGED seen

\* More tasks are seen; what they are is not changed by that.
Discover(some) == /\ seen' = seen \cup some
                  /\ UNCHANGED <<status, reported>>

\* The task is fetched, possibly in a version that is out of date already, but
\* then it is fetched again.
Fetch(t) == /\ t \in seen
            /\ \/ status' = [status EXCEPT ![t] = "current"]
               \/ /\ status[t] # "missed"
                  /\ status' = [status EXCEPT ![t] = "due"]
            /\ reported' = reported \ {t}
            /\ UNCHANGED seen

\* The next cycle will ask for less.  What has been seen and is skipped is
\* reported; all else that has been seen and is out of date stays due.
Advance(skipped) ==
    /\ skipped \subseteq seen
    /\ \E passed \in SUBSET (skipped \cup (Tasks \ seen)) :
           status' = [t \in Tasks |-> IF t \in passed /\ status[t] = "due"
                                      THEN "missed" ELSE status[t]]
    /\ reported' = reported \cup skipped
    /\ UNCHANGED seen

\* The next cycle will ask for everything.
StartOver(forgotten) ==
    /\ status' = [t \in Tasks |-> IF t \in forgotten /\ status[t] = "missed"
                                  THEN "due" ELSE status[t]]
    /\ UNCHANGED <<seen, reported>>

ReplicaNext ==
    \/ \E t \in Tasks : Change(t) \/ Fetch(t)
    \/ \E some \in SUBSET Tasks : Discover(some) \/ Advance(some) \/ StartOver(some)

ReplicaSpec == ReplicaInit /\ [][ReplicaNext]_replicaVars
============================================================================
