----------------------------- MODULE Extraction -----------------------------
(***************************************************************************)
(* Incremental extraction: cycles of WorkspaceOrchestrator.run() over the  *)
(* workspaces, extract_workspace() in each, the task files it writes and   *)
(* the state file (state.py) whose timestamp becomes the modified_since of *)
(* the next cycle, against an Asana that is edited all the while.          *)
(*                                                                         *)
(* The clock is Asana's; the extractor's clock is Lag ticks behind it.     *)
(* A task's content is a version number, a page of tasks is one task.      *)
(* Requests, rate limits and retries are the business of RateLimitedClient *)
(* and show here as pages that come late or walks that fail.  Scheduler    *)
(* guarantees that cycles do not overlap (NoOverlap).                      *)
(*                                                                         *)
(* users and projects are refreshed in full; of them only their part in    *)
(* the control is modelled.  When one of the two fails, gather raises and  *)
(* the other one goes on without anyone waiting for it; the client is      *)
(* closed under it, so it writes nothing more and is left out.             *)
(***************************************************************************)
EXTENDS Integers, FiniteSets

CONSTANTS Workspaces,
          Projects,
          Tasks,
          HomeOf,         \* the workspace of a project
          ProjectsOf,     \* the projects a task is in
          MaxConcurrent,  \* max_concurrent_workspaces
          Lag,            \* how far the local clock is behind Asana's
          MaxTime,        \* bound: the clock stops here
          MaxVersion      \* bound: versions of a task

ASSUME WorkspacesAssumption == IsFiniteSet(Workspaces)
ASSUME HomeAssumption == HomeOf \in [Projects -> Workspaces]
ASSUME TasksAssumption ==
    /\ ProjectsOf \in [Tasks -> SUBSET Projects]
    /\ \A t \in Tasks : \A p, q \in ProjectsOf[t] : HomeOf[p] = HomeOf[q]
ASSUME LimitAssumption == MaxConcurrent \in Nat \ {0}
ASSUME LagAssumption == Lag \in Nat
ASSUME BoundsAssumption == MaxTime \in Nat /\ MaxVersion \in Nat

VARIABLES now,       \* Asana's clock
          version,   \* the content of a task in Asana
          modified,  \* its modified_at
          visible,   \* projects the token of their workspace can see
          file,      \* the version in the file of a task, 0 if there is none
          mark,      \* last_cycle_start in the state file of a workspace
          start,     \* cycle_start_iso of the cycle, on Asana's clock
          busy,      \* a cycle is in progress
          stage,     \* where the workspace is in _run_workspace
          permits,   \* free slots of the workspace semaphore
          since,     \* modified_since of the workspace
          listed,    \* its project_gids
          fetch,     \* TaskExtractor.extract of a project
          rest,      \* what its walk over the pages has yet to return
          page,      \* its page that is under way: at most one entry
          warned,    \* history: tasks that a warning says were not fetched as they are
          overlooked \* history: tasks whose project was not listed when a state was saved

serverVars == <<now, version, modified, visible>>
cycleVars  == <<start, busy, stage, permits, since, listed>>
walkVars   == <<fetch, rest, page>>
gaps       == <<warned, overlooked>>
vars == <<serverVars, cycleVars, walkVars, file, mark, gaps>>

\* No state file: before every time, so that nothing is filtered out.
Never == -1

Active == {"users", "projects", "both", "tasks"}
Entry == [task : Tasks, version : Nat]
TasksOf(p) == {t \in Tasks : p \in ProjectsOf[t]}
TasksIn(w) == {t \in Tasks : \E p \in ProjectsOf[t] : HomeOf[p] = w}
ProjectsIn(w) == {p \in Projects : HomeOf[p] = w}

TypeOK == /\ now \in Nat
          /\ version \in [Tasks -> Nat]
          /\ modified \in [Tasks -> Nat]
          /\ visible \in SUBSET Projects
          /\ file \in [Tasks -> Nat]
          /\ mark \in [Workspaces -> Nat \cup {Never}]
          /\ start \in Nat
          /\ busy \in BOOLEAN
          /\ stage \in [Workspaces -> {"off", "waiting", "succeeded", "failed"} \cup Active]
          /\ permits \in 0 .. MaxConcurrent
          /\ since \in [Workspaces -> Nat \cup {Never}]
          /\ listed \in [Workspaces -> SUBSET Projects]
          /\ fetch \in [Projects -> {"off", "starting", "fetching", "done", "failed"}]
          /\ rest \in [Projects -> SUBSET Tasks]
          /\ page \in [Projects -> SUBSET Entry]
          /\ warned \in SUBSET Tasks
          /\ overlooked \in SUBSET Tasks

Init == /\ now = Lag
        /\ version = [t \in Tasks |-> 1]
        /\ modified = [t \in Tasks |-> 0]
        /\ visible \in SUBSET Projects
        /\ file = [t \in Tasks |-> 0]
        /\ mark = [w \in Workspaces |-> Never]
        /\ start = 0
        /\ busy = FALSE
        /\ stage = [w \in Workspaces |-> "off"]
        /\ permits = MaxConcurrent
        /\ since = [w \in Workspaces |-> Never]
        /\ listed = [w \in Workspaces |-> {}]
        /\ fetch = [p \in Projects |-> "off"]
        /\ rest = [p \in Projects |-> {}]
        /\ page = [p \in Projects |-> {}]
        /\ warned = {}
        /\ overlooked = {}
----------------------------------------------------------------------------
\* What was said or not said about a task is no longer about what it is now.
NoGap(t) == /\ warned' = warned \ {t}
            /\ overlooked' = overlooked \ {t}
----------------------------------------------------------------------------
(* Asana.                                                                  *)

Tick == /\ now < MaxTime
        /\ now' = now + 1
        /\ UNCHANGED <<version, modified, visible, cycleVars, walkVars, file, mark, gaps>>

\* Somebody edits a task.
Edit(t) == /\ version[t] < MaxVersion
           /\ version' = [version EXCEPT ![t] = @ + 1]
           /\ modified' = [modified EXCEPT ![t] = now]
           /\ NoGap(t)
           /\ UNCHANGED <<now, visible, cycleVars, walkVars, file, mark>>

\* Somebody shares a project with the owner of the token.
Share(p) == /\ p \notin visible
            /\ visible' = visible \cup {p}
            /\ UNCHANGED <<now, version, modified, cycleVars, walkVars, file, mark, gaps>>

\* Fault variant of Query: only what was modified after the timestamp.
QueryAfter(p) ==
    /\ fetch[p] = "starting"
    /\ fetch' = [fetch EXCEPT ![p] = "fetching"]
    /\ rest' = [rest EXCEPT ![p] =
                    {t \in TasksOf(p) : modified[t] > since[HomeOf[p]]}]
    /\ UNCHANGED <<serverVars, cycleVars, page, file, mark, gaps>>

\* The first page of a walk decides which tasks it will return.
Query(p) ==
    /\ fetch[p] = "starting"
    /\ fetch' = [fetch EXCEPT ![p] = "fetching"]
    /\ rest' = [rest EXCEPT ![p] =
                    {t \in TasksOf(p) : modified[t] >= since[HomeOf[p]]}]
    /\ UNCHANGED <<serverVars, cycleVars, page, file, mark, gaps>>

\* A page leaves Asana with the content the task has at that moment.
AnswerPage(p) ==
    /\ fetch[p] = "fetching"
    /\ page[p] = {}
    /\ \E t \in rest[p] :
           /\ page' = [page EXCEPT ![p] = {[task |-> t, version |-> version[t]]}]
           /\ rest' = [rest EXCEPT ![p] = @ \ {t}]
    /\ UNCHANGED <<serverVars, cycleVars, fetch, file, mark, gaps>>
----------------------------------------------------------------------------
(* The orchestrator.                                                       *)

\* _run_cycle takes the time, lists the tenants and calls run(): a task per
\* tenant is queued at the workspace semaphore.
StartCycle ==
    /\ ~ busy
    /\ busy' = TRUE
    /\ start' = now - Lag
    /\ \E tenants \in SUBSET Workspaces :
           stage' = [w \in Workspaces |-> IF w \in tenants THEN "waiting" ELSE "off"]
    /\ UNCHANGED <<serverVars, permits, since, listed, walkVars, file, mark, gaps>>

\* A slot of the semaphore: load_state(), where a file that cannot be read
\* counts as none.  Users and projects are then extracted together.
BeginWorkspace(w) ==
    /\ stage[w] = "waiting"
    /\ permits > 0
    /\ permits' = permits - 1
    /\ stage' = [stage EXCEPT ![w] = "both"]
    /\ \E loaded \in {mark[w], Never} : since' = [since EXCEPT ![w] = loaded]
    /\ UNCHANGED <<serverVars, start, busy, listed, walkVars, file, mark, gaps>>

\* _run_workspace ends and gives its slot back.
LeaveWorkspace(w, outcome) ==
    /\ stage' = [stage EXCEPT ![w] = outcome]
    /\ permits' = permits + 1

\* Both of phase 1 are done: extract_all() starts a walk for each project.
StartWalks(w, projects) ==
    /\ stage' = [stage EXCEPT ![w] = "tasks"]
    /\ fetch' = [p \in Projects |-> IF p \in projects THEN "starting" ELSE fetch[p]]

\* UserExtractor.extract() is done; "projects" is still to come, or was first.
FinishUsers(w) ==
    /\ \/ /\ stage[w] = "both"
          /\ stage' = [stage EXCEPT ![w] = "projects"]
          /\ UNCHANGED fetch
       \/ /\ stage[w] = "users"
          /\ StartWalks(w, listed[w])
    /\ UNCHANGED <<serverVars, start, busy, permits, since, listed, rest, page, file,
                   mark, gaps>>

\* ProjectExtractor.extract() is done: it returns the project_gids it saw.
FinishProjects(w) ==
    LET seen == visible \cap ProjectsIn(w) IN
    /\ listed' = [listed EXCEPT ![w] = seen]
    /\ \/ /\ stage[w] = "both"
          /\ stage' = [stage EXCEPT ![w] = "users"]
          /\ UNCHANGED fetch
       \/ /\ stage[w] = "projects"
          /\ StartWalks(w, seen)
    /\ UNCHANGED <<serverVars, start, busy, permits, since, rest, page, file, mark,
                   gaps>>

\* Fault variant of FailPhase1: the slot is kept by a failed workspace.
FailKeepingSlot(w) ==
    /\ stage[w] \in {"users", "projects", "both"}
    /\ stage' = [stage EXCEPT ![w] = "failed"]
    /\ UNCHANGED <<serverVars, start, busy, permits, since, listed, walkVars, file,
                   mark, gaps>>

\* Fault variant of FailPhase1: the slot is given back once too often.
FailReleasingTwice(w) ==
    /\ stage[w] \in {"users", "projects", "both"}
    /\ stage' = [stage EXCEPT ![w] = "failed"]
    /\ permits' = permits + 2
    /\ UNCHANGED <<serverVars, start, busy, since, listed, walkVars, file, mark, gaps>>

\* Users or projects fail: the workspace fails, its state file is untouched.
FailPhase1(w) ==
    /\ stage[w] \in {"users", "projects", "both"}
    /\ LeaveWorkspace(w, "failed")
    /\ UNCHANGED <<serverVars, start, busy, since, listed, walkVars, file, mark, gaps>>
----------------------------------------------------------------------------
(* TaskExtractor.                                                          *)

\* A page arrives and its task is written.
ReceivePage(p) ==
    /\ \E e \in page[p] : /\ file' = [file EXCEPT ![e.task] = e.version]
                          /\ NoGap(e.task)
    /\ page' = [page EXCEPT ![p] = {}]
    /\ UNCHANGED <<serverVars, cycleVars, fetch, rest, mark>>

\* There is no next page.
EndWalk(p) ==
    /\ fetch[p] = "fetching"
    /\ rest[p] = {} /\ page[p] = {}
    /\ fetch' = [fetch EXCEPT ![p] = "done"]
    /\ UNCHANGED <<serverVars, cycleVars, rest, page, file, mark, gaps>>

\* Fault variant of FailWalk: a walk that failed counts as done.
FailWalkSilently(p) ==
    /\ fetch[p] \in {"starting", "fetching"}
    /\ fetch' = [fetch EXCEPT ![p] = "done"]
    /\ rest' = [rest EXCEPT ![p] = {}]
    /\ page' = [page EXCEPT ![p] = {}]
    /\ UNCHANGED <<serverVars, cycleVars, file, mark, gaps>>

\* The walk of a project fails, in the API or in the writer: extract_all()
\* turns the exception into a warning.
FailWalk(p) ==
    /\ fetch[p] \in {"starting", "fetching"}
    /\ fetch' = [fetch EXCEPT ![p] = "failed"]
    /\ rest' = [rest EXCEPT ![p] = {}]
    /\ page' = [page EXCEPT ![p] = {}]
    /\ UNCHANGED <<serverVars, cycleVars, file, mark, gaps>>

\* The tasks extract_all() gives up with an error in the log and a warning in
\* its result: a walk that failed was to fetch them, and none that was done.
GivenUp(w) == {t \in TasksIn(w) : LET found == ProjectsOf[t] \cap listed[w] IN
                                      /\ \E p \in found : fetch[p] = "failed"
                                      /\ \A p \in found : fetch[p] # "done"}

\* The tasks that no walk was started for: none of their projects is among the
\* project_gids.  Nothing is logged about them.
Unlisted(w) == {t \in TasksIn(w) : ProjectsOf[t] \cap listed[w] = {}}

WalksOver(w) == \A p \in listed[w] : fetch[p] \in {"done", "failed"}

ForgetWalks(w) ==
    fetch' = [p \in Projects |->
                 IF p \in listed[w] /\ fetch[p] \in {"done", "failed"} THEN "off" ELSE fetch[p]]

\* Fault variant of SaveState: the timestamp is taken when the state is saved.
SaveTimeOfSaving(w) ==
    /\ stage[w] = "tasks"
    /\ WalksOver(w)
    /\ mark' = [mark EXCEPT ![w] = now - Lag]
    /\ warned' = warned \cup GivenUp(w)
    /\ overlooked' = overlooked \cup Unlisted(w)
    /\ ForgetWalks(w)
    /\ LeaveWorkspace(w, "succeeded")
    /\ UNCHANGED <<serverVars, start, busy, since, listed, rest, page, file>>

\* Fault variant of SaveState: the state is saved when the first walk is over.
SaveAfterFirstWalk(w) ==
    /\ stage[w] = "tasks"
    /\ \E p \in listed[w] : fetch[p] \in {"done", "failed"}
    /\ mark' = [mark EXCEPT ![w] = start]
    /\ warned' = warned \cup GivenUp(w)
    /\ overlooked' = overlooked \cup Unlisted(w)
    /\ ForgetWalks(w)
    /\ LeaveWorkspace(w, "succeeded")
    /\ UNCHANGED <<serverVars, start, busy, since, listed, rest, page, file>>

\* extract_all() returns, failed walks or not: save_state() with the time the
\* cycle started.
SaveState(w) ==
    /\ stage[w] = "tasks"
    /\ WalksOver(w)
    /\ mark' = [mark EXCEPT ![w] = start]
    /\ warned' = warned \cup GivenUp(w)
    /\ overlooked' = overlooked \cup Unlisted(w)
    /\ ForgetWalks(w)
    /\ LeaveWorkspace(w, "succeeded")
    /\ UNCHANGED <<serverVars, start, busy, since, listed, rest, page, file>>

\* save_state() raises an OSError before its os.replace.
SaveFails(w) ==
    /\ stage[w] = "tasks"
    /\ WalksOver(w)
    /\ warned' = warned \cup GivenUp(w)
    /\ ForgetWalks(w)
    /\ LeaveWorkspace(w, "failed")
    /\ UNCHANGED <<serverVars, start, busy, since, listed, rest, page, file, mark,
                   overlooked>>

\* gather() in run() has the result of every workspace.
EndCycle ==
    /\ busy
    /\ \A w \in Workspaces : stage[w] \in {"off", "succeeded", "failed"}
    /\ busy' = FALSE
    /\ stage' = [w \in Workspaces |-> "off"]
    /\ UNCHANGED <<serverVars, start, permits, since, listed, walkVars, file, mark, gaps>>
----------------------------------------------------------------------------
\* The process ends, by a crash or by a shutdown that cancels the cycle, and
\* is started again: only the files are left.
Restart ==
    /\ busy
    /\ busy' = FALSE
    /\ stage' = [w \in Workspaces |-> "off"]
    /\ permits' = MaxConcurrent
    /\ fetch' = [p \in Projects |-> "off"]
    /\ rest' = [p \in Projects |-> {}]
    /\ page' = [p \in Projects |-> {}]
    /\ UNCHANGED <<serverVars, start, since, listed, file, mark, gaps>>

\* Started with --full-extraction: the state files of the tenants are deleted,
\* of some only if it is stopped in between.
FullExtraction ==
    /\ ~ busy
    /\ \E tenants \in SUBSET Workspaces :
           mark' = [w \in Workspaces |-> IF w \in tenants THEN Never ELSE mark[w]]
    /\ UNCHANGED <<serverVars, cycleVars, walkVars, file, gaps>>

WorkspaceStep(w) == \/ BeginWorkspace(w)
                    \/ FinishUsers(w)
                    \/ FinishProjects(w)
                    \/ FailPhase1(w)
                    \/ SaveState(w)
                    \/ SaveFails(w)

WalkStep(p) == \/ Query(p)
               \/ AnswerPage(p)
               \/ ReceivePage(p)
               \/ EndWalk(p)
               \/ FailWalk(p)

Next == \/ Tick
        \/ \E t \in Tasks : Edit(t)
        \/ \E p \in Projects : Share(p) \/ WalkStep(p)
        \/ StartCycle
        \/ \E w \in Workspaces : WorkspaceStep(w)
        \/ EndCycle
        \/ Restart
        \/ FullExtraction

Spec == Init /\ [][Next]_vars

\* Every coroutine that can go on does so, and the scheduler goes on to the
\* next cycle (NextCycleFollows of Scheduler).
FairSpec == /\ Spec
            /\ WF_vars(StartCycle)
            /\ WF_vars(EndCycle)
            /\ \A w \in Workspaces : WF_vars(WorkspaceStep(w))
            /\ \A p \in Projects : WF_vars(WalkStep(p))
----------------------------------------------------------------------------
\* The timestamp in the state file can be relied on: a task that was modified
\* before it is up to date on disk, unless a warning says that the walks of its
\* projects failed, or none of its projects was listed when the state was saved.
\* The latter is not logged anywhere, and the task stays out of date when its
\* project is listed later.
CoveredOrLogged ==
    \A w \in Workspaces : \A t \in TasksIn(w) :
        modified[t] < mark[w] => file[t] = version[t] \/ t \in warned \/ t \in overlooked

\* The timestamp of its workspace has passed the last change of the task.
Passed(t) == \E p \in ProjectsOf[t] : modified[t] < mark[HomeOf[p]]

StatusOf(t) == IF file[t] = version[t] THEN "current"
               ELSE IF Passed(t) THEN "missed" ELSE "due"

\* A project of the task has been listed to the extractor.
Seen(t) == \E p \in ProjectsOf[t] : p \in listed[HomeOf[p]]

Copy == INSTANCE Replica WITH status <- [t \in Tasks |-> StatusOf(t)],
                              seen <- {t \in Tasks : Seen(t)},
                              reported <- warned

\* What is on disk is a replica: a task whose project the extractor has seen is
\* missed only if a warning says so in the step that saves the state, and never
\* because of a late page, a restart, an edit in the middle of a walk, an
\* unfinished walk or a deleted state file.
ImplementsReplica == Copy!ReplicaSpec

\* Two walks may write one task in the wrong order, but a version is only
\* overwritten by an older one if the next cycle fetches the task again.
OverwrittenIsRefetched ==
    [][\A t \in Tasks : file'[t] < file[t] => modified[t] >= start]_vars

\* No slot of the workspace semaphore is lost, however workspaces end.
WorkspaceSlots ==
    permits + Cardinality({w \in Workspaces : stage[w] \in Active}) = MaxConcurrent

\* A failing or slow workspace never keeps the others from their end.
CycleEnds == busy ~> ~ busy

\* A step in which an extraction fails, is cut off or leaves a workspace out.
Setback ==
    \/ \E w \in Workspaces : \/ FailPhase1(w)
                             \/ SaveFails(w)
                             \/ StartCycle /\ stage'[w] = "off"
                             \/ stage[w] \in Active \cup {"waiting"} /\ stage'[w] = "off"
    \/ \E p \in Projects : FailWalk(p)

\* Eventual consistency: once nothing fails and no workspace is left out any
\* more, no task of a visible project stays due for ever, however edits,
\* walks and cycles have interleaved; it is fetched, or else it was missed.
Converges ==
    <>[][~ Setback]_vars =>
        \A t \in Tasks :
            <>[](ProjectsOf[t] \cap visible # {} => StatusOf(t) # "due")

\* The state file promises what it is documented to: a workspace is extracted
\* as a whole or its timestamp stays, so that a task of a listed project that
\* was modified before the timestamp is up to date on disk.
AllOrNothing ==
    \A w \in Workspaces : \A t \in Tasks :
        ProjectsOf[t] \cap listed[w] # {} /\ modified[t] < mark[w]
            => file[t] = version[t]
============================================================================
