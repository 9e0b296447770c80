-------------------------- MODULE ExtractionProofs --------------------------
(***************************************************************************)
(* Proofs about Extraction for every finite set of workspaces, every set of*)
(* projects and tasks, every lag of the local clock and every bound.       *)
(*                                                                         *)
(* That the timestamp in a state file can be relied on is not inductive:   *)
(* it rests on what the walks in progress have covered so far, on the      *)
(* pages that are under way, and on the place a walk has in its workspace. *)
(***************************************************************************)
EXTENDS Extraction, TLAPS, FiniteSetTheorems

USE DEF gaps, NoGap

\* TypeOK except for the upper bound on permits, which is a consequence of
\* the accounting of the slots.
Typed == /\ now \in Nat /\ start \in Nat
         /\ version \in [Tasks -> Nat]
         /\ modified \in [Tasks -> Nat]
         /\ file \in [Tasks -> Nat]
         /\ warned \in SUBSET Tasks /\ overlooked \in SUBSET Tasks
         /\ visible \in SUBSET Projects
         /\ mark \in [Workspaces -> Nat \cup {Never}]
         /\ since \in [Workspaces -> Nat \cup {Never}]
         /\ busy \in BOOLEAN
         /\ stage \in [Workspaces -> {"off", "waiting", "succeeded", "failed"} \cup Active]
         /\ listed \in [Workspaces -> SUBSET Projects]
         /\ permits \in Nat
         /\ fetch \in [Projects -> {"off", "starting", "fetching", "done", "failed"}]
         /\ rest \in [Projects -> SUBSET Tasks]
         /\ page \in [Projects -> SUBSET Entry]
----------------------------------------------------------------------------
(* Control: where the walks and the workspaces are.                        *)

\* A walk belongs to a workspace that is extracting its tasks and lists the
\* project.
WalksHaveAPlace ==
    \A p \in Projects : fetch[p] # "off" => /\ stage[HomeOf[p]] = "tasks"
                                            /\ p \in listed[HomeOf[p]]

\* A workspace lists projects of its own.
ListedAtHome == \A w \in Workspaces : listed[w] \subseteq ProjectsIn(w)

\* Only a walk that is fetching has pages.
OnlyFetchingHasPages ==
    \A p \in Projects : fetch[p] # "fetching" => page[p] = {} /\ rest[p] = {}

\* Between two cycles no workspace is extracted.
IdleBetweenCycles == ~ busy => \A w \in Workspaces : stage[w] = "off"

\* The filter of a workspace is the timestamp in its state file or nothing.
SinceIsMark ==
    \A w \in Workspaces : stage[w] \in Active => since[w] \in {mark[w], Never}

Control == /\ WalksHaveAPlace /\ ListedAtHome /\ OnlyFetchingHasPages
           /\ IdleBetweenCycles /\ SinceIsMark
----------------------------------------------------------------------------
(* Data: what is on disk, under way and still to come.                     *)

\* Timestamps are those of cycles that have started.
MarksInThePast == /\ start + Lag <= now
                  /\ \A w \in Workspaces : mark[w] <= start

\* Nothing on disk is newer than Asana, nor anything under way.
NothingFromTheFuture ==
    /\ \A t \in Tasks : file[t] <= version[t]
    /\ \A p \in Projects : \A e \in page[p] : e.version <= version[e.task]

\* A walk awaits one page at a time.
OnePageAtATime == \A p \in Projects : \A d, e \in page[p] : d = e

\* A page is up to date unless its task was modified during the cycle.
PagesFresh ==
    \A p \in Projects : \A e \in page[p] :
        e.version = version[e.task] \/ modified[e.task] >= start

\* A task the current cycle need not look at again: it is current, or the next
\* cycle will ask for it, or no cycle will.
Settled(t) == file[t] = version[t] \/ modified[t] >= start \/ Passed(t)

\* A walk has settled every task of its project that it is not about to
\* fetch.
WalksCover ==
    \A p \in Projects : fetch[p] \in {"fetching", "done"} =>
        \A t \in TasksOf(p) : \/ t \in rest[p]
                              \/ \E e \in page[p] : e.task = t
                              \/ Settled(t)

Data == /\ MarksInThePast /\ NothingFromTheFuture /\ OnePageAtATime
        /\ PagesFresh /\ WalksCover /\ CoveredOrLogged

----------------------------------------------------------------------------
(* Sight: what the extractor comes to see.                                 *)

\* What was listed once is visible from then on.
ListedIsVisible == \A w \in Workspaces : listed[w] \subseteq visible

\* A walk returns tasks of its project.
PagesOfTheProject ==
    \A p \in Projects : /\ rest[p] \subseteq TasksOf(p)
                        /\ \A e \in page[p] : p \in ProjectsOf[e.task]

Sight == ListedIsVisible /\ PagesOfTheProject

IInv == Typed /\ Control /\ Data /\ Sight /\ WorkspaceSlots
----------------------------------------------------------------------------
\* The initial state satisfies the invariant: nothing is extracted and there
\* are no files.
LEMMA InitEstablishes == Init => IInv
  <1> SUFFICES ASSUME Init
               PROVE  IInv
    OBVIOUS
  <1> USE LagAssumption, LimitAssumption DEF Init
  <1>1. Typed
    BY DEF Typed, Never
  <1>2. Control
    BY DEF Control, WalksHaveAPlace, ListedAtHome, OnlyFetchingHasPages,
           IdleBetweenCycles, SinceIsMark, Active
  <1>3. Data
    BY DEF Data, MarksInThePast, NothingFromTheFuture, OnePageAtATime, PagesFresh,
           WalksCover, CoveredOrLogged, TasksIn, Never
  <1>4. WorkspaceSlots
    <2>1. {w \in Workspaces : stage[w] \in Active} = {}
      BY DEF Active
    <2> QED
      BY <2>1, FS_EmptySet DEF WorkspaceSlots
  <1>5. Sight
    BY DEF Sight, ListedIsVisible, PagesOfTheProject
  <1> QED
    BY <1>1, <1>2, <1>3, <1>4, <1>5 DEF IInv
----------------------------------------------------------------------------
(* Types.                                                                  *)

\* A workspace starts the walks of the projects it lists.
LEMMA StartWalksTyped ==
    ASSUME Typed, NEW w \in Workspaces, NEW projects, StartWalks(w, projects)
    PROVE  /\ stage' \in [Workspaces -> {"off", "waiting", "succeeded", "failed"}
                                            \cup Active]
           /\ fetch' \in [Projects -> {"off", "starting", "fetching", "done", "failed"}]
  BY DEF StartWalks, Typed, Active

\* Every step keeps the types.
LEMMA TypedStep == Typed /\ MarksInThePast /\ [Next]_vars => Typed'
  <1> SUFFICES ASSUME Typed, MarksInThePast, [Next]_vars
               PROVE  Typed'
    OBVIOUS
  <1> USE DEF Typed, serverVars, cycleVars, walkVars
  <1>1. CASE Tick
    BY <1>1 DEF Tick
  <1>2. ASSUME NEW t \in Tasks, Edit(t)
        PROVE  Typed'
    BY <1>2 DEF Edit
  <1>3. ASSUME NEW p \in Projects, Share(p)
        PROVE  Typed'
    BY <1>3 DEF Share
  <1>4. ASSUME NEW p \in Projects, Query(p)
        PROVE  Typed'
    BY <1>4 DEF Query, TasksOf
  <1>5. ASSUME NEW p \in Projects, AnswerPage(p)
        PROVE  Typed'
    BY <1>5 DEF AnswerPage, Entry
  <1>6. ASSUME NEW p \in Projects, ReceivePage(p)
        PROVE  Typed'
    BY <1>6 DEF ReceivePage, Entry
  <1>7. ASSUME NEW p \in Projects, EndWalk(p)
        PROVE  Typed'
    BY <1>7 DEF EndWalk
  <1>8. ASSUME NEW p \in Projects, FailWalk(p)
        PROVE  Typed'
    BY <1>8 DEF FailWalk
  <1>9. CASE StartCycle
    <2>1. start' \in Nat
      BY <1>9, LagAssumption DEF StartCycle, MarksInThePast
    <2> QED
      BY <1>9, <2>1 DEF StartCycle
  <1>10. ASSUME NEW w \in Workspaces, BeginWorkspace(w)
         PROVE  Typed'
    BY <1>10 DEF BeginWorkspace, Active
  <1>11. ASSUME NEW w \in Workspaces, FinishUsers(w)
         PROVE  Typed'
    BY <1>11, StartWalksTyped DEF FinishUsers, Active
  <1>12. ASSUME NEW w \in Workspaces, FinishProjects(w)
         PROVE  Typed'
    BY <1>12, StartWalksTyped DEF FinishProjects, Active
  <1>13. ASSUME NEW w \in Workspaces, FailPhase1(w)
         PROVE  Typed'
    BY <1>13 DEF FailPhase1, LeaveWorkspace
  <1>14. ASSUME NEW w \in Workspaces, SaveState(w)
         PROVE  Typed'
    BY <1>14 DEF SaveState, LeaveWorkspace, ForgetWalks, GivenUp, Unlisted, TasksIn
  <1>15. ASSUME NEW w \in Workspaces, SaveFails(w)
         PROVE  Typed'
    BY <1>15 DEF SaveFails, LeaveWorkspace, ForgetWalks, GivenUp, TasksIn
  <1>16. CASE EndCycle
    BY <1>16 DEF EndCycle
  <1>17. CASE Restart
    BY <1>17, LimitAssumption DEF Restart
  <1>18. CASE FullExtraction
    BY <1>18 DEF FullExtraction
  <1>19. CASE UNCHANGED vars
    BY <1>19 DEF vars
  <1> QED
    BY <1>1, <1>2, <1>3, <1>4, <1>5, <1>6, <1>7, <1>8, <1>9, <1>10, <1>11, <1>12,
       <1>13, <1>14, <1>15, <1>16, <1>17, <1>18, <1>19
    DEF Next, WorkspaceStep, WalkStep
----------------------------------------------------------------------------
(* Control.                                                                *)

\* The workspace of a project.
LEMMA HomeIsAWorkspace == \A p \in Projects : HomeOf[p] \in Workspaces
  BY HomeAssumption

\* A walk that begins, moves on or ends while its workspace waits for it.
LEMMA WalkMoves ==
    ASSUME Typed, Control, NEW p \in Projects, fetch[p] # "off",
           NEW state \in {"fetching", "done", "failed"},
           fetch' = [fetch EXCEPT ![p] = state],
           \A q \in Projects \ {p} : page'[q] = page[q] /\ rest'[q] = rest[q],
           state # "fetching" => page'[p] = {} /\ rest'[p] = {},
           UNCHANGED <<busy, stage, listed, since, mark>>
    PROVE  Control'
  <1>1. \A q \in Projects : fetch'[q] = IF q = p THEN state ELSE fetch[q]
    BY DEF Typed
  <1>2. WalksHaveAPlace'
    BY <1>1 DEF Control, WalksHaveAPlace
  <1>3. OnlyFetchingHasPages'
    BY <1>1 DEF Control, OnlyFetchingHasPages
  <1> QED
    BY <1>2, <1>3 DEF Control, ListedAtHome, ProjectsIn, IdleBetweenCycles, SinceIsMark

\* The workspace moves on in phase 1, where none of its walks has begun.
LEMMA Phase1Moves ==
    ASSUME Typed, Control, NEW w \in Workspaces,
           stage[w] \in {"waiting", "users", "projects", "both"},
           NEW place \in {"users", "projects", "both", "failed"},
           stage' = [stage EXCEPT ![w] = place],
           stage[w] = "waiting" => since'[w] \in {mark[w], Never},
           stage[w] # "waiting" => since'[w] = since[w],
           \A v \in Workspaces \ {w} : since'[v] = since[v] /\ listed'[v] = listed[v],
           listed'[w] \subseteq ProjectsIn(w),
           UNCHANGED <<busy, mark, fetch, rest, page>>
    PROVE  Control'
  <1>1. \A v \in Workspaces : stage'[v] = IF v = w THEN place ELSE stage[v]
    BY DEF Typed
  <1>2. \A p \in Projects : fetch[p] # "off" => HomeOf[p] # w
    BY DEF Control, WalksHaveAPlace
  <1>3. WalksHaveAPlace'
    BY <1>1, <1>2, HomeIsAWorkspace DEF Control, WalksHaveAPlace
  <1>4. ListedAtHome'
    BY DEF Control, ListedAtHome, ProjectsIn
  <1>5. IdleBetweenCycles'
    BY <1>1 DEF Control, IdleBetweenCycles
  <1>6. SinceIsMark'
    BY <1>1 DEF Control, SinceIsMark, Active
  <1> QED
    BY <1>3, <1>4, <1>5, <1>6 DEF Control, OnlyFetchingHasPages

\* Phase 2: the workspace starts the walks of what it lists by then.
LEMMA WalksStart ==
    ASSUME Typed, Control, NEW w \in Workspaces, stage[w] \in {"users", "projects"},
           StartWalks(w, listed'[w]), listed'[w] \subseteq ProjectsIn(w),
           \A v \in Workspaces \ {w} : listed'[v] = listed[v],
           UNCHANGED <<busy, since, mark, rest, page>>
    PROVE  Control' /\ \A p \in Projects : fetch'[p] \in {fetch[p], "starting"}
  <1>1. \A v \in Workspaces : stage'[v] = IF v = w THEN "tasks" ELSE stage[v]
    BY DEF Typed, StartWalks
  <1>2. \A p \in Projects : fetch'[p] = IF p \in listed'[w] THEN "starting" ELSE fetch[p]
    BY DEF StartWalks
  <1>3. \A p \in Projects : HomeOf[p] = w => fetch[p] = "off"
    BY DEF Control, WalksHaveAPlace
  <1>4. \A p \in listed'[w] : HomeOf[p] = w
    BY DEF ProjectsIn
  <1>5. WalksHaveAPlace'
    BY <1>1, <1>2, <1>3, <1>4, HomeIsAWorkspace DEF Control, WalksHaveAPlace
  <1>6. ListedAtHome'
    BY DEF Control, ListedAtHome, ProjectsIn
  <1>7. OnlyFetchingHasPages'
    BY <1>2, <1>3, <1>4 DEF Control, OnlyFetchingHasPages
  <1>8. IdleBetweenCycles'
    BY <1>1 DEF Control, IdleBetweenCycles
  <1>9. SinceIsMark'
    BY <1>1 DEF Control, SinceIsMark, Active
  <1> QED
    BY <1>2, <1>5, <1>6, <1>7, <1>8, <1>9 DEF Control

\* extract_all() has returned: the walks are forgotten and the workspace ends.
LEMMA WalksEnd ==
    ASSUME Typed, Control, NEW w \in Workspaces, stage[w] = "tasks", WalksOver(w),
           ForgetWalks(w), NEW outcome \in {"succeeded", "failed"},
           stage' = [stage EXCEPT ![w] = outcome],
           \A v \in Workspaces \ {w} : mark'[v] = mark[v],
           UNCHANGED <<busy, since, listed, rest, page>>
    PROVE  Control' /\ \A p \in Projects : fetch'[p] \in {fetch[p], "off"}
  <1>1. \A v \in Workspaces : stage'[v] = IF v = w THEN outcome ELSE stage[v]
    BY DEF Typed
  <1>2. \A p \in Projects : fetch'[p] = IF p \in listed[w] /\ fetch[p] \in {"done", "failed"}
                                          THEN "off" ELSE fetch[p]
    BY DEF ForgetWalks
  <1>3. \A p \in Projects : fetch'[p] # "off" => fetch[p] # "off" /\ HomeOf[p] # w
    BY <1>2 DEF Control, WalksHaveAPlace, WalksOver
  <1>4. WalksHaveAPlace'
    BY <1>1, <1>3, HomeIsAWorkspace DEF Control, WalksHaveAPlace
  <1>5. OnlyFetchingHasPages'
    BY <1>2 DEF Control, OnlyFetchingHasPages
  <1>6. IdleBetweenCycles'
    BY <1>1 DEF Control, IdleBetweenCycles
  <1>7. SinceIsMark'
    BY <1>1 DEF Control, SinceIsMark, Active
  <1> QED
    BY <1>2, <1>4, <1>5, <1>6, <1>7 DEF Control, ListedAtHome, ProjectsIn

\* Between two cycles there are no walks and no pages.
LEMMA NoWalksWhenIdle ==
    ASSUME Control, \A w \in Workspaces : stage[w] # "tasks"
    PROVE  \A p \in Projects : fetch[p] = "off" /\ page[p] = {} /\ rest[p] = {}
  BY HomeIsAWorkspace DEF Control, WalksHaveAPlace, OnlyFetchingHasPages

\* Every step keeps walks, workspaces and cycles in their places.
LEMMA ControlStep == Typed /\ Control /\ [Next]_vars => Control'
  <1> SUFFICES ASSUME Typed, Control, [Next]_vars
               PROVE  Control'
    OBVIOUS
  <1> USE DEF serverVars, cycleVars, walkVars
  <1>same. ASSUME UNCHANGED <<busy, stage, listed, since, mark, fetch, rest, page>>
           PROVE  Control'
    BY <1>same DEF Control, WalksHaveAPlace, ListedAtHome, ProjectsIn,
                   OnlyFetchingHasPages, IdleBetweenCycles, SinceIsMark
  <1>1. ASSUME \/ Tick
               \/ \E t \in Tasks : Edit(t)
               \/ \E p \in Projects : Share(p)
               \/ UNCHANGED vars
        PROVE  Control'
    BY <1>1, <1>same DEF Tick, Edit, Share, vars
  <1>2. ASSUME NEW p \in Projects, Query(p)
        PROVE  Control'
    BY <1>2, WalkMoves DEF Query, Typed
  <1>3. ASSUME NEW p \in Projects, AnswerPage(p)
        PROVE  Control'
    <2>1. fetch[p] = "fetching" /\ fetch' = [fetch EXCEPT ![p] = "fetching"]
      BY <1>3 DEF AnswerPage, Typed
    <2> QED
      BY <1>3, <2>1, WalkMoves DEF AnswerPage, Typed
  <1>4. ASSUME NEW p \in Projects, ReceivePage(p)
        PROVE  Control'
    <2>1. page[p] # {} /\ fetch[p] = "fetching"
      BY <1>4 DEF ReceivePage, Control, OnlyFetchingHasPages
    <2>2. fetch' = [fetch EXCEPT ![p] = "fetching"]
      BY <1>4, <2>1 DEF ReceivePage, Typed
    <2> QED
      BY <1>4, <2>1, <2>2, WalkMoves DEF ReceivePage, Typed
  <1>5. ASSUME NEW p \in Projects, EndWalk(p)
        PROVE  Control'
    BY <1>5, WalkMoves DEF EndWalk, Typed
  <1>6. ASSUME NEW p \in Projects, FailWalk(p)
        PROVE  Control'
    BY <1>6, WalkMoves DEF FailWalk, Typed
  <1>7. ASSUME NEW w \in Workspaces, BeginWorkspace(w)
        PROVE  Control'
    <2>1. /\ since'[w] \in {mark[w], Never}
          /\ \A v \in Workspaces \ {w} : since'[v] = since[v]
      BY <1>7 DEF BeginWorkspace, Typed
    <2>2. listed' = listed /\ listed[w] \subseteq ProjectsIn(w)
      BY <1>7 DEF BeginWorkspace, Control, ListedAtHome
    <2> QED
      BY <1>7, <2>1, <2>2, Phase1Moves DEF BeginWorkspace
  <1>8. ASSUME NEW w \in Workspaces, FailPhase1(w)
        PROVE  Control'
    BY <1>8, Phase1Moves DEF FailPhase1, LeaveWorkspace, Control, ListedAtHome
  <1>9. ASSUME NEW w \in Workspaces, FinishUsers(w)
        PROVE  Control'
    <2>1. listed[w] \subseteq ProjectsIn(w) /\ listed' = listed
      BY <1>9 DEF FinishUsers, Control, ListedAtHome
    <2> QED
      BY <1>9, <2>1, Phase1Moves, WalksStart DEF FinishUsers
  <1>10. ASSUME NEW w \in Workspaces, FinishProjects(w)
         PROVE  Control'
    <2>1. /\ listed'[w] = visible \cap ProjectsIn(w)
          /\ \A v \in Workspaces \ {w} : listed'[v] = listed[v]
      BY <1>10 DEF FinishProjects, Typed
    <2> QED
      BY <1>10, <2>1, Phase1Moves, WalksStart DEF FinishProjects
  <1>11. ASSUME NEW w \in Workspaces, SaveState(w)
         PROVE  Control'
    BY <1>11, WalksEnd DEF SaveState, LeaveWorkspace, Typed
  <1>12. ASSUME NEW w \in Workspaces, SaveFails(w)
         PROVE  Control'
    BY <1>12, WalksEnd DEF SaveFails, LeaveWorkspace
  <1>13. CASE StartCycle
    <2>1. \A w \in Workspaces : stage'[w] \in {"waiting", "off"}
      BY <1>13 DEF StartCycle
    <2>2. \A p \in Projects : fetch[p] = "off"
      BY <1>13, NoWalksWhenIdle DEF StartCycle, Control, IdleBetweenCycles
    <2> QED
      BY <1>13, <2>1, <2>2
      DEF StartCycle, Control, WalksHaveAPlace, ListedAtHome, ProjectsIn,
          OnlyFetchingHasPages, IdleBetweenCycles, SinceIsMark, Active
  <1>14. CASE EndCycle
    <2>1. \A p \in Projects : fetch[p] = "off"
      BY <1>14, NoWalksWhenIdle DEF EndCycle
    <2> QED
      BY <1>14, <2>1
      DEF EndCycle, Control, WalksHaveAPlace, ListedAtHome, ProjectsIn,
          OnlyFetchingHasPages, IdleBetweenCycles, SinceIsMark, Active
  <1>15. CASE Restart
    BY <1>15
    DEF Restart, Control, WalksHaveAPlace, ListedAtHome, ProjectsIn,
        OnlyFetchingHasPages, IdleBetweenCycles, SinceIsMark, Active
  <1>16. CASE FullExtraction
    BY <1>16
    DEF FullExtraction, Control, WalksHaveAPlace, ListedAtHome, ProjectsIn,
        OnlyFetchingHasPages, IdleBetweenCycles, SinceIsMark, Active
  <1> QED
    BY <1>1, <1>2, <1>3, <1>4, <1>5, <1>6, <1>7, <1>8, <1>9, <1>10, <1>11, <1>12,
       <1>13, <1>14, <1>15, <1>16
    DEF Next, WorkspaceStep, WalkStep
----------------------------------------------------------------------------
(* Data.                                                                   *)

\* A step that leaves files, pages and timestamps alone: walks may only be
\* forgotten or queued, and pages dropped.
LEMMA DataUntouched ==
    ASSUME Typed, Data,
           UNCHANGED <<now, version, modified, start, file, mark, warned, overlooked>>,
           \A p \in Projects : \/ /\ fetch'[p] = fetch[p]
                                  /\ rest'[p] = rest[p] /\ page'[p] = page[p]
                               \/ /\ fetch'[p] \in {"off", "starting", "failed"}
                                  /\ page'[p] \in {page[p], {}}
    PROVE  Data'
  <1>1. MarksInThePast'
    BY DEF Data, MarksInThePast
  <1>2. NothingFromTheFuture' /\ OnePageAtATime' /\ PagesFresh'
    BY DEF Data, NothingFromTheFuture, OnePageAtATime, PagesFresh
  <1>3. WalksCover'
    BY DEF Data, WalksCover, Settled, Passed, TasksOf
  <1>4. CoveredOrLogged'
    BY DEF Data, CoveredOrLogged, TasksIn
  <1> QED
    BY <1>1, <1>2, <1>3, <1>4 DEF Data

\* Somebody edits a task while the extractor is at any place: the task is
\* modified after every timestamp and after the start of the cycle.
LEMMA EditKeepsData ==
    ASSUME Typed, Data, NEW t \in Tasks, Edit(t)
    PROVE  Data'
  <1>1. /\ UNCHANGED <<now, start, mark, fetch, rest, page, file>>
        /\ warned' = warned \ {t} /\ overlooked' = overlooked \ {t}
        /\ \A u \in Tasks : version'[u] = IF u = t THEN version[u] + 1 ELSE version[u]
        /\ \A u \in Tasks : modified'[u] = IF u = t THEN now ELSE modified[u]
    BY DEF Edit, Typed, cycleVars, walkVars
  <1>2. MarksInThePast'
    BY <1>1 DEF Data, MarksInThePast
  <1>3. now >= start /\ \A w \in Workspaces : now >= mark[w]
    BY LagAssumption DEF Data, MarksInThePast, Typed, Never
  <1>4. \A p \in Projects : \A e \in page[p] : e.task \in Tasks /\ e.version \in Nat
    BY DEF Typed, Entry
  <1>5. NothingFromTheFuture'
    <2>1. \A u \in Tasks : version[u] <= version'[u]
      BY <1>1 DEF Typed
    <2>2. \A u \in Tasks : file'[u] <= version'[u]
      BY <1>1, <2>1 DEF Data, NothingFromTheFuture, Typed
    <2>3. \A p \in Projects : \A e \in page[p] : e.version <= version'[e.task]
      BY <1>1, <1>4, <2>1 DEF Data, NothingFromTheFuture, Typed
    <2> QED
      BY <1>1, <2>2, <2>3 DEF NothingFromTheFuture
  <1>6. OnePageAtATime'
    BY <1>1 DEF Data, OnePageAtATime
  <1>7. PagesFresh'
    BY <1>1, <1>3, <1>4 DEF Data, PagesFresh
  <1>8. \A u \in Tasks : Settled(u) => Settled(u)'
    BY <1>1, <1>3 DEF Settled, Passed
  <1>9. WalksCover'
    BY <1>1, <1>8 DEF Data, WalksCover, TasksOf
  <1>10. CoveredOrLogged'
    <2>1. ASSUME NEW w \in Workspaces, NEW u \in TasksIn(w), modified'[u] < mark[w]
          PROVE  u # t
      BY <1>1, <1>3, <2>1 DEF Typed, TasksIn, Never
    <2> QED
      BY <1>1, <2>1 DEF Data, CoveredOrLogged, TasksIn
  <1> QED
    BY <1>2, <1>5, <1>6, <1>7, <1>9, <1>10 DEF Data

\* The first page of a walk: a task that the filter leaves out is settled,
\* because the filter is the timestamp in the state file.
LEMMA QueryKeepsData ==
    ASSUME Typed, Control, Data, NEW p \in Projects, Query(p)
    PROVE  Data'
  <1>1. /\ UNCHANGED <<now, version, modified, start, mark, page, file, warned, overlooked>>
        /\ \A q \in Projects \ {p} : fetch'[q] = fetch[q] /\ rest'[q] = rest[q]
        /\ rest'[p] = {t \in TasksOf(p) : modified[t] >= since[HomeOf[p]]}
    BY DEF Query, Typed, serverVars, cycleVars
  <1>2. HomeOf[p] \in Workspaces /\ since[HomeOf[p]] \in {mark[HomeOf[p]], Never}
    BY HomeIsAWorkspace
    DEF Query, Control, WalksHaveAPlace, SinceIsMark, Active
  <1>3. ASSUME NEW t \in TasksOf(p), t \notin rest'[p]
        PROVE  Settled(t)
    <2>1. t \in Tasks /\ t \in TasksIn(HomeOf[p])
      BY DEF TasksOf, TasksIn
    <2>2. modified[t] < mark[HomeOf[p]]
      BY <1>1, <1>2, <1>3, <2>1 DEF Typed, Never
    <2> QED
      BY <2>1, <2>2 DEF TasksOf, Settled, Passed
  <1>4. WalksCover'
    BY <1>1, <1>3 DEF Data, WalksCover, Settled, Passed, TasksOf
  <1> QED
    BY <1>1, <1>4
    DEF Data, MarksInThePast, NothingFromTheFuture, OnePageAtATime, PagesFresh,
        CoveredOrLogged, TasksIn

\* A page leaves Asana: its task is no longer to come but under way, with the
\* content of this moment.
LEMMA AnswerKeepsData ==
    ASSUME Typed, Data, NEW p \in Projects, AnswerPage(p)
    PROVE  Data'
  <1>1. PICK t \in rest[p] :
             /\ page' = [page EXCEPT ![p] = {[task |-> t, version |-> version[t]]}]
             /\ rest' = [rest EXCEPT ![p] = @ \ {t}]
    BY DEF AnswerPage
  <1> DEFINE answer == [task |-> t, version |-> version[t]]
  <1>2. /\ UNCHANGED <<now, version, modified, start, mark, fetch, file, warned, overlooked>>
        /\ \A q \in Projects : page'[q] = IF q = p THEN {answer} ELSE page[q]
        /\ \A q \in Projects : rest'[q] = IF q = p THEN rest[q] \ {t} ELSE rest[q]
    BY <1>1 DEF AnswerPage, Typed, serverVars, cycleVars
  <1>3. t \in Tasks /\ version[t] \in Nat /\ page[p] = {}
    BY DEF AnswerPage, Typed
  <1>4. NothingFromTheFuture' /\ OnePageAtATime' /\ PagesFresh'
    BY <1>2, <1>3 DEF Data, NothingFromTheFuture, OnePageAtATime, PagesFresh
  <1>5. \A u \in Tasks : Settled(u)' <=> Settled(u)
    BY <1>2 DEF Settled, Passed
  <1>6. ASSUME NEW q \in Projects, fetch'[q] \in {"fetching", "done"}, NEW u \in TasksOf(q)
        PROVE  u \in rest'[q] \/ (\E e \in page'[q] : e.task = u) \/ Settled(u)
    <2>1. u \in rest[q] \/ (\E e \in page[q] : e.task = u) \/ Settled(u)
      BY <1>2, <1>6 DEF Data, WalksCover
    <2>2. CASE q # p
      BY <1>2, <2>1, <2>2
    <2>3. CASE q = p /\ u = t
      <3>1. answer \in page'[q] /\ answer.task = u
        BY <1>2, <2>3
      <3> QED
        BY <3>1
    <2>4. CASE q = p /\ u # t
      BY <1>2, <1>3, <2>1, <2>4
    <2> QED
      BY <2>2, <2>3, <2>4
  <1>7. WalksCover'
    BY <1>5, <1>6 DEF WalksCover, TasksOf
  <1> QED
    BY <1>2, <1>4, <1>7 DEF Data, MarksInThePast, CoveredOrLogged, TasksIn

\* A page arrives, late or not: what it overwrites was as old, or its task
\* will be fetched again.
LEMMA ReceiveKeepsData ==
    ASSUME Typed, Control, Data, NEW p \in Projects, ReceivePage(p)
    PROVE  Data' /\ \A t \in Tasks : file'[t] < file[t] => modified[t] >= start
  <1>1. PICK e \in page[p] : /\ file' = [file EXCEPT ![e.task] = e.version]
                             /\ warned' = warned \ {e.task}
                             /\ overlooked' = overlooked \ {e.task}
    BY DEF ReceivePage
  <1>2. /\ e.task \in Tasks /\ e.version \in Nat
        /\ e.version <= version[e.task]
        /\ e.version = version[e.task] \/ modified[e.task] >= start
    BY DEF Typed, Entry, Data, NothingFromTheFuture, PagesFresh
  <1>3. /\ UNCHANGED <<now, version, modified, start, mark, fetch, rest>>
        /\ \A q \in Projects : page'[q] = IF q = p THEN {} ELSE page[q]
        /\ \A t \in Tasks : file'[t] = IF t = e.task THEN e.version ELSE file[t]
    BY <1>1 DEF ReceivePage, Typed, serverVars, cycleVars
  <1>4. NothingFromTheFuture' /\ OnePageAtATime' /\ PagesFresh'
    BY <1>2, <1>3 DEF Data, NothingFromTheFuture, OnePageAtATime, PagesFresh
  <1>5. Settled(e.task)' /\ \A t \in Tasks : Settled(t) => Settled(t)'
    BY <1>1, <1>2, <1>3 DEF Settled, Passed
  <1>6. WalksCover'
    <2>1. \A d \in page[p] : d = e
      BY DEF Data, OnePageAtATime
    <2> QED
      BY <1>3, <1>5, <2>1 DEF Data, WalksCover, TasksOf
  <1>7. CoveredOrLogged'
    <2>1. ASSUME NEW w \in Workspaces, modified[e.task] < mark[w]
          PROVE  e.version = version[e.task]
      BY <1>2, <2>1 DEF Data, MarksInThePast, Typed, Never
    <2> QED
      BY <1>1, <1>2, <1>3, <2>1 DEF Data, CoveredOrLogged, TasksIn
  <1>8. \A t \in Tasks : file'[t] < file[t] => modified[t] >= start
    BY <1>2, <1>3 DEF Data, NothingFromTheFuture, Typed
  <1> QED
    BY <1>3, <1>4, <1>6, <1>7, <1>8 DEF Data, MarksInThePast

\* A timestamp that has passed a task has been announced: the task is current
\* or it was skipped, with a warning or unseen.
LEMMA PassedIsCovered ==
    ASSUME CoveredOrLogged, NEW t \in Tasks, Passed(t), ProjectsOf[t] \subseteq Projects
    PROVE  file[t] = version[t] \/ t \in warned \/ t \in overlooked
  <1>1. PICK p \in ProjectsOf[t] : modified[t] < mark[HomeOf[p]]
    BY DEF Passed
  <1>2. HomeOf[p] \in Workspaces /\ t \in TasksIn(HomeOf[p])
    BY HomeIsAWorkspace DEF TasksIn
  <1> QED
    BY <1>1, <1>2 DEF CoveredOrLogged

\* Saving the state only moves a timestamp forward.
LEMMA PassedStays ==
    ASSUME Typed, Data, NEW w \in Workspaces, SaveState(w),
           NEW t \in Tasks, Passed(t)
    PROVE  Passed(t)'
  <1>1. /\ modified' = modified
        /\ \A v \in Workspaces : mark'[v] = IF v = w THEN start ELSE mark[v]
    BY DEF SaveState, Typed, serverVars
  <1>2. PICK p \in ProjectsOf[t] : modified[t] < mark[HomeOf[p]]
    BY DEF Passed
  <1>3. HomeOf[p] \in Workspaces
    BY HomeIsAWorkspace, TasksAssumption
  <1>4. modified[t] < mark'[HomeOf[p]]
    BY <1>1, <1>2, <1>3 DEF Data, MarksInThePast, Typed, Never
  <1> QED
    BY <1>1, <1>4 DEF Passed

\* When the walks are over, a task of the workspace is settled, given up with a
\* warning, or in no project that was listed.
LEMMA WalksSettle ==
    ASSUME Typed, Control, Data, NEW w \in Workspaces, WalksOver(w), NEW t \in TasksIn(w)
    PROVE  Settled(t) \/ t \in GivenUp(w) \/ t \in Unlisted(w)
  <1>1. ASSUME NEW p \in ProjectsOf[t] \cap listed[w], fetch[p] = "done"
        PROVE  Settled(t)
    <2>1. p \in Projects /\ t \in TasksOf(p)
      BY <1>1 DEF Typed, TasksIn, TasksOf
    <2>2. page[p] = {} /\ rest[p] = {}
      BY <1>1, <2>1 DEF Control, OnlyFetchingHasPages
    <2> QED
      BY <1>1, <2>1, <2>2 DEF Data, WalksCover
  <1>2. ASSUME NEW p \in ProjectsOf[t] \cap listed[w],
               \A q \in ProjectsOf[t] \cap listed[w] : fetch[q] # "done"
        PROVE  t \in GivenUp(w)
    BY <1>2 DEF WalksOver, GivenUp
  <1> QED
    BY <1>1, <1>2 DEF Unlisted

\* The state is saved: a task that a walk covered to its end is settled, and
\* the others are given up or were never listed.
LEMMA SaveKeepsData ==
    ASSUME Typed, Control, Data, NEW w \in Workspaces, SaveState(w)
    PROVE  Data'
  <1>1. /\ UNCHANGED <<now, version, modified, start, file, rest, page>>
        /\ warned' = warned \cup GivenUp(w)
        /\ overlooked' = overlooked \cup Unlisted(w)
        /\ \A v \in Workspaces : mark'[v] = IF v = w THEN start ELSE mark[v]
    BY DEF SaveState, Typed, serverVars
  <1>2. \A p \in Projects : fetch'[p] \in {fetch[p], "off"}
    BY DEF SaveState, ForgetWalks
  <1>3. MarksInThePast'
    BY <1>1 DEF Data, MarksInThePast, Typed
  <1>4. \A t \in Tasks : Settled(t) => Settled(t)'
    BY <1>1, PassedStays DEF Settled
  <1>5. WalksCover'
    BY <1>1, <1>2, <1>4 DEF Data, WalksCover, TasksOf
  <1>6. CoveredOrLogged'
    <2>1. ASSUME NEW t \in TasksIn(w), modified[t] < start
          PROVE  file[t] = version[t] \/ t \in warned' \/ t \in overlooked'
      <3>1. Settled(t) \/ t \in GivenUp(w) \/ t \in Unlisted(w)
        BY WalksSettle DEF SaveState
      <3>2. CASE t \in GivenUp(w) \/ t \in Unlisted(w)
        BY <1>1, <3>2
      <3>3. CASE Settled(t)
        <4>1. file[t] = version[t] \/ Passed(t)
          BY <2>1, <3>3 DEF Settled, Typed, TasksIn
        <4>2. Passed(t) => file[t] = version[t] \/ t \in warned \/ t \in overlooked
          BY PassedIsCovered, TasksAssumption DEF Data, TasksIn
        <4> QED
          BY <1>1, <4>1, <4>2
      <3> QED
        BY <3>1, <3>2, <3>3
    <2> QED
      BY <1>1, <2>1 DEF Data, CoveredOrLogged, TasksIn
  <1> QED
    BY <1>1, <1>3, <1>5, <1>6
    DEF Data, NothingFromTheFuture, OnePageAtATime, PagesFresh

\* The state cannot be saved: there are warnings and no promise was made.
LEMMA SaveFailsKeepsData ==
    ASSUME Typed, Control, Data, NEW w \in Workspaces, SaveFails(w)
    PROVE  Data'
  <1>1. /\ UNCHANGED <<now, version, modified, start, file, mark, rest, page, overlooked>>
        /\ warned \subseteq warned'
        /\ \A p \in Projects : fetch'[p] \in {fetch[p], "off"}
    BY DEF SaveFails, ForgetWalks, serverVars
  <1>2. WalksCover'
    BY <1>1 DEF Data, WalksCover, Settled, Passed, TasksOf
  <1>3. CoveredOrLogged'
    BY <1>1 DEF Data, CoveredOrLogged, TasksIn
  <1> QED
    BY <1>1, <1>2, <1>3
    DEF Data, MarksInThePast, NothingFromTheFuture, OnePageAtATime, PagesFresh

\* A cycle starts: no page of the one before is under way any more.
LEMMA StartKeepsData ==
    ASSUME Typed, Control, Data, StartCycle
    PROVE  Data'
  <1>1. /\ UNCHANGED <<now, version, modified, file, mark, warned, overlooked, fetch, rest, page>>
        /\ start' = now - Lag
    BY DEF StartCycle, serverVars, walkVars
  <1>2. \A p \in Projects : fetch[p] = "off" /\ page[p] = {}
    BY NoWalksWhenIdle DEF StartCycle, Control, IdleBetweenCycles
  <1>3. MarksInThePast'
    BY <1>1, LagAssumption DEF Data, MarksInThePast, Typed, Never
  <1> QED
    BY <1>1, <1>2, <1>3
    DEF Data, NothingFromTheFuture, OnePageAtATime, PagesFresh, WalksCover,
        CoveredOrLogged, TasksIn

\* --full-extraction deletes timestamps, and no promise rests on a timestamp
\* that is gone.
LEMMA FullExtractionKeepsData ==
    ASSUME Typed, Control, Data, FullExtraction
    PROVE  Data'
  <1>1. UNCHANGED <<now, version, modified, start, file, warned, overlooked, fetch, rest, page>>
    BY DEF FullExtraction, serverVars, cycleVars, walkVars
  <1>2. \A w \in Workspaces : mark'[w] \in {mark[w], Never}
    BY DEF FullExtraction
  <1>3. MarksInThePast'
    BY <1>1, <1>2 DEF Data, MarksInThePast, Typed, Never
  <1>5. \A p \in Projects : fetch'[p] = "off"
    BY <1>1, NoWalksWhenIdle DEF FullExtraction, Control, IdleBetweenCycles
  <1>4. CoveredOrLogged'
    <2>1. \A w \in Workspaces : \A t \in TasksIn(w) :
              modified[t] < mark'[w] => modified[t] < mark[w]
      BY <1>2 DEF Typed, TasksIn, Never
    <2> QED
      BY <1>1, <2>1 DEF Data, CoveredOrLogged, TasksIn
  <1> QED
    BY <1>1, <1>3, <1>4, <1>5
    DEF Data, NothingFromTheFuture, OnePageAtATime, PagesFresh, WalksCover

\* Every step keeps what is on disk, under way and still to come in order.
LEMMA DataStep == Typed /\ Control /\ Data /\ [Next]_vars => Data'
  <1> SUFFICES ASSUME Typed, Control, Data, [Next]_vars
               PROVE  Data'
    OBVIOUS
  <1> USE DEF serverVars, cycleVars, walkVars
  <1>1. CASE Tick
    <2>1. MarksInThePast'
      BY <1>1, LagAssumption DEF Tick, Typed, Data, MarksInThePast
    <2>2. NothingFromTheFuture' /\ OnePageAtATime' /\ PagesFresh'
      BY <1>1 DEF Tick, Data, NothingFromTheFuture, OnePageAtATime, PagesFresh
    <2>3. WalksCover' /\ CoveredOrLogged'
      BY <1>1 DEF Tick, Data, WalksCover, Settled, Passed, CoveredOrLogged, TasksOf, TasksIn
    <2> QED
      BY <2>1, <2>2, <2>3 DEF Data
  <1>2. ASSUME \/ \E p \in Projects : Share(p)
               \/ UNCHANGED vars
        PROVE  Data'
    BY <1>2, DataUntouched DEF Share, vars
  <1>3. ASSUME NEW p \in Projects, EndWalk(p)
        PROVE  Data'
    <2>1. /\ UNCHANGED <<now, version, modified, start, file, mark, warned, overlooked, rest, page>>
          /\ fetch[p] = "fetching"
          /\ \A q \in Projects : fetch'[q] = IF q = p THEN "done" ELSE fetch[q]
      BY <1>3 DEF EndWalk, Typed
    <2> QED
      BY <2>1
      DEF Data, MarksInThePast, NothingFromTheFuture, OnePageAtATime, PagesFresh,
          WalksCover, Settled, Passed, CoveredOrLogged, TasksOf, TasksIn
  <1>4. ASSUME NEW p \in Projects, FailWalk(p)
        PROVE  Data'
    BY <1>4, DataUntouched DEF FailWalk, Typed
  <1>5. ASSUME NEW w \in Workspaces, BeginWorkspace(w) \/ FailPhase1(w)
        PROVE  Data'
    BY <1>5, DataUntouched DEF BeginWorkspace, FailPhase1
  <1>6. ASSUME NEW w \in Workspaces, FinishUsers(w) \/ FinishProjects(w)
        PROVE  Data'
    <2>1. \A p \in Projects : fetch'[p] \in {fetch[p], "starting"}
      BY <1>6 DEF FinishUsers, FinishProjects, StartWalks
    <2> QED
      BY <1>6, <2>1, DataUntouched DEF FinishUsers, FinishProjects
  <1>7. CASE EndCycle
    BY <1>7, DataUntouched DEF EndCycle
  <1>8. CASE Restart
    BY <1>8, DataUntouched DEF Restart
  <1> QED
    BY <1>1, <1>2, <1>3, <1>4, <1>5, <1>6, <1>7, <1>8, EditKeepsData,
       QueryKeepsData, AnswerKeepsData, ReceiveKeepsData, SaveKeepsData,
       SaveFailsKeepsData, StartKeepsData, FullExtractionKeepsData
    DEF Next, WorkspaceStep, WalkStep
----------------------------------------------------------------------------
(* Sight.                                                                  *)

\* Every step keeps what is listed visible and the pages those of their project.
LEMMA SightStep == Typed /\ Sight /\ [Next]_vars => Sight'
  <1> SUFFICES ASSUME Typed, Sight, [Next]_vars
               PROVE  Sight'
    OBVIOUS
  <1> USE DEF serverVars, cycleVars, walkVars
  <1>seen. ASSUME NEW w \in Workspaces, FinishProjects(w)
           PROVE  ListedIsVisible'
    <2>1. /\ visible' = visible
          /\ \A v \in Workspaces :
                 listed'[v] = IF v = w THEN visible \cap ProjectsIn(w) ELSE listed[v]
      BY <1>seen DEF FinishProjects, Typed
    <2> QED
      BY <2>1 DEF Sight, ListedIsVisible
  <1>other. ASSUME listed' = listed, visible \subseteq visible'
            PROVE  ListedIsVisible'
    BY <1>other DEF Sight, ListedIsVisible
  <1>less. ASSUME \A p \in Projects : rest'[p] \subseteq rest[p] /\ page'[p] \subseteq page[p]
           PROVE  PagesOfTheProject'
    BY <1>less DEF Sight, PagesOfTheProject, TasksOf
  <1>1. ASSUME \/ Tick \/ StartCycle \/ EndCycle \/ FullExtraction \/ UNCHANGED vars
               \/ \E t \in Tasks : Edit(t)
               \/ \E p \in Projects : Share(p) \/ EndWalk(p)
               \/ \E w \in Workspaces : \/ BeginWorkspace(w) \/ FinishUsers(w)
                                         \/ FailPhase1(w) \/ SaveState(w) \/ SaveFails(w)
        PROVE  Sight'
    <2>1. listed' = listed /\ visible \subseteq visible'
      BY <1>1 DEF Tick, StartCycle, EndCycle, FullExtraction, vars, Edit, Share, EndWalk,
                  BeginWorkspace, FinishUsers, FailPhase1, SaveState, SaveFails
    <2>2. UNCHANGED <<rest, page>>
      BY <1>1 DEF Tick, StartCycle, EndCycle, FullExtraction, vars, Edit, Share, EndWalk,
                  BeginWorkspace, FinishUsers, FailPhase1, SaveState, SaveFails
    <2> QED
      BY <2>1, <2>2, <1>other, <1>less DEF Sight
  <1>2. ASSUME NEW w \in Workspaces, FinishProjects(w)
        PROVE  Sight'
    <2>1. UNCHANGED <<rest, page>>
      BY <1>2 DEF FinishProjects
    <2> QED
      BY <1>2, <2>1, <1>seen, <1>less DEF Sight
  <1>3. ASSUME NEW p \in Projects, ReceivePage(p) \/ FailWalk(p)
        PROVE  Sight'
    <2>1. UNCHANGED <<listed, visible>>
      BY <1>3 DEF ReceivePage, FailWalk
    <2>2. \A q \in Projects : rest'[q] \subseteq rest[q] /\ page'[q] \subseteq page[q]
      BY <1>3 DEF ReceivePage, FailWalk, Typed
    <2> QED
      BY <2>1, <2>2, <1>other, <1>less DEF Sight
  <1>4. CASE Restart
    <2>1. UNCHANGED <<listed, visible>>
      BY <1>4 DEF Restart
    <2>2. \A q \in Projects : rest'[q] = {} /\ page'[q] = {}
      BY <1>4 DEF Restart
    <2> QED
      BY <2>1, <2>2, <1>other, <1>less DEF Sight
  <1>5. ASSUME NEW p \in Projects, Query(p)
        PROVE  Sight'
    <2>1. /\ UNCHANGED <<listed, visible, page>>
          /\ \A q \in Projects : q # p => rest'[q] = rest[q]
          /\ rest'[p] \subseteq TasksOf(p)
      BY <1>5 DEF Query, Typed
    <2>2. PagesOfTheProject'
      BY <2>1 DEF Sight, PagesOfTheProject, TasksOf
    <2> QED
      BY <2>1, <2>2, <1>other DEF Sight
  <1>6. ASSUME NEW p \in Projects, AnswerPage(p)
        PROVE  Sight'
    <2>1. PICK t \in rest[p] :
               /\ page' = [page EXCEPT ![p] = {[task |-> t, version |-> version[t]]}]
               /\ rest' = [rest EXCEPT ![p] = @ \ {t}]
      BY <1>6 DEF AnswerPage
    <2>2. UNCHANGED <<listed, visible>>
      BY <1>6 DEF AnswerPage
    <2>3. /\ \A q \in Projects : rest'[q] \subseteq rest[q]
          /\ \A q \in Projects : q # p => page'[q] = page[q]
          /\ \A e \in page'[p] : e.task = t
      BY <2>1 DEF Typed
    <2>4. p \in ProjectsOf[t]
      BY DEF Sight, PagesOfTheProject, TasksOf
    <2>5. PagesOfTheProject'
      BY <2>3, <2>4 DEF Sight, PagesOfTheProject, TasksOf
    <2> QED
      BY <2>2, <2>5, <1>other DEF Sight
  <1> QED
    BY <1>1, <1>2, <1>3, <1>4, <1>5, <1>6 DEF Next, WorkspaceStep, WalkStep
----------------------------------------------------------------------------
(* The slots of the workspace semaphore.                                   *)

\* The workspaces that hold a slot.
Holders == {w \in Workspaces : stage[w] \in Active}

\* There are finitely many of them.
LEMMA HoldersFinite == IsFiniteSet(Holders) /\ Cardinality(Holders) \in Nat
  <1>1. Holders \in SUBSET Workspaces
    BY DEF Holders
  <1> QED
    BY <1>1, WorkspacesAssumption, FS_Subset, FS_CardinalityType

\* A workspace that moves takes or gives back at most its own slot.
LEMMA HoldersMove ==
    ASSUME Typed, NEW w \in Workspaces, NEW place, stage' = [stage EXCEPT ![w] = place]
    PROVE  /\ stage[w] \notin Active /\ place \in Active
                  => Cardinality(Holders') = Cardinality(Holders) + 1
           /\ stage[w] \in Active /\ place \notin Active
                  => Cardinality(Holders') = Cardinality(Holders) - 1
           /\ stage[w] \in Active /\ place \in Active
                  => Cardinality(Holders') = Cardinality(Holders)
  <1>1. \A v \in Workspaces : stage'[v] = IF v = w THEN place ELSE stage[v]
    BY DEF Typed
  <1>2. ASSUME stage[w] \notin Active, place \in Active
        PROVE  Cardinality(Holders') = Cardinality(Holders) + 1
    <2>1. Holders' = Holders \cup {w} /\ w \notin Holders
      BY <1>1, <1>2 DEF Holders
    <2> QED
      BY <2>1, HoldersFinite, FS_AddElement
  <1>3. ASSUME stage[w] \in Active, place \notin Active
        PROVE  Cardinality(Holders') = Cardinality(Holders) - 1
    <2>1. Holders' = Holders \ {w} /\ w \in Holders
      BY <1>1, <1>3 DEF Holders
    <2> QED
      BY <2>1, HoldersFinite, FS_RemoveElement
  <1>4. ASSUME stage[w] \in Active, place \in Active
        PROVE  Cardinality(Holders') = Cardinality(Holders)
    <2>1. Holders' = Holders
      BY <1>1, <1>4 DEF Holders
    <2> QED
      BY <2>1
  <1> QED
    BY <1>2, <1>3, <1>4

\* Nobody holds a slot if no workspace is active.
LEMMA NoHolders ==
    ASSUME \A w \in Workspaces : stage[w] \notin Active
    PROVE  Cardinality(Holders) = 0
  <1>1. Holders = {}
    BY DEF Holders
  <1> QED
    BY <1>1, FS_EmptySet

\* Every step keeps account of the slots.
LEMMA SlotsStep == Typed /\ Control /\ WorkspaceSlots /\ [Next]_vars => WorkspaceSlots'
  <1> SUFFICES ASSUME Typed, Control, permits + Cardinality(Holders) = MaxConcurrent,
                      [Next]_vars
               PROVE  permits' + Cardinality(Holders') = MaxConcurrent
    BY DEF WorkspaceSlots, Holders
  <1> USE DEF serverVars, cycleVars, walkVars
  <1>typed. permits \in Nat /\ Cardinality(Holders) \in Nat /\ MaxConcurrent \in Nat
    BY HoldersFinite, LimitAssumption DEF Typed
  <1>same. ASSUME UNCHANGED <<stage, permits>>
           PROVE  permits' + Cardinality(Holders') = MaxConcurrent
    BY <1>same DEF Holders
  <1>1. ASSUME \/ Tick
               \/ \E t \in Tasks : Edit(t)
               \/ \E p \in Projects : Share(p) \/ WalkStep(p)
               \/ FullExtraction
               \/ UNCHANGED vars
        PROVE  UNCHANGED <<stage, permits>>
    BY <1>1
    DEF Tick, Edit, Share, WalkStep, Query, AnswerPage, ReceivePage, EndWalk, FailWalk,
        FullExtraction, vars
  <1>2. ASSUME NEW w \in Workspaces, BeginWorkspace(w)
        PROVE  permits' + Cardinality(Holders') = MaxConcurrent
    <2>1. Cardinality(Holders') = Cardinality(Holders) + 1
      BY <1>2, HoldersMove DEF BeginWorkspace, Active
    <2> QED
      BY <1>2, <2>1, <1>typed DEF BeginWorkspace
  <1>3. ASSUME NEW w \in Workspaces, FinishUsers(w) \/ FinishProjects(w)
        PROVE  permits' + Cardinality(Holders') = MaxConcurrent
    <2>1. PICK place \in Active : stage' = [stage EXCEPT ![w] = place]
      BY <1>3 DEF FinishUsers, FinishProjects, StartWalks, Active
    <2>2. stage[w] \in Active /\ permits' = permits
      BY <1>3 DEF FinishUsers, FinishProjects, Active
    <2> QED
      BY <2>1, <2>2, HoldersMove
  <1>4. ASSUME NEW w \in Workspaces, FailPhase1(w) \/ SaveState(w) \/ SaveFails(w)
        PROVE  permits' + Cardinality(Holders') = MaxConcurrent
    <2>1. PICK outcome \in {"succeeded", "failed"} : LeaveWorkspace(w, outcome)
      BY <1>4 DEF FailPhase1, SaveState, SaveFails
    <2>2. stage[w] \in Active
      BY <1>4 DEF FailPhase1, SaveState, SaveFails, Active
    <2>3. Cardinality(Holders') = Cardinality(Holders) - 1
      BY <2>1, <2>2, HoldersMove DEF LeaveWorkspace, Active
    <2> QED
      BY <2>1, <2>3, <1>typed DEF LeaveWorkspace
  <1>5. CASE StartCycle \/ EndCycle
    <2>1. \A w \in Workspaces : stage[w] \notin Active
      BY <1>5 DEF StartCycle, EndCycle, Control, IdleBetweenCycles, Active
    <2>2. \A w \in Workspaces : stage'[w] \in {"off", "waiting"}
      BY <1>5 DEF StartCycle, EndCycle
    <2>3. Cardinality(Holders) = 0
      BY <2>1, NoHolders
    <2>4. Holders' = {}
      BY <2>2 DEF Holders, Active
    <2> QED
      BY <1>5, <2>3, <2>4, <1>typed, FS_EmptySet DEF StartCycle, EndCycle
  <1>6. CASE Restart
    <2>1. Holders' = {}
      BY <1>6 DEF Restart, Holders, Active
    <2> QED
      BY <1>6, <2>1, <1>typed, FS_EmptySet DEF Restart
  <1> QED
    BY <1>same, <1>1, <1>2, <1>3, <1>4, <1>5, <1>6 DEF Next, WorkspaceStep
----------------------------------------------------------------------------
\* The invariant holds throughout.
THEOREM Inductive == Spec => []IInv
  <1>1. IInv /\ [Next]_vars => IInv'
    BY TypedStep, ControlStep, DataStep, SightStep, SlotsStep DEF IInv, Data
  <1> QED
    BY <1>1, InitEstablishes, PTL DEF Spec

\* The state keeps its types; the semaphore never has more slots free than it
\* has in all.
THEOREM TypeCorrect == Spec => []TypeOK
  <1>1. IInv => TypeOK
    <2>1. IInv => permits \in 0 .. MaxConcurrent
      BY HoldersFinite, LimitAssumption DEF IInv, Typed, WorkspaceSlots, Holders
    <2> QED
      BY <2>1 DEF IInv, Typed, TypeOK
  <1> QED
    BY <1>1, Inductive, PTL

\* The timestamp in the state file can be relied on: a task modified before it
\* is up to date on disk, unless a warning says that its projects' walks failed,
\* or none of its projects was listed when the state was saved.
THEOREM CoveredOrLoggedHolds == Spec => []CoveredOrLogged
  <1>1. IInv => CoveredOrLogged
    BY DEF IInv, Data
  <1> QED
    BY <1>1, Inductive, PTL

\* No slot of the workspace semaphore is lost or given back twice.
THEOREM WorkspaceSlotsHolds == Spec => []WorkspaceSlots
  <1>1. IInv => WorkspaceSlots
    BY DEF IInv
  <1> QED
    BY <1>1, Inductive, PTL

\* A version is only overwritten by an older one if the next cycle fetches the
\* task again.
THEOREM OverwrittenIsRefetchedHolds == Spec => OverwrittenIsRefetched
  <1> DEFINE Refetched == \A t \in Tasks : file'[t] < file[t] => modified[t] >= start
  <1>1. IInv /\ [Next]_vars => Refetched
    <2> SUFFICES ASSUME IInv, [Next]_vars
                 PROVE  Refetched
      OBVIOUS
    <2>1. (\E p \in Projects : ReceivePage(p)) \/ file' = file
      BY DEF Next, Tick, Edit, Share, WalkStep, Query, AnswerPage, EndWalk, FailWalk,
             StartCycle, WorkspaceStep, BeginWorkspace, FinishUsers, FinishProjects,
             FailPhase1, SaveState, SaveFails, EndCycle, Restart, FullExtraction, vars
    <2>2. CASE \E p \in Projects : ReceivePage(p)
      BY <2>2, ReceiveKeepsData DEF IInv
    <2>3. CASE file' = file
      BY <2>3 DEF IInv, Typed
    <2> QED
      BY <2>1, <2>2, <2>3
  <1>2. IInv /\ [Next]_vars => [Refetched]_vars
    BY <1>1
  <1> QED
    BY <1>2, Inductive, PTL DEF Spec, OverwrittenIsRefetched
----------------------------------------------------------------------------
(* The files are a replica: the refinement of Replica.                     *)

\* A timestamp has passed a task only if the task was last modified before the
\* cycle started.
LEMMA PassedBeforeStart ==
    ASSUME Typed, MarksInThePast, NEW t \in Tasks, Passed(t)
    PROVE  modified[t] < start
  <1>1. PICK p \in ProjectsOf[t] : modified[t] < mark[HomeOf[p]]
    BY DEF Passed
  <1>2. HomeOf[p] \in Workspaces
    BY HomeIsAWorkspace, TasksAssumption
  <1> QED
    BY <1>1, <1>2 DEF MarksInThePast, Typed, Never

\* The copy as it is mapped: the tasks that have been seen.
SeenTasks == {t \in Tasks : Seen(t)}

\* A step that leaves the tasks, their files, the timestamps and the lists of
\* projects alone.
LEMMA StatusUntouched ==
    ASSUME UNCHANGED <<version, modified, file, mark, listed, warned>>
    PROVE  UNCHANGED Copy!replicaVars
  <1>1. \A t \in Tasks : StatusOf(t)' = StatusOf(t)
    BY DEF StatusOf, Passed
  <1>2. [t \in Tasks |-> StatusOf(t)]' = [t \in Tasks |-> StatusOf(t)]
    BY <1>1
  <1>3. SeenTasks' = SeenTasks
    BY DEF SeenTasks, Seen
  <1> QED
    BY <1>2, <1>3 DEF Copy!replicaVars, SeenTasks

LEMMA EditIsChange ==
    ASSUME Typed, Data, NEW t \in Tasks, Edit(t)
    PROVE  Copy!Change(t)
  <1>1. /\ UNCHANGED <<start, mark, file, listed>>
        /\ warned' = warned \ {t}
        /\ \A u \in Tasks : version'[u] = IF u = t THEN version[u] + 1 ELSE version[u]
        /\ \A u \in Tasks : modified'[u] = IF u = t THEN now ELSE modified[u]
    BY DEF Edit, Typed, cycleVars
  <1>2. \A u \in Tasks \ {t} : StatusOf(u)' = StatusOf(u)
    BY <1>1 DEF StatusOf, Passed
  <1>3. StatusOf(t)' = "due"
    <2>1. file'[t] # version'[t]
      BY <1>1 DEF Typed, Data, NothingFromTheFuture
    <2>2. \A p \in ProjectsOf[t] : ~ (modified'[t] < mark'[HomeOf[p]])
      <3> SUFFICES ASSUME NEW p \in ProjectsOf[t]
                   PROVE  ~ (now < mark[HomeOf[p]])
        BY <1>1
      <3>1. HomeOf[p] \in Workspaces
        BY HomeIsAWorkspace, TasksAssumption
      <3> QED
        BY <3>1, LagAssumption DEF Data, MarksInThePast, Typed, Never
    <2> QED
      BY <2>1, <2>2 DEF StatusOf, Passed
  <1>4. [u \in Tasks |-> StatusOf(u)]'
            = [[u \in Tasks |-> StatusOf(u)] EXCEPT ![t] = "due"]
    BY <1>2, <1>3
  <1>5. SeenTasks' = SeenTasks
    BY <1>1 DEF SeenTasks, Seen
  <1> QED
    BY <1>1, <1>4, <1>5 DEF Copy!Change, SeenTasks

LEMMA ReceiveIsFetch ==
    ASSUME Typed, Control, Data, Sight, NEW p \in Projects, ReceivePage(p)
    PROVE  \E t \in Tasks : Copy!Fetch(t)
  <1>1. PICK e \in page[p] : /\ file' = [file EXCEPT ![e.task] = e.version]
                             /\ warned' = warned \ {e.task}
                             /\ overlooked' = overlooked \ {e.task}
    BY DEF ReceivePage
  <1>2. /\ e.task \in Tasks /\ e.version \in Nat
        /\ e.version = version[e.task] \/ modified[e.task] >= start
    BY DEF Typed, Entry, Data, PagesFresh
  <1>3. /\ UNCHANGED <<version, modified, start, mark, listed>>
        /\ \A t \in Tasks : file'[t] = IF t = e.task THEN e.version ELSE file[t]
    BY <1>1 DEF ReceivePage, Typed, serverVars, cycleVars
  <1>7. SeenTasks' = SeenTasks
    BY <1>3 DEF SeenTasks, Seen
  <1>8. e.task \in SeenTasks
    <2>1. p \in ProjectsOf[e.task]
      BY <1>1, <1>2 DEF Sight, PagesOfTheProject
    <2>2. fetch[p] # "off"
      BY <1>1 DEF Control, OnlyFetchingHasPages
    <2>3. p \in listed[HomeOf[p]]
      BY <2>2 DEF Control, WalksHaveAPlace
    <2> QED
      BY <1>2, <2>1, <2>3 DEF SeenTasks, Seen
  <1>4. \A t \in Tasks \ {e.task} : StatusOf(t)' = StatusOf(t)
    BY <1>3 DEF StatusOf, Passed
  <1>5. CASE e.version = version[e.task]
    <2>1. StatusOf(e.task)' = "current"
      BY <1>2, <1>3, <1>5 DEF StatusOf
    <2>2. [t \in Tasks |-> StatusOf(t)]'
              = [[t \in Tasks |-> StatusOf(t)] EXCEPT ![e.task] = "current"]
      BY <1>4, <2>1
    <2>3. Copy!Fetch(e.task)
      BY <1>1, <1>7, <1>8, <2>2 DEF Copy!Fetch, SeenTasks
    <2> QED
      BY <1>2, <2>3
  <1>6. CASE e.version # version[e.task]
    <2>1. ~ Passed(e.task)
      BY <1>2, <1>6, PassedBeforeStart DEF Data, Typed
    <2>2. StatusOf(e.task) # "missed"
      BY <2>1 DEF StatusOf
    <2>3. StatusOf(e.task)' = "due"
      BY <1>2, <1>3, <1>6, <2>1 DEF StatusOf, Passed
    <2>4. [t \in Tasks |-> StatusOf(t)]'
              = [[t \in Tasks |-> StatusOf(t)] EXCEPT ![e.task] = "due"]
      BY <1>4, <2>3
    <2>5. [t \in Tasks |-> StatusOf(t)][e.task] # "missed"
      BY <1>2, <2>2
    <2>6. Copy!Fetch(e.task)
      BY <1>1, <1>7, <1>8, <2>4, <2>5 DEF Copy!Fetch, SeenTasks
    <2> QED
      BY <1>2, <2>6
  <1> QED
    BY <1>5, <1>6

\* What is given up has been seen.
LEMMA GivenUpIsSeen ==
    ASSUME Typed, Control, NEW w \in Workspaces
    PROVE  GivenUp(w) \subseteq SeenTasks
  <1> SUFFICES ASSUME NEW t \in GivenUp(w)
               PROVE  t \in SeenTasks
    OBVIOUS
  <1>1. PICK p \in ProjectsOf[t] : p \in listed[w]
    BY DEF GivenUp
  <1>2. HomeOf[p] = w
    BY <1>1 DEF Control, ListedAtHome, ProjectsIn
  <1> QED
    BY <1>1, <1>2 DEF SeenTasks, Seen, GivenUp, TasksIn

\* A task of a workspace that is in none of the listed projects is not seen.
LEMMA UnlistedIsUnseen ==
    ASSUME NEW w \in Workspaces, NEW t \in Unlisted(w)
    PROVE  t \in Tasks \ SeenTasks
  <1>1. t \in Tasks /\ \E p \in ProjectsOf[t] : HomeOf[p] = w
    BY DEF Unlisted, TasksIn
  <1>2. \A p \in ProjectsOf[t] : HomeOf[p] = w
    BY <1>1, TasksAssumption
  <1> QED
    BY <1>1, <1>2 DEF Unlisted, SeenTasks, Seen

LEMMA SaveIsAdvance ==
    ASSUME Typed, Control, Data, NEW w \in Workspaces, SaveState(w)
    PROVE  \E some \in SUBSET Tasks : Copy!Advance(some)
  <1> DEFINE gone == {t \in Tasks : file[t] # version[t] /\ ~ Passed(t) /\ Passed(t)'}
             old  == [t \in Tasks |-> StatusOf(t)]
  <1>1. /\ UNCHANGED <<version, modified, start, file, listed>>
        /\ warned' = warned \cup GivenUp(w)
        /\ \A v \in Workspaces : mark'[v] = IF v = w THEN start ELSE mark[v]
    BY DEF SaveState, Typed, serverVars
  <1>2. GivenUp(w) \subseteq SeenTasks /\ GivenUp(w) \in SUBSET Tasks
    BY GivenUpIsSeen DEF GivenUp, TasksIn
  <1>3. gone \in SUBSET (GivenUp(w) \cup (Tasks \ SeenTasks))
    <2> SUFFICES ASSUME NEW t \in Tasks, file[t] # version[t], ~ Passed(t), Passed(t)'
                 PROVE  t \in GivenUp(w) \/ t \in Tasks \ SeenTasks
      OBVIOUS
    <2>1. PICK p \in ProjectsOf[t] : modified[t] < mark'[HomeOf[p]]
      BY <1>1 DEF Passed
    <2>2. HomeOf[p] \in Workspaces /\ ~ (modified[t] < mark[HomeOf[p]])
      BY HomeIsAWorkspace, TasksAssumption DEF Passed
    <2>3. HomeOf[p] = w /\ modified[t] < start
      BY <1>1, <2>1, <2>2
    <2>4. t \in TasksIn(w)
      BY <2>3 DEF TasksIn
    <2>5. ~ Settled(t)
      BY <2>3 DEF Settled, Typed
    <2> QED
      BY <2>4, <2>5, WalksSettle, UnlistedIsUnseen DEF SaveState
  <1>4. \A t \in Tasks :
            StatusOf(t)' = IF t \in gone /\ StatusOf(t) = "due" THEN "missed" ELSE StatusOf(t)
    <2> SUFFICES ASSUME NEW t \in Tasks
                 PROVE  StatusOf(t)' = IF t \in gone /\ StatusOf(t) = "due"
                                       THEN "missed" ELSE StatusOf(t)
      OBVIOUS
    <2>1. CASE file[t] = version[t]
      BY <1>1, <2>1 DEF StatusOf
    <2>2. CASE file[t] # version[t] /\ Passed(t)
      BY <1>1, <2>2, PassedStays DEF StatusOf
    <2>3. CASE file[t] # version[t] /\ ~ Passed(t)
      BY <1>1, <2>3 DEF StatusOf
    <2> QED
      BY <2>1, <2>2, <2>3
  <1>5. old' = [t \in Tasks |-> IF t \in gone /\ old[t] = "due" THEN "missed" ELSE old[t]]
    <2> HIDE DEF gone
    <2> QED
      BY <1>4
  <1>6. SeenTasks' = SeenTasks
    BY <1>1 DEF SeenTasks, Seen
  <1>7. Copy!Advance(GivenUp(w))
    <2> HIDE DEF gone
    <2> QED
      BY <1>1, <1>2, <1>3, <1>5, <1>6 DEF Copy!Advance, SeenTasks
  <1> QED
    BY <1>2, <1>7

\* The walks are over and the state cannot be saved: there are warnings only.
LEMMA SaveFailsIsAdvance ==
    ASSUME Typed, Control, NEW w \in Workspaces, SaveFails(w)
    PROVE  \E some \in SUBSET Tasks : Copy!Advance(some)
  <1> DEFINE old == [t \in Tasks |-> StatusOf(t)]
             none == {}
  <1>1. /\ UNCHANGED <<version, modified, file, mark, listed>>
        /\ warned' = warned \cup GivenUp(w)
    BY DEF SaveFails, serverVars
  <1>2. GivenUp(w) \subseteq SeenTasks /\ GivenUp(w) \in SUBSET Tasks
    BY GivenUpIsSeen DEF GivenUp, TasksIn
  <1>3. \A t \in Tasks : StatusOf(t)' = StatusOf(t)
    BY <1>1 DEF StatusOf, Passed
  <1>4. old' = [t \in Tasks |-> IF t \in none /\ old[t] = "due" THEN "missed" ELSE old[t]]
    BY <1>3
  <1>5. SeenTasks' = SeenTasks
    BY <1>1 DEF SeenTasks, Seen
  <1>6. none \in SUBSET (GivenUp(w) \cup (Tasks \ SeenTasks))
    OBVIOUS
  <1>7. Copy!Advance(GivenUp(w))
    <2> HIDE DEF none
    <2> QED
      BY <1>1, <1>2, <1>4, <1>5, <1>6 DEF Copy!Advance, SeenTasks
  <1> QED
    BY <1>2, <1>7

\* A project list that comes later never lacks a project that was listed before.
LEMMA ListIsDiscovery ==
    ASSUME Typed, Control, Sight, NEW w \in Workspaces, FinishProjects(w)
    PROVE  \E some \in SUBSET Tasks : Copy!Discover(some)
  <1>1. /\ UNCHANGED <<version, modified, file, mark, warned>>
        /\ \A v \in Workspaces : listed[v] \subseteq listed'[v]
    BY DEF FinishProjects, Typed, Control, ListedAtHome, Sight, ListedIsVisible, serverVars
  <1>2. \A t \in Tasks : StatusOf(t)' = StatusOf(t)
    BY <1>1 DEF StatusOf, Passed
  <1>3. [t \in Tasks |-> StatusOf(t)]' = [t \in Tasks |-> StatusOf(t)]
    BY <1>2
  <1>4. SeenTasks' = SeenTasks \cup SeenTasks'
    <2>1. ASSUME NEW t \in Tasks, Seen(t)
          PROVE  Seen(t)'
      <3>1. PICK p \in ProjectsOf[t] : p \in listed[HomeOf[p]]
        BY <2>1 DEF Seen
      <3>2. HomeOf[p] \in Workspaces
        BY HomeIsAWorkspace, TasksAssumption
      <3> QED
        BY <1>1, <3>1, <3>2 DEF Seen
    <2> QED
      BY <2>1 DEF SeenTasks
  <1>5. SeenTasks' \in SUBSET Tasks
    BY DEF SeenTasks
  <1>6. Copy!Discover(SeenTasks')
    BY <1>1, <1>3, <1>4 DEF Copy!Discover, SeenTasks
  <1> QED
    BY <1>5, <1>6

LEMMA FullExtractionIsStartOver ==
    ASSUME Typed, FullExtraction
    PROVE  \E some \in SUBSET Tasks : Copy!StartOver(some)
  <1> DEFINE gone == {t \in Tasks : ~ Passed(t)'}
  <1>1. UNCHANGED <<version, modified, file, listed, warned>>
    BY DEF FullExtraction, serverVars, cycleVars, walkVars
  <1>2. \A w \in Workspaces : mark'[w] \in {mark[w], Never}
    BY DEF FullExtraction
  <1>3. ASSUME NEW t \in Tasks, Passed(t)'
        PROVE  Passed(t)
    <2>1. PICK p \in ProjectsOf[t] : modified[t] < mark'[HomeOf[p]]
      BY <1>1, <1>3 DEF Passed
    <2>2. HomeOf[p] \in Workspaces
      BY HomeIsAWorkspace, TasksAssumption
    <2>3. modified[t] < mark[HomeOf[p]]
      BY <1>2, <2>1, <2>2 DEF Typed, Never
    <2> QED
      BY <2>3 DEF Passed
  <1>4. \A t \in Tasks :
            StatusOf(t)' = IF t \in gone /\ StatusOf(t) = "missed"
                           THEN "due" ELSE StatusOf(t)
    BY <1>1, <1>3 DEF StatusOf
  <1>5. SeenTasks' = SeenTasks
    BY <1>1 DEF SeenTasks, Seen
  <1>6. Copy!StartOver(gone)
    BY <1>1, <1>4, <1>5 DEF Copy!StartOver, SeenTasks
  <1> QED
    BY <1>6

\* Every step of the extraction is a step of the replica or leaves it alone.
LEMMA StepIsReplicaStep ==
    IInv /\ [Next]_vars => [Copy!ReplicaNext]_(Copy!replicaVars)
  <1> SUFFICES ASSUME IInv, [Next]_vars
               PROVE  Copy!ReplicaNext \/ UNCHANGED Copy!replicaVars
    OBVIOUS
  <1>1. ASSUME NEW t \in Tasks, Edit(t) PROVE Copy!ReplicaNext
    BY <1>1, EditIsChange DEF IInv, Copy!ReplicaNext
  <1>2. ASSUME NEW p \in Projects, ReceivePage(p) PROVE Copy!ReplicaNext
    BY <1>2, ReceiveIsFetch DEF IInv, Copy!ReplicaNext
  <1>3. ASSUME NEW w \in Workspaces, SaveState(w) \/ SaveFails(w) PROVE Copy!ReplicaNext
    BY <1>3, SaveIsAdvance, SaveFailsIsAdvance DEF IInv, Copy!ReplicaNext
  <1>4. ASSUME FullExtraction PROVE Copy!ReplicaNext
    BY <1>4, FullExtractionIsStartOver DEF IInv, Copy!ReplicaNext
  <1>5. ASSUME NEW w \in Workspaces, FinishProjects(w) PROVE Copy!ReplicaNext
    BY <1>5, ListIsDiscovery DEF IInv, Copy!ReplicaNext
  <1>6. ASSUME \/ Tick \/ StartCycle \/ EndCycle \/ Restart \/ UNCHANGED vars
               \/ \E p \in Projects : \/ Share(p) \/ Query(p) \/ AnswerPage(p)
                                      \/ EndWalk(p) \/ FailWalk(p)
               \/ \E w \in Workspaces : BeginWorkspace(w) \/ FinishUsers(w) \/ FailPhase1(w)
        PROVE  UNCHANGED Copy!replicaVars
    <2>1. UNCHANGED <<version, modified, file, mark, listed, warned>>
      BY <1>6 DEF Tick, StartCycle, EndCycle, Restart, vars, Share, Query, AnswerPage,
                  EndWalk, FailWalk, BeginWorkspace, FinishUsers, FailPhase1,
                  serverVars, cycleVars, walkVars
    <2> QED
      BY <2>1, StatusUntouched
  <1> QED
    BY <1>1, <1>2, <1>3, <1>4, <1>5, <1>6 DEF Next, WorkspaceStep, WalkStep

\* Extraction implements Replica: a task of a project that has been listed is
\* missed only by a state that is saved after its walks have failed with a
\* warning, for every set of workspaces, shared tasks and edits.
THEOREM ExtractionImplementsReplica == Spec => ImplementsReplica
  <1>1. Init => Copy!ReplicaInit
    <2> SUFFICES ASSUME Init
                 PROVE  Copy!ReplicaInit
      OBVIOUS
    <2>1. \A t \in Tasks : StatusOf(t) = "due"
      <3>1. \A t \in Tasks : \A p \in ProjectsOf[t] : HomeOf[p] \in Workspaces
        BY HomeIsAWorkspace, TasksAssumption
      <3> QED
        BY <3>1 DEF Init, StatusOf, Passed, Never
    <2>2. SeenTasks = {}
      <3>1. \A t \in Tasks : \A p \in ProjectsOf[t] : HomeOf[p] \in Workspaces
        BY HomeIsAWorkspace, TasksAssumption
      <3> QED
        BY <3>1 DEF Init, SeenTasks, Seen
    <2> QED
      BY <2>1, <2>2 DEF Copy!ReplicaInit, Init, SeenTasks
  <1> QED
    BY <1>1, StepIsReplicaStep, Inductive, PTL
    DEF Spec, ImplementsReplica, Copy!ReplicaSpec
============================================================================
