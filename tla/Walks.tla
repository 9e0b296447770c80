------------------------------- MODULE Walks -------------------------------
(***************************************************************************)
(* extract_workspace() of one workspace (extractors.py), page by page.     *)
(*                                                                         *)
(* Users and projects are walked together; when one of them raises, gather *)
(* raises at once, the client is closed and the other one goes on with     *)
(* nobody waiting for it.  When both are done, the tasks of each project   *)
(* are walked, and gather(return_exceptions=True) waits for all of these.  *)
(*                                                                         *)
(* A page that has arrived is written in one step, because nothing is      *)
(* awaited between two entities of it.  Requests, rate limits and retries  *)
(* are the business of RateLimitedClient: here a request is answered or    *)
(* raises.  What Asana lists stays the same for the whole extraction       *)
(* (Extraction has the edits).  Of the JSON in a file only the source it   *)
(* was walked from is kept, which is the project_gid of a task.            *)
(***************************************************************************)
EXTENDS Integers, Sequences, FiniteSets

CONSTANTS Projects,   \* gids of projects
          Entities,   \* gids of users and tasks
          NoGid,      \* an entity without a gid
          Listings,   \* what Asana may list, in order, for each source
          PageSize,   \* DEFAULT_PAGE_SIZE
          MaxListed   \* bound: projects that a workspace lists

Sources == {"users", "projects"} \cup Projects
Kinds == {"users", "projects", "tasks"}
Gids == Projects \cup Entities

ASSUME NamesAssumption == /\ NoGid \notin Gids
                          /\ {"users", "projects", "none"} \cap Projects = {}
ASSUME ListingsAssumption ==
    /\ Listings \subseteq [Sources -> Seq(Gids \cup {NoGid})]
    /\ \A l \in Listings : /\ l["projects"] \in Seq(Projects \cup {NoGid})
                           /\ Len(l["projects"]) <= MaxListed
ASSUME SizeAssumption == PageSize \in Nat \ {0} /\ MaxListed \in Nat

\* The coroutines: extract() of the users, of the projects, and of the tasks of
\* the project at each place of the list, which may name a project twice.
Phase1 == {<<"users", 0>>, <<"projects", 0>>}
Walkers == Phase1 \cup {<<"tasks", i>> : i \in 1 .. MaxListed}

VARIABLES listing,  \* what Asana lists in this extraction
          stage,    \* where extract_workspace() is
          open,     \* the client's session is open
          pc,       \* where a coroutine is
          offset,   \* entities of its list that it has been through
          seen,     \* places of the list of projects that are in project_gids
          disk,     \* where the entity in a file was walked from, or "none"
          count,    \* count of a coroutine
          skipped,  \* entities it warned about
          result    \* what extract_workspace() returned

vars == <<listing, stage, open, pc, offset, seen, disk, count, skipped, result>>

\* The list that a coroutine walks over.
SourceOf(w) == IF w[1] = "tasks" THEN listing["projects"][w[2]] ELSE w[1]
List(w) == listing[SourceOf(w)]

\* The output file of an entity, named for its type and its gid.
Files == Kinds \X Gids

NoResult == [count |-> 0, skipped |-> 0, failed |-> {}]

TypeOK == /\ listing \in Listings
          /\ stage \in {"phase1", "tasks", "returned", "raised"}
          /\ open \in BOOLEAN
          /\ pc \in [Walkers -> {"off", "asking", "answered", "done", "failed"}]
          /\ offset \in [Walkers -> Nat]
          /\ seen \subseteq {k \in DOMAIN listing["projects"] : listing["projects"][k] # NoGid}
          /\ disk \in [Files -> Sources \cup {"none"}]
          /\ count \in [Walkers -> Nat]
          /\ skipped \in [Walkers -> Nat]
          /\ result.failed \subseteq Projects

Init == /\ listing \in Listings
        /\ stage = "phase1"
        /\ open = TRUE
        /\ pc = [w \in Walkers |-> IF w \in Phase1 THEN "asking" ELSE "off"]
        /\ offset = [w \in Walkers |-> 0]
        /\ seen = {}
        /\ disk = [f \in Files |-> "none"]
        /\ count = [w \in Walkers |-> 0]
        /\ skipped = [w \in Walkers |-> 0]
        /\ result = NoResult
----------------------------------------------------------------------------
(* paginated_get() and the loop over it in extract().                      *)

\* The client returns the envelope of a page.
Answer(w) ==
    /\ pc[w] = "asking"
    /\ open
    /\ pc' = [pc EXCEPT ![w] = "answered"]
    /\ UNCHANGED <<listing, stage, open, offset, seen, disk, count, skipped, result>>

\* The client raises: the API failed for good, or the session is closed.
FailRequest(w) ==
    /\ pc[w] = "asking"
    /\ pc' = [pc EXCEPT ![w] = "failed"]
    /\ UNCHANGED <<listing, stage, open, offset, seen, disk, count, skipped, result>>

\* The places of the page in the list, and those of its entities with a gid.
Page(w) == {k \in offset[w] + 1 .. offset[w] + PageSize : k <= Len(List(w))}
WithGid(w) == {k \in Page(w) : List(w)[k] # NoGid}

\* Fault variant of Write: the project is not taken from the coroutine itself.
WriteLastProject(w, places) ==
    disk' = [f \in Files |->
                IF f[1] = w[1] /\ \E k \in places : List(w)[k] = f[2]
                THEN IF w[1] = "tasks" THEN listing["projects"][Len(listing["projects"])]
                     ELSE w[1]
                ELSE disk[f]]

\* write_entity() for the entities at these places, over whatever was there.
Write(w, places) ==
    disk' = [f \in Files |->
                IF f[1] = w[1] /\ \E k \in places : List(w)[k] = f[2]
                THEN SourceOf(w)
                ELSE disk[f]]

\* Fault variant of Tally: counted before it is looked at.
TallyAll(w) ==
    /\ count' = [count EXCEPT ![w] = @ + Cardinality(Page(w))]
    /\ skipped' = [skipped EXCEPT ![w] = @ + Cardinality(Page(w) \ WithGid(w))]

\* Entities are counted or warned about.
Tally(w) ==
    /\ count' = [count EXCEPT ![w] = @ + Cardinality(WithGid(w))]
    /\ skipped' = [skipped EXCEPT ![w] = @ + Cardinality(Page(w) \ WithGid(w))]

\* Fault variant of Collect: an entity without a gid is collected too.
CollectAll(w) == seen' = IF w = <<"projects", 0>> THEN seen \cup Page(w) ELSE seen

\* ProjectExtractor collects the gids of its page.
Collect(w) == seen' = IF w = <<"projects", 0>> THEN seen \cup WithGid(w) ELSE seen

IsLastPage(w) == offset[w] + PageSize >= Len(List(w))

\* Fault variant of NextPage: asks for the page that follows the last one.
NextPageForEver(w) ==
    /\ pc' = [pc EXCEPT ![w] = "asking"]
    /\ offset' = [offset EXCEPT ![w] = IF IsLastPage(w) THEN Len(List(w)) ELSE @ + PageSize]

\* The walk asks for the page at next_page's offset, until there is none.
NextPage(w) ==
    IF IsLastPage(w)
    THEN /\ pc' = [pc EXCEPT ![w] = "done"]
         /\ UNCHANGED offset
    ELSE /\ pc' = [pc EXCEPT ![w] = "asking"]
         /\ offset' = [offset EXCEPT ![w] = @ + PageSize]

\* The entities of a page are written, or skipped with a warning.
WritePage(w) ==
    /\ pc[w] = "answered"
    /\ Write(w, WithGid(w))
    /\ Tally(w)
    /\ Collect(w)
    /\ NextPage(w)
    /\ UNCHANGED <<listing, stage, open, result>>

\* write_entity() raises on one of them; those before it are on disk.
WriteFails(w) ==
    /\ pc[w] = "answered"
    /\ \E k \in WithGid(w) : Write(w, {j \in WithGid(w) : j < k})
    /\ pc' = [pc EXCEPT ![w] = "failed"]
    /\ UNCHANGED <<listing, stage, open, offset, seen, count, skipped, result>>
----------------------------------------------------------------------------
(* extract_workspace() and extract_all().                                  *)

\* gather() raises what the first of the two raised, the exception leaves the
\* block of the client, whose session is closed.  The other coroutine goes on.
Phase1Raises ==
    /\ stage = "phase1"
    /\ \E w \in Phase1 : pc[w] = "failed"
    /\ stage' = "raised"
    /\ open' = FALSE
    /\ UNCHANGED <<listing, pc, offset, seen, disk, count, skipped, result>>

TaskWalks == {<<"tasks", i>> : i \in seen}

\* Fault variant of Phase1Done: tasks begin when the projects are done.
TasksAfterProjects ==
    /\ stage = "phase1"
    /\ pc[<<"projects", 0>>] = "done"
    /\ stage' = "tasks"
    /\ pc' = [w \in Walkers |-> IF w \in TaskWalks THEN "asking" ELSE pc[w]]
    /\ UNCHANGED <<listing, open, offset, seen, disk, count, skipped, result>>

\* Both are done: a coroutine for the tasks of each of the project_gids.
Phase1Done ==
    /\ stage = "phase1"
    /\ \A w \in Phase1 : pc[w] = "done"
    /\ stage' = "tasks"
    /\ pc' = [w \in Walkers |-> IF w \in TaskWalks THEN "asking" ELSE pc[w]]
    /\ UNCHANGED <<listing, open, offset, seen, disk, count, skipped, result>>

Ended(w) == pc[w] \in {"done", "failed"}

Completed == {w \in Walkers : pc[w] = "done"}

\* The sum of a tally over the coroutines that did not raise: one pair for each
\* entity that the coroutine has in this tally.
Total(tally) == Cardinality(UNION {{w} \X (1 .. tally[w]) : w \in Completed})

\* Fault variant of TasksGathered: a project that failed leaves no warning.
GatheredWithoutFailures ==
    /\ stage = "tasks"
    /\ \A w \in TaskWalks : Ended(w)
    /\ result' = [count |-> Total(count), skipped |-> Total(skipped), failed |-> {}]
    /\ stage' = "returned"
    /\ open' = FALSE
    /\ UNCHANGED <<listing, pc, offset, seen, disk, count, skipped>>

\* All have ended: counts and warnings are added up, a coroutine that raised
\* becomes a warning that names its project, and the client is closed.
TasksGathered ==
    /\ stage = "tasks"
    /\ \A w \in TaskWalks : Ended(w)
    /\ result' = [count |-> Total(count), skipped |-> Total(skipped),
                  failed |-> {SourceOf(w) : w \in {v \in TaskWalks : pc[v] = "failed"}}]
    /\ stage' = "returned"
    /\ open' = FALSE
    /\ UNCHANGED <<listing, pc, offset, seen, disk, count, skipped>>

Walk(w) == Answer(w) \/ FailRequest(w) \/ WritePage(w) \/ WriteFails(w)
Gather == Phase1Raises \/ Phase1Done \/ TasksGathered

Next == Gather \/ \E w \in Walkers : Walk(w)

Spec == Init /\ [][Next]_vars

\* The loop runs every coroutine that is not waiting, and the client answers or
\* raises in the end (RequestsEnd of RateLimitedClient).
FairSpec == Spec /\ WF_vars(Gather) /\ \A w \in Walkers : WF_vars(Walk(w))
----------------------------------------------------------------------------
OnDisk(kind, gid) == gid = NoGid \/ disk[<<kind, gid>>] # "none"

\* What extract_workspace() returns has no silent gaps: whatever was listed with
\* a gid is on disk, except for tasks of a project that it names as failed.
\* This takes the two phases in their order and a warning for each exception
\* that gather(return_exceptions=True) swallows.
NoSilentGaps ==
    stage = "returned" =>
        /\ \A kind \in {"users", "projects"} : \A k \in DOMAIN listing[kind] :
               OnDisk(kind, listing[kind][k])
        /\ \A p \in Projects \ result.failed :
               (\E i \in DOMAIN listing["projects"] : listing["projects"][i] = p) =>
                   \A k \in DOMAIN listing[p] : OnDisk("tasks", listing[p][k])

\* The totals add up: every entity of the walks that did not fail was counted
\* or warned about, exactly once.
TotalsAddUp ==
    stage = "returned" =>
        result.count + result.skipped = Total([w \in Walkers |->
            IF w \in Phase1 \cup TaskWalks THEN Len(List(w)) ELSE 0])

\* Walks of several projects write the same task, in any order, and the file
\* still names a project that lists it.
TaskNamesItsProject ==
    \A t \in Gids : disk[<<"tasks", t>>] # "none" =>
        /\ disk[<<"tasks", t>>] \in Projects
        /\ \E k \in DOMAIN listing[disk[<<"tasks", t>>]] :
               listing[disk[<<"tasks", t>>]][k] = t

\* extract_workspace() ends, and so does every coroutine, the one that it left
\* behind included.
WalksEnd == <>[](/\ stage \in {"returned", "raised"}
                 /\ \A w \in Walkers : pc[w] \notin {"asking", "answered"})
============================================================================
