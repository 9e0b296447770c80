---------------------------- MODULE WalksProofs ----------------------------
(***************************************************************************)
(* What extract_workspace() leaves on disk, for all listings, page sizes   *)
(* and numbers of projects.                                                *)
(***************************************************************************)
EXTENDS Walks, FiniteSetTheorems, TLAPS

Users == <<"users", 0>>
ProjectList == <<"projects", 0>>

\* The coroutines that extract_workspace() may have created.
Begun == Phase1 \cup TaskWalks

\* A coroutine starts at the first page, and none of phase 2 before phase 1 is
\* done as a whole.
PhasesInOrder ==
    /\ \A w \in Walkers \ Begun : pc[w] = "off"
    /\ \A w \in Walkers : pc[w] = "off" => offset[w] = 0
    /\ stage \in {"phase1", "raised"} => \A w \in Walkers \ Phase1 : pc[w] = "off"
    /\ stage \in {"tasks", "returned"} => \A w \in Phase1 : pc[w] = "done"

\* A walk has been over this place of its list.
Past(w, k) == k <= offset[w] \/ pc[w] = "done"

\* What a walk is past is on disk.
WalkedIsOnDisk ==
    \A w \in Begun : \A k \in DOMAIN List(w) :
        Past(w, k) => OnDisk(w[1], List(w)[k])

\* The projects that their walk is past have a walk of their own.
WalkedIsCollected ==
    \A k \in DOMAIN listing["projects"] :
        Past(ProjectList, k) => listing["projects"][k] = NoGid \/ k \in seen

\* A project without a complete walk is named in the result.
FailuresAreNamed ==
    stage = "returned" =>
        \A w \in TaskWalks :
            pc[w] = "done" \/ (pc[w] = "failed" /\ SourceOf(w) \in result.failed)

IInv == /\ TypeOK
        /\ PhasesInOrder
        /\ WalkedIsOnDisk
        /\ WalkedIsCollected
        /\ FailuresAreNamed
        /\ TaskNamesItsProject
----------------------------------------------------------------------------
\* A coroutine walks a list of Asana's, and tasks are walked from a project.
ListIsKnown(w) == /\ w \in Walkers
                  /\ SourceOf(w) \in Sources \ {"none"}
                  /\ w[1] = "tasks" => SourceOf(w) \in Projects
                  /\ w[1] \in Kinds
                  /\ List(w) \in Seq(Gids \cup {NoGid})

ListsAreKnown == \A w \in Begun : ListIsKnown(w)

LEMMA WalkedLists == TypeOK => ListsAreKnown
<1> SUFFICES ASSUME TypeOK, NEW w \in Begun PROVE ListIsKnown(w)
  BY DEF ListsAreKnown
<1> USE DEF ListIsKnown
<1>1. listing \in Listings /\ listing \in [Sources -> Seq(Gids \cup {NoGid})]
  BY ListingsAssumption DEF TypeOK
<1>2. /\ listing["projects"] \in Seq(Projects \cup {NoGid})
      /\ Len(listing["projects"]) <= MaxListed
  BY <1>1, ListingsAssumption
<1>3. CASE w \in Phase1
  BY <1>1, <1>3, NamesAssumption DEF Phase1, Walkers, SourceOf, List, Sources, Kinds
<1>4. CASE w \in TaskWalks
  <2>1. PICK i \in seen : w = <<"tasks", i>>
    BY <1>4 DEF TaskWalks
  <2>2. /\ i \in DOMAIN listing["projects"]
        /\ listing["projects"][i] # NoGid
    BY DEF TypeOK
  <2>3. i \in 1 .. MaxListed /\ listing["projects"][i] \in Projects
    BY <1>2, <2>2, SizeAssumption
  <2>4. SourceOf(w) = listing["projects"][i]
    BY <2>1 DEF SourceOf
  <2> QED
    BY <1>1, <2>1, <2>3, <2>4, NamesAssumption DEF Walkers, List, Sources, Kinds
<1> QED
  BY <1>3, <1>4 DEF Begun

\* A page is a finite piece of the list.
LEMMA PagesAreFinite ==
    ASSUME TypeOK, NEW w \in Begun
    PROVE  /\ Page(w) \subseteq DOMAIN List(w)
           /\ WithGid(w) \subseteq Page(w)
           /\ Cardinality(WithGid(w)) \in Nat
           /\ Cardinality(Page(w) \ WithGid(w)) \in Nat
<1>1. List(w) \in Seq(Gids \cup {NoGid}) /\ offset[w] \in Nat
  BY WalkedLists DEF TypeOK, ListsAreKnown, ListIsKnown
<1>2. /\ Page(w) \subseteq DOMAIN List(w)
      /\ Page(w) \subseteq offset[w] + 1 .. offset[w] + PageSize
  BY <1>1, SizeAssumption DEF Page
<1>3. IsFiniteSet(Page(w))
  BY <1>1, <1>2, FS_Interval, FS_Subset, SizeAssumption
<1>4. WithGid(w) \subseteq Page(w)
  BY DEF WithGid
<1>5. IsFiniteSet(WithGid(w)) /\ IsFiniteSet(Page(w) \ WithGid(w))
  BY <1>3, <1>4, FS_Subset
<1> QED
  BY <1>2, <1>4, <1>5, FS_CardinalityType

\* Writing keeps what is on disk, adds what was asked for, and a task that it
\* writes names a project that lists it.
LEMMA WriteKeepsAndAdds ==
    ASSUME IInv, NEW w \in Begun, NEW places \in SUBSET WithGid(w),
           Write(w, places), listing' = listing
    PROVE  /\ disk' \in [Files -> Sources \cup {"none"}]
           /\ TaskNamesItsProject'
           /\ \A kind \in Kinds, gid \in Gids \cup {NoGid} :
                  OnDisk(kind, gid) => OnDisk(kind, gid)'
           /\ \A k \in places : OnDisk(w[1], List(w)[k])'
<1>1. /\ SourceOf(w) \in Sources \ {"none"}
      /\ w[1] = "tasks" => SourceOf(w) \in Projects
      /\ w[1] \in Kinds
      /\ List(w) \in Seq(Gids \cup {NoGid})
  BY WalkedLists DEF IInv, ListsAreKnown, ListIsKnown
<1>2. /\ WithGid(w) \subseteq DOMAIN List(w)
      /\ \A k \in WithGid(w) : List(w)[k] \in Gids
  <2>1. WithGid(w) \subseteq DOMAIN List(w)
    BY PagesAreFinite DEF IInv
  <2> QED
    BY <1>1, <2>1 DEF WithGid
<1>3. disk \in [Files -> Sources \cup {"none"}]
  BY DEF IInv, TypeOK
<1>4. disk' \in [Files -> Sources \cup {"none"}]
  BY <1>1, <1>3 DEF Write
<1>5. \A f \in Files : disk'[f] = disk[f] \/ disk'[f] = SourceOf(w)
  BY DEF Write
<1>6. \A f \in Files : disk[f] # "none" => disk'[f] # "none"
  BY <1>1, <1>5
<1>7. \A kind \in Kinds, gid \in Gids \cup {NoGid} : OnDisk(kind, gid) => OnDisk(kind, gid)'
  BY <1>6 DEF OnDisk, Files
<1>8. ASSUME NEW k \in places PROVE OnDisk(w[1], List(w)[k])'
  <2>1. <<w[1], List(w)[k]>> \in Files
    BY <1>1, <1>2 DEF Files
  <2>2. disk'[<<w[1], List(w)[k]>>] = SourceOf(w)
    BY <2>1 DEF Write
  <2>3. (List(w)[k])' = List(w)[k]
    BY DEF List, SourceOf
  <2>4. disk'[<<w[1], (List(w)[k])'>>] # "none"
    BY <1>1, <2>2, <2>3
  <2> QED
    BY <2>4 DEF OnDisk
<1>9. TaskNamesItsProject'
  <2> SUFFICES ASSUME NEW t \in Gids, disk'[<<"tasks", t>>] # "none"
               PROVE  /\ disk'[<<"tasks", t>>] \in Projects
                      /\ \E k \in DOMAIN listing[disk'[<<"tasks", t>>]] :
                             listing[disk'[<<"tasks", t>>]][k] = t
    BY DEF TaskNamesItsProject
  <2>1. <<"tasks", t>> \in Files
    BY DEF Files, Kinds
  <2>2. CASE w[1] = "tasks" /\ \E k \in places : List(w)[k] = t
    <3>1. disk'[<<"tasks", t>>] = SourceOf(w)
      BY <2>1, <2>2 DEF Write
    <3> QED
      BY <1>1, <1>2, <2>2, <3>1 DEF List
  <2>3. CASE ~ (w[1] = "tasks" /\ \E k \in places : List(w)[k] = t)
    <3>1. disk'[<<"tasks", t>>] = disk[<<"tasks", t>>]
      BY <2>1, <2>3 DEF Write
    <3> QED
      BY <3>1 DEF IInv, TaskNamesItsProject
  <2> QED
    BY <2>2, <2>3
<1> QED
  BY <1>4, <1>7, <1>8, <1>9
----------------------------------------------------------------------------
LEMMA InitIInv == Init => IInv
<1> SUFFICES ASSUME Init PROVE IInv
  OBVIOUS
<1>1. TypeOK
  BY DEF Init, TypeOK, NoResult
<1>2. TaskWalks = {}
  BY DEF Init, TaskWalks
<1>3. PhasesInOrder
  BY <1>2 DEF Init, PhasesInOrder, Begun
<1>4. \A w \in Phase1 : \A k \in DOMAIN List(w) : ~ Past(w, k)
  <2> SUFFICES ASSUME NEW w \in Phase1, NEW k \in DOMAIN List(w)
               PROVE  ~ Past(w, k)
    OBVIOUS
  <2>1. List(w) \in Seq(Gids \cup {NoGid})
    BY <1>1, WalkedLists DEF Begun, ListsAreKnown, ListIsKnown
  <2> QED
    BY <2>1 DEF Init, Past, Phase1, Walkers
<1>5. WalkedIsOnDisk
  BY <1>2, <1>4 DEF WalkedIsOnDisk, Begun
<1>6. WalkedIsCollected
  <2>1. ProjectList \in Phase1 /\ List(ProjectList) = listing["projects"]
    BY DEF ProjectList, Phase1, List, SourceOf
  <2> QED
    BY <1>4, <2>1 DEF WalkedIsCollected
<1>7. FailuresAreNamed
  BY DEF Init, FailuresAreNamed
<1>8. TaskNamesItsProject
  BY DEF Init, TaskNamesItsProject, Files, Kinds
<1> QED
  BY <1>1, <1>3, <1>5, <1>6, <1>7, <1>8 DEF IInv

\* Steps that only move a coroutine on, without writing anything.
LEMMA MovesKeepIInv ==
    ASSUME IInv, NEW w \in Walkers, NEW next \in {"answered", "failed"},
           pc[w] \in {"asking", "answered"},
           pc' = [pc EXCEPT ![w] = next],
           UNCHANGED <<listing, stage, open, offset, seen, count, skipped, result>>,
           disk' \in [Files -> Sources \cup {"none"}],
           TaskNamesItsProject',
           \A kind \in Kinds, gid \in Gids \cup {NoGid} :
               OnDisk(kind, gid) => OnDisk(kind, gid)'
    PROVE  IInv'
<1>1. pc \in [Walkers -> {"off", "asking", "answered", "done", "failed"}]
  BY DEF IInv, TypeOK
<1>2. TypeOK'
  BY <1>1 DEF IInv, TypeOK
<1>3. /\ \A v \in Walkers : pc'[v] = "off" <=> pc[v] = "off"
      /\ \A v \in Walkers : pc'[v] = "done" <=> pc[v] = "done"
      /\ Begun' = Begun
      /\ TaskWalks' = TaskWalks
      /\ ~ (stage = "returned" /\ w \in Begun)
  <2>1. Begun' = Begun /\ TaskWalks' = TaskWalks
    BY DEF Begun, TaskWalks
  <2>2. ~ (stage = "returned" /\ w \in Begun)
    BY DEF IInv, PhasesInOrder, FailuresAreNamed, Begun
  <2> QED
    BY <1>1, <2>1, <2>2
<1>4. PhasesInOrder'
  BY <1>1, <1>3 DEF IInv, PhasesInOrder, Begun, Phase1, Walkers
<1>5. \A v \in Begun : List(v)' = List(v) /\ SourceOf(v)' = SourceOf(v)
  BY DEF List, SourceOf
<1>6. \A v \in Walkers, k \in Nat : Past(v, k)' <=> Past(v, k)
  BY <1>3 DEF Past
<1>7. WalkedIsOnDisk'
  <2> SUFFICES ASSUME NEW v \in Begun, NEW k \in DOMAIN List(v), Past(v, k)'
               PROVE  OnDisk(v[1], List(v)[k])'
    BY <1>3, <1>5 DEF WalkedIsOnDisk
  <2>1. v \in Walkers /\ v[1] \in Kinds /\ List(v) \in Seq(Gids \cup {NoGid})
    BY WalkedLists DEF IInv, ListsAreKnown, ListIsKnown
  <2>2. k \in Nat /\ List(v)[k] \in Gids \cup {NoGid}
    BY <2>1
  <2>3. OnDisk(v[1], List(v)[k])
    BY <1>6, <2>1, <2>2 DEF IInv, WalkedIsOnDisk
  <2>4. List(v)' = List(v)
    BY <1>5
  <2> QED
    BY <2>1, <2>2, <2>3, <2>4 DEF OnDisk
<1>8. WalkedIsCollected'
  BY <1>3 DEF IInv, WalkedIsCollected, Past, ProjectList, Walkers, Phase1
<1>9. FailuresAreNamed'
  BY <1>1, <1>3, <1>5 DEF IInv, FailuresAreNamed, Begun
<1> QED
  BY <1>2, <1>4, <1>7, <1>8, <1>9 DEF IInv

\* A page: what it held is on disk, collected, and behind the walk.
LEMMA PagesKeepIInv ==
    ASSUME IInv, NEW w \in Walkers, WritePage(w) PROVE IInv'
<1>1. /\ pc \in [Walkers -> {"off", "asking", "answered", "done", "failed"}]
      /\ offset \in [Walkers -> Nat]
      /\ count \in [Walkers -> Nat] /\ skipped \in [Walkers -> Nat]
  BY DEF IInv, TypeOK
<1>2. w \in Begun /\ pc[w] = "answered"
  BY DEF WritePage, IInv, PhasesInOrder
<1>3. /\ List(w) \in Seq(Gids \cup {NoGid})
      /\ Page(w) \subseteq DOMAIN List(w)
      /\ WithGid(w) \subseteq Page(w)
      /\ Cardinality(WithGid(w)) \in Nat
      /\ Cardinality(Page(w) \ WithGid(w)) \in Nat
      /\ w[1] \in Kinds
  BY <1>2, WalkedLists, PagesAreFinite DEF IInv, ListsAreKnown, ListIsKnown
<1>4. /\ UNCHANGED <<listing, stage, open, result>>
      /\ Write(w, WithGid(w)) /\ Tally(w) /\ Collect(w) /\ NextPage(w)
  BY DEF WritePage
<1>5. /\ disk' \in [Files -> Sources \cup {"none"}]
      /\ TaskNamesItsProject'
      /\ \A kind \in Kinds, gid \in Gids \cup {NoGid} :
             OnDisk(kind, gid) => OnDisk(kind, gid)'
      /\ \A k \in WithGid(w) : OnDisk(w[1], List(w)[k])'
  BY <1>2, <1>4, WriteKeepsAndAdds
<1>6. /\ w = ProjectList => List(w) = listing["projects"]
      /\ seen \subseteq {k \in DOMAIN listing["projects"] : listing["projects"][k] # NoGid}
      /\ seen \subseteq seen'
      /\ w # ProjectList => seen' = seen
      /\ w = ProjectList => seen' = seen \cup WithGid(w)
  BY <1>4 DEF ProjectList, List, SourceOf, Collect, IInv, TypeOK
<1>7. seen' \subseteq {k \in DOMAIN listing'["projects"] : listing'["projects"][k] # NoGid}
  BY <1>3, <1>4, <1>6 DEF WithGid
<1>8. /\ offset' \in [Walkers -> Nat]
      /\ pc' \in [Walkers -> {"off", "asking", "answered", "done", "failed"}]
      /\ pc'[w] \in {"asking", "done"}
      /\ \A v \in Walkers \ {w} : pc'[v] = pc[v] /\ offset'[v] = offset[v]
  BY <1>1, <1>4, SizeAssumption DEF NextPage
<1>9. TypeOK'
  <2>1. count' \in [Walkers -> Nat] /\ skipped' \in [Walkers -> Nat]
    BY <1>1, <1>3, <1>4 DEF Tally
  <2>2. /\ listing' \in Listings
        /\ stage' \in {"phase1", "tasks", "returned", "raised"}
        /\ open' \in BOOLEAN
        /\ result'.failed \subseteq Projects
    BY <1>4 DEF IInv, TypeOK
  <2> QED
    BY <1>5, <1>7, <1>8, <2>1, <2>2 DEF TypeOK
<1>10. /\ Begun \subseteq Begun'
       /\ w # ProjectList => Begun' = Begun
       /\ \A v \in Begun' \ Begun : v \in Walkers
       /\ Begun' \subseteq Walkers
  <2>1. Begun \subseteq Begun' /\ (w # ProjectList => Begun' = Begun)
    BY <1>6 DEF Begun, TaskWalks
  <2>2. ListsAreKnown'
    BY <1>9, WalkedLists, PTL
  <2>3. \A v \in Begun' : v \in Walkers
    BY <2>2 DEF ListsAreKnown, ListIsKnown
  <2> QED
    BY <2>1, <2>3
<1>11. PhasesInOrder'
  <2>1. \A v \in Walkers \ Begun' : pc'[v] = "off"
    BY <1>2, <1>8, <1>10 DEF IInv, PhasesInOrder
  <2>2. \A v \in Walkers : pc'[v] = "off" => offset'[v] = 0
    BY <1>8 DEF IInv, PhasesInOrder
  <2>3. stage \in {"phase1", "raised"} => \A v \in Walkers \ Phase1 : pc'[v] = "off"
    BY <1>2, <1>8 DEF IInv, PhasesInOrder
  <2>4. stage \in {"tasks", "returned"} => \A v \in Phase1 : pc'[v] = "done"
    BY <1>2, <1>8 DEF IInv, PhasesInOrder, Walkers
  <2> QED
    BY <1>4, <2>1, <2>2, <2>3, <2>4 DEF PhasesInOrder
<1>12. \A v \in Walkers : List(v)' = List(v) /\ SourceOf(v)' = SourceOf(v)
  BY <1>4 DEF List, SourceOf
<1>13. ASSUME NEW k \in DOMAIN List(w), Past(w, k)'
       PROVE  Past(w, k) \/ k \in Page(w)
  <2>1. k \in Nat \ {0} /\ k <= Len(List(w)) /\ Len(List(w)) \in Nat
    BY <1>3
  <2>2. k <= offset[w] + PageSize
    <3>1. CASE IsLastPage(w)
      BY <1>1, <2>1, <3>1, SizeAssumption DEF IsLastPage
    <3>2. CASE ~ IsLastPage(w)
      BY <1>1, <1>4, <1>13, <3>2 DEF NextPage, Past
    <3> QED
      BY <3>1, <3>2
  <2> QED
    BY <1>1, <2>1, <2>2, SizeAssumption DEF Past, Page
<1>14. WalkedIsOnDisk'
  <2> SUFFICES ASSUME NEW v \in Begun', NEW k \in DOMAIN List(v), Past(v, k)'
               PROVE  OnDisk(v[1], List(v)[k])'
    BY <1>10, <1>12 DEF WalkedIsOnDisk
  <2>1. v \in Walkers
    BY <1>10
  <2>2. CASE v \notin Begun
    <3>1. pc'[v] = "off" /\ offset'[v] = 0
      BY <1>2, <1>8, <2>1, <2>2 DEF IInv, PhasesInOrder
    <3>2. List(v) \in Seq(Gids \cup {NoGid})
      <4>1. ListsAreKnown'
        BY <1>9, WalkedLists, PTL
      <4>2. (List(v) \in Seq(Gids \cup {NoGid}))'
        BY <4>1 DEF ListsAreKnown, ListIsKnown
      <4> QED
        BY <1>12, <2>1, <4>2
    <3> QED
      BY <3>1, <3>2 DEF Past
  <2>3. CASE v \in Begun
    <3>1. /\ List(v) \in Seq(Gids \cup {NoGid}) /\ v[1] \in Kinds
          /\ (List(v)[k])' = List(v)[k]
      BY <1>12, <2>1, <2>3, WalkedLists DEF IInv, ListsAreKnown, ListIsKnown
    <3>2. List(v)[k] \in Gids \cup {NoGid}
      BY <3>1
    <3>3. CASE Past(v, k)
      <4>1. OnDisk(v[1], List(v)[k])
        BY <2>3, <3>3 DEF IInv, WalkedIsOnDisk
      <4>2. disk'[<<v[1], List(v)[k]>>] # "none" \/ List(v)[k] = NoGid
        BY <1>5, <3>1, <3>2, <4>1 DEF OnDisk
      <4> QED
        BY <3>1, <4>2 DEF OnDisk
    <3>4. CASE ~ Past(v, k)
      <4>1. v = w
        BY <1>8, <2>1, <3>4 DEF Past
      <4>2. k \in Page(w)
        BY <1>13, <3>4, <4>1
      <4>3. CASE k \in WithGid(w)
        BY <1>5, <4>1, <4>3
      <4>4. CASE k \notin WithGid(w)
        BY <3>1, <4>1, <4>2, <4>4 DEF WithGid, OnDisk
      <4> QED
        BY <4>3, <4>4
    <3> QED
      BY <3>3, <3>4
  <2> QED
    BY <2>2, <2>3
<1>15. WalkedIsCollected'
  <2> SUFFICES ASSUME NEW k \in DOMAIN listing["projects"], Past(ProjectList, k)'
               PROVE  listing["projects"][k] = NoGid \/ k \in seen'
    BY <1>4 DEF WalkedIsCollected
  <2>1. ProjectList \in Walkers
    BY DEF ProjectList, Walkers, Phase1
  <2>2. CASE Past(ProjectList, k)
    BY <1>6, <2>2 DEF IInv, WalkedIsCollected
  <2>3. CASE ~ Past(ProjectList, k)
    <3>1. w = ProjectList
      BY <1>8, <2>1, <2>3 DEF Past
    <3>2. k \in Page(w)
      BY <1>6, <1>13, <2>3, <3>1
    <3> QED
      BY <1>6, <3>1, <3>2 DEF WithGid
  <2> QED
    BY <2>2, <2>3
<1>16. FailuresAreNamed'
  <2>1. stage # "returned"
    BY <1>2 DEF IInv, PhasesInOrder, FailuresAreNamed, Begun
  <2> QED
    BY <1>4, <2>1 DEF FailuresAreNamed
<1> QED
  BY <1>5, <1>9, <1>11, <1>14, <1>15, <1>16 DEF IInv

\* Steps of a coroutine.
LEMMA WalkKeepsIInv == ASSUME IInv, NEW w \in Walkers, Walk(w) PROVE IInv'
<1>1. CASE Answer(w) \/ FailRequest(w)
  <2>1. /\ UNCHANGED <<listing, stage, open, offset, seen, disk, count, skipped, result>>
        /\ pc[w] = "asking"
        /\ \E next \in {"answered", "failed"} : pc' = [pc EXCEPT ![w] = next]
    BY <1>1 DEF Answer, FailRequest
  <2>2. disk' \in [Files -> Sources \cup {"none"}] /\ TaskNamesItsProject'
    BY <2>1 DEF IInv, TypeOK, TaskNamesItsProject
  <2>3. \A kind \in Kinds, gid \in Gids \cup {NoGid} :
            OnDisk(kind, gid) => OnDisk(kind, gid)'
    BY <2>1 DEF OnDisk
  <2> QED
    BY <2>1, <2>2, <2>3, MovesKeepIInv
<1>2. CASE WritePage(w)
  BY <1>2, PagesKeepIInv
<1>3. CASE WriteFails(w)
  <2>1. /\ UNCHANGED <<listing, stage, open, offset, seen, count, skipped, result>>
        /\ pc[w] = "answered"
        /\ pc' = [pc EXCEPT ![w] = "failed"]
    BY <1>3 DEF WriteFails
  <2>2. PICK k \in WithGid(w) : Write(w, {j \in WithGid(w) : j < k})
    BY <1>3 DEF WriteFails
  <2>3. w \in Begun
    BY <2>1 DEF IInv, PhasesInOrder
  <2>4. /\ disk' \in [Files -> Sources \cup {"none"}]
        /\ TaskNamesItsProject'
        /\ \A kind \in Kinds, gid \in Gids \cup {NoGid} :
               OnDisk(kind, gid) => OnDisk(kind, gid)'
    <3>1. {j \in WithGid(w) : j < k} \in SUBSET WithGid(w)
      OBVIOUS
    <3> QED
      BY <2>1, <2>2, <2>3, <3>1, WriteKeepsAndAdds
  <2> QED
    BY <2>1, <2>4, MovesKeepIInv
<1> QED
  BY <1>1, <1>2, <1>3 DEF Walk

\* Steps of the coroutine that waits for the others.
LEMMA GatherKeepsIInv == ASSUME IInv, Gather PROVE IInv'
<1>1. /\ UNCHANGED <<listing, offset, seen, disk, count, skipped>>
      /\ TypeOK /\ ListsAreKnown
  BY WalkedLists DEF IInv, Gather, Phase1Raises, Phase1Done, TasksGathered
<1>2. TaskNamesItsProject'
  BY <1>1 DEF IInv, TaskNamesItsProject
<1>3. Begun' = Begun /\ TaskWalks' = TaskWalks
  BY <1>1 DEF Begun, TaskWalks
<1>4. \A v : List(v)' = List(v) /\ SourceOf(v)' = SourceOf(v)
  BY <1>1 DEF List, SourceOf
<1>5. CASE Phase1Done
  <2>1. /\ stage = "phase1" /\ stage' = "tasks"
        /\ \A w \in Phase1 : pc[w] = "done"
        /\ pc' = [w \in Walkers |-> IF w \in TaskWalks THEN "asking" ELSE pc[w]]
        /\ UNCHANGED <<open, result>>
    BY <1>5 DEF Phase1Done
  <2>2. /\ TaskWalks \subseteq Walkers
        /\ TaskWalks \cap Phase1 = {}
        /\ Phase1 \subseteq Walkers
    BY <1>1 DEF ListsAreKnown, ListIsKnown, Begun, TaskWalks, Phase1, Walkers
  <2>3. \A w \in TaskWalks : pc[w] = "off" /\ offset[w] = 0
    BY <2>1, <2>2 DEF IInv, PhasesInOrder
  <2>4. TypeOK'
    BY <1>1, <2>1 DEF TypeOK
  <2>5. PhasesInOrder'
    BY <1>1, <1>3, <2>1, <2>2 DEF IInv, PhasesInOrder, Begun
  <2>6. \A w \in Walkers, k \in Nat \ {0} : Past(w, k)' => Past(w, k)
    BY <1>1, <2>1, <2>3 DEF Past
  <2>7. ASSUME NEW w \in Begun, NEW k \in DOMAIN List(w), Past(w, k)'
        PROVE  OnDisk(w[1], List(w)[k])'
    <3>1. k \in Nat \ {0} /\ w \in Walkers
      BY <1>1 DEF ListsAreKnown, ListIsKnown
    <3>2. OnDisk(w[1], List(w)[k])
      BY <2>6, <2>7, <3>1 DEF IInv, WalkedIsOnDisk
    <3>3. (List(w)[k])' = List(w)[k]
      BY <1>4
    <3> QED
      BY <1>1, <3>2, <3>3 DEF OnDisk
  <2>8. WalkedIsOnDisk'
    BY <1>3, <1>4, <2>7 DEF WalkedIsOnDisk
  <2>9. WalkedIsCollected'
    <3>1. ProjectList \in Phase1
      BY DEF ProjectList, Phase1
    <3>2. \A k : Past(ProjectList, k)' => Past(ProjectList, k)
      BY <1>1, <2>1, <3>1 DEF Past
    <3> QED
      BY <1>1, <3>2 DEF IInv, WalkedIsCollected
  <2>10. FailuresAreNamed'
    BY <2>1 DEF FailuresAreNamed
  <2> QED
    BY <1>2, <2>4, <2>5, <2>8, <2>9, <2>10 DEF IInv
<1>6. CASE Phase1Raises \/ TasksGathered
  <2>1. UNCHANGED pc
    BY <1>6 DEF Phase1Raises, TasksGathered
  <2>2. \A w \in TaskWalks : SourceOf(w) \in Projects
    BY <1>1 DEF ListsAreKnown, ListIsKnown, Begun, TaskWalks
  <2>3. TypeOK'
    <3>1. /\ stage' \in {"returned", "raised"} /\ open' = FALSE
          /\ result'.failed \subseteq Projects
      BY <1>1, <1>6, <2>2 DEF Phase1Raises, TasksGathered, TypeOK
    <3> QED
      BY <1>1, <2>1, <3>1 DEF TypeOK
  <2>4. PhasesInOrder'
    <3>1. \/ stage = "phase1" /\ stage' = "raised"
          \/ stage = "tasks" /\ stage' = "returned"
      BY <1>6 DEF Phase1Raises, TasksGathered
    <3> QED
      BY <1>1, <1>3, <2>1, <3>1 DEF IInv, PhasesInOrder
  <2>5. \A w, k : Past(w, k)' <=> Past(w, k)
    BY <1>1, <2>1 DEF Past
  <2>6. ASSUME NEW w \in Begun, NEW k \in DOMAIN List(w), Past(w, k)'
        PROVE  OnDisk(w[1], List(w)[k])'
    <3>1. OnDisk(w[1], List(w)[k])
      BY <2>5, <2>6 DEF IInv, WalkedIsOnDisk
    <3>2. (List(w)[k])' = List(w)[k]
      BY <1>4
    <3> QED
      BY <1>1, <3>1, <3>2 DEF OnDisk
  <2>7. WalkedIsOnDisk'
    BY <1>3, <1>4, <2>6 DEF WalkedIsOnDisk
  <2>8. WalkedIsCollected'
    BY <1>1, <2>5 DEF IInv, WalkedIsCollected
  <2>9. FailuresAreNamed'
    <3>1. CASE Phase1Raises
      BY <3>1 DEF Phase1Raises, FailuresAreNamed
    <3>2. CASE TasksGathered
      BY <1>3, <1>4, <2>1, <3>2 DEF TasksGathered, Ended, FailuresAreNamed
    <3> QED
      BY <1>6, <3>1, <3>2
  <2> QED
    BY <1>2, <2>3, <2>4, <2>7, <2>8, <2>9 DEF IInv
<1> QED
  BY <1>5, <1>6 DEF Gather

LEMMA IInvHolds == Spec => []IInv
<1>1. Init => IInv
  BY InitIInv
<1>2. IInv /\ [Next]_vars => IInv'
  <2> SUFFICES ASSUME IInv, [Next]_vars PROVE IInv'
    OBVIOUS
  <2>1. CASE Gather
    BY <2>1, GatherKeepsIInv
  <2>2. ASSUME NEW w \in Walkers, Walk(w) PROVE IInv'
    BY <2>2, WalkKeepsIInv
  <2>3. CASE UNCHANGED vars
    <3>1. TypeOK'
      BY <2>3 DEF vars, IInv, TypeOK
    <3>2. PhasesInOrder'
      BY <2>3 DEF vars, IInv, PhasesInOrder, Begun, TaskWalks
    <3>3. WalkedIsOnDisk'
      BY <2>3 DEF vars, IInv, WalkedIsOnDisk, Begun, TaskWalks, Past, OnDisk, List, SourceOf
    <3>4. WalkedIsCollected'
      BY <2>3 DEF vars, IInv, WalkedIsCollected, Past
    <3>5. FailuresAreNamed' /\ TaskNamesItsProject'
      BY <2>3 DEF vars, IInv, FailuresAreNamed, TaskNamesItsProject, TaskWalks, SourceOf
    <3> QED
      BY <3>1, <3>2, <3>3, <3>4, <3>5 DEF IInv
  <2> QED
    BY <2>1, <2>2, <2>3 DEF Next
<1> QED
  BY <1>1, <1>2, PTL DEF Spec
----------------------------------------------------------------------------
\* At the end the invariant leaves no gap: both walks of phase 1 are done, each
\* project is in project_gids, and its walk is done or named.
LEMMA NoGapAtTheEnd == IInv => NoSilentGaps
<1> SUFFICES ASSUME IInv, stage = "returned" PROVE
        /\ \A kind \in {"users", "projects"} : \A k \in DOMAIN listing[kind] :
               OnDisk(kind, listing[kind][k])
        /\ \A p \in Projects \ result.failed :
               (\E i \in DOMAIN listing["projects"] : listing["projects"][i] = p) =>
                   \A k \in DOMAIN listing[p] : OnDisk("tasks", listing[p][k])
  BY DEF NoSilentGaps
<1>1. Users \in Phase1 /\ ProjectList \in Phase1
  BY DEF Users, ProjectList, Phase1
<1>2. pc[Users] = "done" /\ pc[ProjectList] = "done"
  BY <1>1 DEF IInv, PhasesInOrder
<1>3. /\ List(Users) = listing["users"] /\ Users[1] = "users"
      /\ List(ProjectList) = listing["projects"] /\ ProjectList[1] = "projects"
  BY DEF Users, ProjectList, List, SourceOf
<1>4. ASSUME NEW kind \in {"users", "projects"}, NEW k \in DOMAIN listing[kind]
      PROVE  OnDisk(kind, listing[kind][k])
  BY <1>1, <1>2, <1>3 DEF IInv, WalkedIsOnDisk, Begun, Past
<1>5. ASSUME NEW p \in Projects \ result.failed,
             NEW i \in DOMAIN listing["projects"], listing["projects"][i] = p,
             NEW k \in DOMAIN listing[p]
      PROVE  OnDisk("tasks", listing[p][k])
  <2> DEFINE w == <<"tasks", i>>
  <2>1. i \in seen
    BY <1>2, <1>5, NamesAssumption DEF IInv, WalkedIsCollected, Past, Gids
  <2>2. w \in TaskWalks /\ SourceOf(w) = p /\ List(w) = listing[p] /\ w[1] = "tasks"
    BY <1>5, <2>1 DEF TaskWalks, SourceOf, List
  <2>3. pc[w] = "done"
    BY <2>2 DEF IInv, FailuresAreNamed
  <2> QED
    BY <2>2, <2>3 DEF IInv, WalkedIsOnDisk, Begun, Past
<1> QED
  BY <1>4, <1>5

\* The coroutines of extract_workspace() only ever walk over what Asana lists.
THEOREM WalksTypeOK == Spec => []TypeOK
<1>1. IInv => TypeOK
  BY DEF IInv
<1> QED
  BY <1>1, IInvHolds, PTL

\* For any listing, page size and outcome of the requests and writes: what
\* extract_workspace() returns has no gap that it does not name.
THEOREM NoSilentGapsHolds == Spec => []NoSilentGaps
  BY NoGapAtTheEnd, IInvHolds, PTL

\* In whatever order the walks of several projects write a shared task, its
\* file names a project that lists it.
THEOREM TaskNamesItsProjectHolds == Spec => []TaskNamesItsProject
<1>1. IInv => TaskNamesItsProject
  BY DEF IInv
<1> QED
  BY <1>1, IInvHolds, PTL
----------------------------------------------------------------------------
(* The totals: a total is a set of pairs, so adding tallies is counting.   *)

\* One pair for each entity that a coroutine of W has in a tally.
Pairs(W, tally) == UNION {{w} \X (1 .. tally[w]) : w \in W}

\* Finitely many coroutines have a finite total.
LEMMA TotalsAreFinite ==
    ASSUME NEW W, IsFiniteSet(W), NEW tally, \A w \in W : tally[w] \in Nat
    PROVE  IsFiniteSet(Pairs(W, tally)) /\ Cardinality(Pairs(W, tally)) \in Nat
<1> DEFINE parts == {{w} \X (1 .. tally[w]) : w \in W}
           part == [w \in W |-> {w} \X (1 .. tally[w])]
<1>1. IsFiniteSet(parts)
  <2>1. part \in Surjection(W, parts)
    BY DEF Surjection
  <2> QED
    BY <2>1, FS_Surjection
<1>2. ASSUME NEW w \in W PROVE IsFiniteSet({w} \X (1 .. tally[w]))
  <2>1. IsFiniteSet({w})
    BY FS_Singleton
  <2>2. tally[w] \in Int
    OBVIOUS
  <2>3. IsFiniteSet(1 .. tally[w])
    BY <2>2, FS_Interval
  <2> QED
    BY <2>1, <2>3, FS_Product
<1>3. \A p \in parts : IsFiniteSet(p)
  BY <1>2
<1>4. IsFiniteSet(UNION parts)
  BY <1>1, <1>3, FS_UNION
<1> QED
  BY <1>4, FS_CardinalityType DEF Pairs

\* The total of a sum of two tallies is the sum of their totals: the pairs of
\* the second tally are counted on from those of the first.
LEMMA TotalsAdd ==
    ASSUME NEW W, IsFiniteSet(W), NEW f, NEW g, NEW h,
           \A w \in W : f[w] \in Nat /\ g[w] \in Nat /\ h[w] = f[w] + g[w]
    PROVE  Cardinality(Pairs(W, h)) = Cardinality(Pairs(W, f)) + Cardinality(Pairs(W, g))
<1> DEFINE F == Pairs(W, f)
           G == Pairs(W, g)
           H == Pairs(W, h)
           on == [q \in G |-> <<q[1], f[q[1]] + q[2]>>]
<1>1. /\ \A q : q \in F <=> \E w \in W, i \in Nat : i \in 1 .. f[w] /\ q = <<w, i>>
      /\ \A q : q \in G <=> \E w \in W, i \in Nat : i \in 1 .. g[w] /\ q = <<w, i>>
      /\ \A q : q \in H <=> \E w \in W, i \in Nat : i \in 1 .. h[w] /\ q = <<w, i>>
  BY DEF Pairs
<1>2. IsFiniteSet(F) /\ IsFiniteSet(G) /\ Cardinality(F) \in Nat /\ Cardinality(G) \in Nat
  BY TotalsAreFinite
<1> HIDE DEF F, G, H
<1>3. F \subseteq H
  <2>1. \A w \in W : 1 .. f[w] \subseteq 1 .. h[w]
    OBVIOUS
  <2> QED
    BY <1>1, <2>1
<1>4. on \in [G -> H \ F]
  <2> SUFFICES ASSUME NEW q \in G PROVE <<q[1], f[q[1]] + q[2]>> \in H \ F
    OBVIOUS
  <2>1. PICK w \in W, i \in Nat : i \in 1 .. g[w] /\ q = <<w, i>>
    BY <1>1
  <2>2. f[w] + i \in 1 .. h[w] /\ f[w] + i \notin 1 .. f[w]
    BY <2>1
  <2>3. <<w, f[w] + i>> \in H
    BY <1>1, <2>2
  <2>4. <<w, f[w] + i>> \notin F
    BY <1>1, <2>2
  <2> QED
    BY <2>1, <2>3, <2>4
<1>5. ASSUME NEW q \in G, NEW r \in G, on[q] = on[r] PROVE q = r
  <2>1. PICK w \in W, i \in Nat : i \in 1 .. g[w] /\ q = <<w, i>>
    BY <1>1
  <2>2. PICK v \in W, j \in Nat : j \in 1 .. g[v] /\ r = <<v, j>>
    BY <1>1
  <2>3. <<w, f[w] + i>> = <<v, f[v] + j>>
    BY <1>5, <2>1, <2>2
  <2>4. w = v /\ f[w] + i = f[v] + j
    BY <2>3
  <2>5. i = j
    BY <2>4
  <2> QED
    BY <2>1, <2>2, <2>4, <2>5
<1>6. ASSUME NEW q \in H \ F PROVE \E r \in G : on[r] = q
  <2>1. PICK w \in W, i \in Nat : i \in 1 .. h[w] /\ q = <<w, i>>
    BY <1>1
  <2>2. i \notin 1 .. f[w]
    BY <1>1, <2>1
  <2>3. i - f[w] \in 1 .. g[w] /\ f[w] + (i - f[w]) = i
    BY <2>1, <2>2
  <2>4. <<w, i - f[w]>> \in G
    BY <1>1, <2>3
  <2>5. on[<<w, i - f[w]>>] = <<w, f[w] + (i - f[w])>>
    BY <2>4
  <2> QED
    BY <2>1, <2>3, <2>4, <2>5
<1>7. ExistsBijection(G, H \ F)
  <2>1. on \in Bijection(G, H \ F)
    <3>1. IsInjective(on)
      BY <1>4, <1>5 DEF IsInjective
    <3>2. on \in Injection(G, H \ F) /\ on \in Surjection(G, H \ F)
      BY <1>4, <1>6, <3>1 DEF Injection, Surjection
    <3> QED
      BY <3>2 DEF Bijection
  <2> QED
    BY <2>1 DEF ExistsBijection
<1>8. IsFiniteSet(H \ F) /\ Cardinality(H \ F) = Cardinality(G)
  BY <1>2, <1>7, FS_Bijection
<1>9. H = F \cup (H \ F) /\ F \cap (H \ F) = {}
  BY <1>3
<1>10. Cardinality(H) = Cardinality(F) + Cardinality(H \ F) - Cardinality({})
  BY <1>2, <1>8, <1>9, FS_Union
<1> QED
  BY <1>2, <1>8, <1>10, FS_EmptySet DEF F, G, H

\* There are finitely many coroutines.
LEMMA WalkersAreFinite == IsFiniteSet(Walkers)
<1> DEFINE tasks == {<<"tasks", i>> : i \in 1 .. MaxListed}
           task == [i \in 1 .. MaxListed |-> <<"tasks", i>>]
<1>1. IsFiniteSet(Phase1)
  <2>1. IsFiniteSet({Users}) /\ Phase1 = {Users} \cup {ProjectList}
    BY FS_Singleton DEF Phase1, Users, ProjectList
  <2> QED
    BY <2>1, FS_AddElement
<1>2. IsFiniteSet(tasks)
  <2>1. IsFiniteSet(1 .. MaxListed)
    <3>1. MaxListed \in Int
      BY SizeAssumption
    <3> QED
      BY <3>1, FS_Interval
  <2>2. task \in Surjection(1 .. MaxListed, tasks)
    BY DEF Surjection
  <2> QED
    BY <2>1, <2>2, FS_Surjection
<1>3. Walkers = Phase1 \cup tasks
  BY DEF Walkers
<1> HIDE DEF tasks
<1> QED
  BY <1>1, <1>2, <1>3, FS_Union

\* Every entity that a walk has been over is counted or warned about, once.
WalkedIsTallied ==
    \A w \in Walkers :
        /\ pc[w] \in {"asking", "answered"} =>
               count[w] + skipped[w] = offset[w] /\ offset[w] <= Len(List(w))
        /\ pc[w] = "done" => count[w] + skipped[w] = Len(List(w))
        /\ pc[w] = "off" => count[w] = 0 /\ skipped[w] = 0

\* Nothing is counted after the result has been made up.
ResultIsTotal ==
    stage = "returned" =>
        result.count = Total(count) /\ result.skipped = Total(skipped)

TallyInv == WalkedIsTallied /\ ResultIsTotal

\* A page tallies as many entities as the walk goes on by.
LEMMA PageIsTallied ==
    ASSUME TypeOK, NEW w \in Begun, offset[w] <= Len(List(w))
    PROVE  Cardinality(WithGid(w)) + Cardinality(Page(w) \ WithGid(w)) =
               IF IsLastPage(w) THEN Len(List(w)) - offset[w] ELSE PageSize
<1> DEFINE last == IF IsLastPage(w) THEN Len(List(w)) ELSE offset[w] + PageSize
<1>1. Len(List(w)) \in Nat /\ offset[w] \in Nat /\ PageSize \in Nat
  <2>1. List(w) \in Seq(Gids \cup {NoGid}) /\ offset[w] \in Nat
    BY WalkedLists DEF TypeOK, ListsAreKnown, ListIsKnown
  <2> QED
    BY <2>1, SizeAssumption
<1>2. Page(w) = offset[w] + 1 .. last
  BY <1>1 DEF Page, IsLastPage
<1>3. last \in Nat /\ offset[w] <= last
  BY <1>1
<1>4. IsFiniteSet(Page(w)) /\ Cardinality(Page(w)) = last - offset[w]
  <2>1. offset[w] + 1 \in Int /\ last \in Int
    BY <1>1, <1>3
  <2> HIDE DEF last
  <2>2. /\ IsFiniteSet(offset[w] + 1 .. last)
        /\ Cardinality(offset[w] + 1 .. last) =
               IF offset[w] + 1 > last THEN 0 ELSE last - (offset[w] + 1) + 1
    BY <2>1, FS_Interval
  <2> QED
    BY <1>1, <1>2, <1>3, <2>2
<1>5. WithGid(w) \subseteq Page(w)
  BY DEF WithGid
<1>6. Page(w) \cap WithGid(w) = WithGid(w)
  BY <1>5
<1>7. Cardinality(Page(w) \ WithGid(w)) = Cardinality(Page(w)) - Cardinality(WithGid(w))
  <2>1. Cardinality(Page(w) \ WithGid(w)) = Cardinality(Page(w)) - Cardinality(Page(w) \cap WithGid(w))
    BY <1>4, FS_Difference
  <2> QED
    BY <1>6, <2>1
<1>8. Cardinality(WithGid(w)) \in Nat
  BY PagesAreFinite
<1> QED
  BY <1>1, <1>4, <1>7, <1>8

\* Nobody walks any more when the result has been made up.
LEMMA NobodyWalksAtTheEnd ==
    ASSUME IInv, stage = "returned", NEW w \in Walkers PROVE ~ Walk(w)
<1>1. CASE w \in Begun
  BY <1>1 DEF IInv, PhasesInOrder, FailuresAreNamed, Begun, Walk, Answer, FailRequest,
              WritePage, WriteFails
<1>2. CASE w \notin Begun
  BY <1>2 DEF IInv, PhasesInOrder, Walk, Answer, FailRequest, WritePage, WriteFails
<1> QED
  BY <1>1, <1>2

LEMMA WalkKeepsTallyInv ==
    ASSUME IInv, TallyInv, NEW w \in Walkers, Walk(w) PROVE TallyInv'
<1>1. ResultIsTotal'
  <2>1. stage # "returned" /\ stage' = stage
    BY NobodyWalksAtTheEnd DEF Walk, Answer, FailRequest, WritePage, WriteFails
  <2> QED
    BY <2>1 DEF ResultIsTotal
<1>2. /\ pc \in [Walkers -> {"off", "asking", "answered", "done", "failed"}]
      /\ offset \in [Walkers -> Nat]
      /\ count \in [Walkers -> Nat] /\ skipped \in [Walkers -> Nat]
  BY DEF IInv, TypeOK
<1>3. listing' = listing /\ \A v : List(v)' = List(v)
  BY DEF Walk, Answer, FailRequest, WritePage, WriteFails, List, SourceOf
<1>4. CASE Answer(w) \/ FailRequest(w) \/ WriteFails(w)
  <2>1. /\ UNCHANGED <<offset, count, skipped>>
        /\ pc[w] \in {"asking", "answered"}
        /\ pc' \in {[pc EXCEPT ![w] = "answered"], [pc EXCEPT ![w] = "failed"]}
    BY <1>4 DEF Answer, FailRequest, WriteFails
  <2>2. pc'[w] \in {"answered", "failed"} /\ \A v \in Walkers \ {w} : pc'[v] = pc[v]
    BY <1>2, <2>1
  <2> QED
    BY <1>1, <1>3, <2>1, <2>2 DEF TallyInv, WalkedIsTallied
<1>5. CASE WritePage(w)
  <2>1. w \in Begun /\ pc[w] = "answered" /\ Tally(w) /\ NextPage(w)
    BY <1>5 DEF WritePage, IInv, PhasesInOrder
  <2>2. \A v \in Walkers \ {w} : /\ pc'[v] = pc[v] /\ offset'[v] = offset[v]
                                /\ count'[v] = count[v] /\ skipped'[v] = skipped[v]
    BY <1>2, <2>1 DEF Tally, NextPage
  <2>3. /\ count[w] + skipped[w] = offset[w] /\ offset[w] <= Len(List(w))
        /\ offset[w] \in Nat /\ count[w] \in Nat /\ skipped[w] \in Nat
        /\ Len(List(w)) \in Nat /\ PageSize \in Nat
    <3>1. List(w) \in Seq(Gids \cup {NoGid})
      BY <2>1, WalkedLists DEF IInv, ListsAreKnown, ListIsKnown
    <3> QED
      BY <1>2, <2>1, <3>1, SizeAssumption DEF TallyInv, WalkedIsTallied
  <2>4. /\ Cardinality(WithGid(w)) \in Nat /\ Cardinality(Page(w) \ WithGid(w)) \in Nat
        /\ Cardinality(WithGid(w)) + Cardinality(Page(w) \ WithGid(w)) =
               IF IsLastPage(w) THEN Len(List(w)) - offset[w] ELSE PageSize
    BY <2>1, <2>3, PagesAreFinite, PageIsTallied DEF IInv
  <2>5. /\ count'[w] = count[w] + Cardinality(WithGid(w))
        /\ skipped'[w] = skipped[w] + Cardinality(Page(w) \ WithGid(w))
    BY <1>2, <2>1 DEF Tally
  <2>6. count'[w] + skipped'[w] =
            offset[w] + (IF IsLastPage(w) THEN Len(List(w)) - offset[w] ELSE PageSize)
    BY <2>3, <2>4, <2>5
  <2>7. CASE IsLastPage(w)
    <3>1. pc'[w] = "done"
      BY <1>2, <2>1, <2>7 DEF NextPage
    <3>2. count'[w] + skipped'[w] = Len(List(w))
      BY <2>3, <2>6, <2>7
    <3> QED
      BY <1>1, <1>3, <2>2, <3>1, <3>2 DEF TallyInv, WalkedIsTallied
  <2>8. CASE ~ IsLastPage(w)
    <3>1. /\ pc'[w] = "asking" /\ offset'[w] = offset[w] + PageSize
          /\ offset'[w] <= Len(List(w))
      BY <1>2, <2>1, <2>3, <2>8 DEF NextPage, IsLastPage
    <3>2. count'[w] + skipped'[w] = offset'[w]
      BY <2>6, <2>8, <3>1
    <3> QED
      BY <1>1, <1>3, <2>2, <3>1, <3>2 DEF TallyInv, WalkedIsTallied
  <2> QED
    BY <2>7, <2>8
<1> QED
  BY <1>4, <1>5 DEF Walk

LEMMA GatherKeepsTallyInv == ASSUME IInv, TallyInv, Gather PROVE TallyInv'
<1>1. /\ UNCHANGED <<listing, offset, count, skipped>>
      /\ \A v : List(v)' = List(v)
  BY DEF Gather, Phase1Raises, Phase1Done, TasksGathered, List, SourceOf
<1>2. CASE Phase1Done
  <2>1. /\ stage = "phase1" /\ stage' = "tasks"
        /\ pc' = [w \in Walkers |-> IF w \in TaskWalks THEN "asking" ELSE pc[w]]
    BY <1>2 DEF Phase1Done
  <2>2. ASSUME NEW w \in TaskWalks
        PROVE  /\ w \in Walkers /\ pc[w] = "off" /\ offset[w] = 0
               /\ Len(List(w)) \in Nat
    <3>1. w \in Walkers /\ List(w) \in Seq(Gids \cup {NoGid})
      BY WalkedLists DEF IInv, ListsAreKnown, ListIsKnown, Begun
    <3>2. w \notin Phase1
      BY DEF TaskWalks, Phase1
    <3> QED
      BY <2>1, <3>1, <3>2 DEF IInv, PhasesInOrder
  <2>3. WalkedIsTallied'
    <3> SUFFICES ASSUME NEW w \in Walkers
                 PROVE  /\ pc'[w] \in {"asking", "answered"} =>
                               count[w] + skipped[w] = offset[w] /\ offset[w] <= Len(List(w))
                        /\ pc'[w] = "done" => count[w] + skipped[w] = Len(List(w))
                        /\ pc'[w] = "off" => count[w] = 0 /\ skipped[w] = 0
      BY <1>1 DEF WalkedIsTallied
    <3>1. CASE w \in TaskWalks
      <4>1. pc'[w] = "asking" /\ count[w] = 0 /\ skipped[w] = 0 /\ offset[w] = 0
        BY <2>1, <2>2, <3>1 DEF TallyInv, WalkedIsTallied
      <4> QED
        BY <2>2, <3>1, <4>1
    <3>2. CASE w \notin TaskWalks
      BY <2>1, <3>2 DEF TallyInv, WalkedIsTallied
    <3> QED
      BY <3>1, <3>2
  <2> QED
    BY <2>1, <2>3 DEF TallyInv, ResultIsTotal
<1>3. CASE Phase1Raises \/ TasksGathered
  <2>1. UNCHANGED pc
    BY <1>3 DEF Phase1Raises, TasksGathered
  <2>2. WalkedIsTallied'
    BY <1>1, <2>1 DEF TallyInv, WalkedIsTallied
  <2>3. ResultIsTotal'
    <3>1. Total(count)' = Total(count) /\ Total(skipped)' = Total(skipped)
      BY <1>1, <2>1 DEF Total, Completed
    <3> QED
      BY <1>3, <3>1 DEF Phase1Raises, TasksGathered, ResultIsTotal
  <2> QED
    BY <2>2, <2>3 DEF TallyInv
<1> QED
  BY <1>2, <1>3 DEF Gather

LEMMA TallyInvHolds == Spec => []TallyInv
<1>1. Init => TallyInv
  <2> SUFFICES ASSUME Init PROVE TallyInv
    OBVIOUS
  <2>1. TypeOK
    BY InitIInv DEF IInv
  <2>2. ASSUME NEW w \in Walkers, pc[w] \in {"asking", "answered"} PROVE 0 <= Len(List(w))
    <3>1. w \in Begun
      BY <2>2 DEF Init, Begun
    <3>2. List(w) \in Seq(Gids \cup {NoGid})
      BY <2>1, <3>1, WalkedLists DEF ListsAreKnown, ListIsKnown
    <3> QED
      BY <3>2
  <2> QED
    BY <2>2 DEF Init, TallyInv, WalkedIsTallied, ResultIsTotal
<1>2. IInv /\ TallyInv /\ [Next]_vars => TallyInv'
  <2> SUFFICES ASSUME IInv, TallyInv, [Next]_vars PROVE TallyInv'
    OBVIOUS
  <2>1. CASE Gather
    BY <2>1, GatherKeepsTallyInv
  <2>2. ASSUME NEW w \in Walkers, Walk(w) PROVE TallyInv'
    BY <2>2, WalkKeepsTallyInv
  <2>3. CASE UNCHANGED vars
    <3>1. WalkedIsTallied'
      BY <2>3 DEF vars, TallyInv, WalkedIsTallied, List, SourceOf
    <3>2. ResultIsTotal'
      BY <2>3 DEF vars, TallyInv, ResultIsTotal, Total, Completed
    <3> QED
      BY <3>1, <3>2 DEF TallyInv
  <2> QED
    BY <2>1, <2>2, <2>3 DEF Next
<1> QED
  BY <1>1, <1>2, IInvHolds, PTL DEF Spec

\* For all listings, page sizes and outcomes: each entity of the walks that did
\* not raise is counted or warned about in the result, exactly once.
THEOREM TotalsAddUpHolds == Spec => []TotalsAddUp
<1>1. ASSUME IInv, TallyInv PROVE TotalsAddUp
  <2> SUFFICES ASSUME stage = "returned"
               PROVE  result.count + result.skipped = Total([w \in Walkers |->
                          IF w \in Phase1 \cup TaskWalks THEN Len(List(w)) ELSE 0])
    BY DEF TotalsAddUp
  <2> DEFINE lengths == [w \in Walkers |->
                            IF w \in Phase1 \cup TaskWalks THEN Len(List(w)) ELSE 0]
  <2>1. IsFiniteSet(Completed)
    BY WalkersAreFinite, FS_Subset DEF Completed
  <2>2. ASSUME NEW w \in Completed
        PROVE  /\ count[w] \in Nat /\ skipped[w] \in Nat
               /\ lengths[w] = count[w] + skipped[w]
    <3>1. w \in Walkers /\ pc[w] = "done"
      BY DEF Completed
    <3>2. w \in Phase1 \cup TaskWalks
      BY <1>1, <3>1 DEF IInv, PhasesInOrder, Begun
    <3> QED
      BY <1>1, <3>1, <3>2 DEF IInv, TypeOK, TallyInv, WalkedIsTallied
  <2> HIDE DEF lengths
  <2>3. Cardinality(Pairs(Completed, lengths)) =
            Cardinality(Pairs(Completed, count)) + Cardinality(Pairs(Completed, skipped))
    BY <2>1, <2>2, TotalsAdd
  <2> QED
    BY <1>1, <2>3 DEF lengths, TallyInv, ResultIsTotal, Total, Pairs
<1> QED
  BY <1>1, IInvHolds, TallyInvHolds, PTL
============================================================================
