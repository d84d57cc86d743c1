---------------------------- MODULE AccordProofs ----------------------------
(***************************************************************************)
(* Proofs about the two programs together, for any set of objects, Kinds   *)
(* and manifests, any number of requests served and any number of edits,   *)
(* commits, deletions, failed exports and restarts.                        *)
(***************************************************************************)
EXTENDS Accord, InventoryControllerProofs, FiniteSetTheorems, WellFoundedInduction

-----------------------------------------------------------------------------
(* The files of the repository.                                            *)

\* The place of the live file of k in the order of the paths.
Place(k) == CHOOSE p \in DOMAIN PathOrder : PathOrder[p] = LivePath(k)

\* The names that the webhook's module and this one have in common mean the same.
LEMMA SameNames ==
  /\ Sync!NotParsed = NotParsed
  /\ Sync!Paths = DOMAIN PathOrder
  /\ Sync!Absent = Absent
  /\ Sync!Revisions = [DOMAIN PathOrder -> File]
  /\ \A p : Sync!ParseInventoryExportPath(p) = ParseInventoryExportPath(p)
<1>1. Sync!NotParsed = NotParsed
  BY DEF NotParsed, Sync!NotParsed
<1>2. Sync!Paths = DOMAIN PathOrder
  BY DEF Sync!Paths
<1>3. Sync!Absent = Absent
  BY DEF Sync!Absent, Absent
<1>4. Sync!Revisions = [DOMAIN PathOrder -> File]
  BY <1>2 DEF Sync!Revisions, File
<1>5. \A p : Sync!ParseInventoryExportPath(p) = ParseInventoryExportPath(p)
  <2>1. Sync!PluralKinds = PluralKinds
    BY DEF PluralKinds, Sync!PluralKinds, ArgoKinds, Sync!ArgoKinds, ArgoPluralKind, Sync!ArgoPluralKind
  <2>2. \A s, e : Sync!HasSuffix(s, e) <=> HasSuffix(s, e)
    BY DEF HasSuffix, Sync!HasSuffix, Last, Sync!Last
  <2>3. \A s, e : Sync!TrimSuffix(s, e) = TrimSuffix(s, e)
    BY <2>2 DEF TrimSuffix, Sync!TrimSuffix, Front, Sync!Front
  <2>4. \A s : Sync!ArgoKindFromPlural(s) = ArgoKindFromPlural(s)
    BY DEF ArgoKindFromPlural, Sync!ArgoKindFromPlural
  <2> QED BY <1>1, <2>1, <2>2, <2>3, <2>4 DEF ParseInventoryExportPath, Sync!ParseInventoryExportPath
<1> QED BY <1>1, <1>2, <1>3, <1>4, <1>5

\* The sync-operator reads k off the place of its live file.
LEMMA Places ==
  ASSUME NEW k \in Keys
  PROVE  /\ Place(k) \in DOMAIN PathOrder
         /\ PathOrder[Place(k)] = LivePath(k)
         /\ ObjectOf[Place(k)] = k
         /\ IsLive[Place(k)]
         /\ Sync!Parsed[Place(k)] = k
<1>1. \E p \in DOMAIN PathOrder : PathOrder[p] = LivePath(k)
  BY PathOrderAssumption
<1>2. Place(k) \in DOMAIN PathOrder /\ PathOrder[Place(k)] = LivePath(k)
  BY <1>1 DEF Place
<1>3. \A j \in Keys : PathOrder[Place(k)] \in {LivePath(j), ArchivePath(j)} => j = k
  BY <1>2, NamesAssumption
<1>4. ObjectOf[Place(k)] = k
  BY <1>2, <1>3 DEF ObjectOf
<1>5. IsLive[Place(k)]
  BY <1>2, <1>4 DEF IsLive
<1>6. Sync!Parsed[Place(k)] = k
  BY <1>2, NamesAssumption, SameNames DEF Sync!Parsed
<1> QED BY <1>2, <1>4, <1>5, <1>6

\* Every other place is one of an archived file, which stands for no object.
LEMMA OtherPlaces ==
  ASSUME NEW p \in DOMAIN PathOrder
  PROVE  /\ Sync!Parsed[p] \in Keys \cup {NotParsed}
         /\ Sync!Parsed[p] # NotParsed => p = Place(Sync!Parsed[p])
         /\ ObjectOf[p] \in Keys
         /\ IsLive[p] => p = Place(ObjectOf[p])
<1>1. PICK k \in Keys : PathOrder[p] \in {LivePath(k), ArchivePath(k)}
  BY PathOrderAssumption
<1>2. ObjectOf[p] \in Keys
  BY <1>1 DEF ObjectOf
<1>3. IsLive[p] => p = Place(ObjectOf[p])
  <2>1. IsLive[p] => PathOrder[p] = LivePath(ObjectOf[p])
    BY DEF IsLive
  <2> QED BY <1>2, <2>1, Places, PathOrderAssumption
<1>4. Sync!Parsed[p] = ParseInventoryExportPath(PathOrder[p])
  BY SameNames DEF Sync!Parsed
<1>5. CASE PathOrder[p] = LivePath(k)
  <2>1. Sync!Parsed[p] = k
    BY <1>4, <1>5, NamesAssumption
  <2>2. p = Place(k)
    BY <1>5, Places, PathOrderAssumption
  <2> QED BY <1>2, <1>3, <2>1, <2>2
<1>6. CASE PathOrder[p] = ArchivePath(k)
  BY <1>2, <1>3, <1>4, <1>6, NamesAssumption
<1> QED BY <1>1, <1>5, <1>6

\* A revision as the webhook sees it has the live files at their places.
LEMMA FilesOfTree ==
  ASSUME NEW t \in Tree
  PROVE  /\ Files(t) \in Sync!Revisions
         /\ \A k \in Keys : Files(t)[Place(k)] = t.live[k]
         /\ \A p \in DOMAIN PathOrder : Files(t)[p] = IF IsLive[p] THEN t.live[ObjectOf[p]]
                                                      ELSE t.archive[ObjectOf[p]]
<1>1. \A p \in DOMAIN PathOrder : Files(t)[p] \in File
  BY OtherPlaces DEF Files, Tree
<1>2. \A k \in Keys : Files(t)[Place(k)] = t.live[k]
  BY Places DEF Files
<1> QED BY <1>1, <1>2, SameNames DEF Files

\* A step that pushes nothing announces nothing; a push is announced with the lists
\* of the files it adds, modifies and removes.
LEMMA PushMade ==
  ASSUME Announced, remote' # remote
  PROVE  \E q : /\ pushes' = Append(pushes, q)
                /\ inbox' = inbox \cup {Len(pushes) + 1}
                /\ q \in Sync!PushEvents \/ Files(remote') \notin Sync!Revisions
                /\ q.tree = Files(remote')
                /\ \A p \in DOMAIN PathOrder :
                     /\ p \in Sync!AddedModified(q.commits) <=>
                          Files(remote')[p] # None /\ Files(remote')[p] # Files(remote)[p]
                     /\ p \in Sync!Removed(q.commits) <=>
                          Files(remote')[p] = None /\ Files(remote)[p] # None
<1> DEFINE t == Files(remote)
           u == Files(remote')
           c == Sync!CommitOf(t, u)
           q == Sync!PushOf("main", t, <<u>>)
<1>1. pushes' = Append(pushes, q) /\ inbox' = inbox \cup {Len(pushes) + 1}
  BY DEF Announced, Sync!Announce
<1>2. q.tree = u /\ q.branch = "main"
  BY DEF Sync!PushOf
<1>3. q.commits = <<c>>
  BY DEF Sync!PushOf, Sync!Parent
<1>4. c \in Sync!FileLists
  BY DEF Sync!CommitOf, Sync!FileLists
<1>5. /\ c.added = {p \in DOMAIN PathOrder : t[p] = None /\ u[p] # None}
      /\ c.modified = {p \in DOMAIN PathOrder : t[p] # None /\ u[p] # None /\ t[p] # u[p]}
      /\ c.removed = {p \in DOMAIN PathOrder : t[p] # None /\ u[p] = None}
  BY SameNames DEF Sync!CommitOf
<1>6. q \in Sync!PushEvents \/ u \notin Sync!Revisions
  <2>1. <<c>> \in Seq(Sync!FileLists)
    BY <1>4
  <2> QED BY <1>2, <1>3, <2>1 DEF Sync!PushOf, Sync!PushEvents
<1>7. Sync!AddedModified(<<c>>) = c.added \cup c.modified
  BY DEF Sync!AddedModified
<1>8. Sync!Removed(<<c>>) = c.removed \ (c.added \cup c.modified)
  BY <1>7 DEF Sync!Removed
<1> HIDE DEF q, c, t, u
<1>9. \A p \in DOMAIN PathOrder :
         /\ p \in Sync!AddedModified(q.commits) <=> u[p] # None /\ u[p] # t[p]
         /\ p \in Sync!Removed(q.commits) <=> u[p] = None /\ t[p] # None
  BY <1>3, <1>5, <1>7, <1>8
<1> QED BY <1>1, <1>2, <1>6, <1>9 DEF t, u

-----------------------------------------------------------------------------
(* The steps of the two programs.                                          *)

\* A step of the inventory-controller or of a person, with what GitHub makes of it.
ControllerStep == [Next]_vars /\ Announced /\ UNCHANGED <<handlers, reported>>

\* What is not a step of a request is a step InventoryController knows, and leaves
\* the requests alone, or it is the arrival of a delivery.
LEMMA AccordSteps ==
  ASSUME TypeOK, [AccordNext]_allVars
  PROVE  \/ ControllerStep
         \/ \E h \in Handlers : ServeWatched(h)
         \/ UNCHANGED vars /\ \E h \in Handlers : \E i \in inbox : Sync!Deliver(h, i, "received")
<1>q. ASSUME UNCHANGED <<remote, syncVars>>, [Next]_vars PROVE ControllerStep
  BY <1>q DEF ControllerStep, Announced, syncVars
<1>1. ASSUME NEW k \in Keys, Locally(ReconcileGet(k)) \/ Locally(Reconcile(k)) PROVE ControllerStep
  <2>1. UNCHANGED <<remote, syncVars>>
    BY <1>1 DEF Locally, ReconcileGet, Reconcile, ReconcileArchive, ReconcileIgnore, ReconcileExport,
                Finish, workerVars
  <2>2. Next
    BY <1>1 DEF Locally, Reconcile, Next
  <2> QED BY <1>q, <2>1, <2>2
<1>2. ASSUME NEW k \in Keys, NEW c \in Declared(k), EditInCluster(k, c) PROVE ControllerStep
  <2>1. c \in Contents
    BY DEF Declared
  <2>2. UserEdit(k, c) /\ UNCHANGED <<remote, syncVars>>
    BY <1>2 DEF EditInCluster, UserEdit, workerVars
  <2>3. Next
    BY <2>1, <2>2 DEF Next
  <2> QED BY <1>q, <2>2, <2>3
<1>3. ASSUME NEW k \in Keys, DeleteInCluster(k) PROVE ControllerStep
  <2>1. UserDelete(k) /\ UNCHANGED <<remote, syncVars>>
    BY <1>3 DEF DeleteInCluster, UserDelete, workerVars
  <2>2. Next
    BY <2>1 DEF Next
  <2> QED BY <1>q, <2>1, <2>2
<1>4. ASSUME NEW k \in Keys, NEW c \in Declared(k) \cup {None}, EditInGit(k, c) PROVE ControllerStep
  <2>1. c \in File /\ remote.archive[k] \in File
    BY DEF Declared, File, TypeOK, WorkerTypeOK, Tree
  <2>2. Foreign
    BY <1>4, <2>1 DEF EditInGit, Foreign
  <2> QED BY <1>4, <2>2 DEF EditInGit, ControllerStep, Next
<1>5. CASE Troubled /\ Locally(Restart)
  <2>1. Restart /\ UNCHANGED <<remote, syncVars>>
    BY <1>5 DEF Locally, Restart
  <2>2. Next
    BY <2>1 DEF Next
  <2> QED BY <1>q, <2>1, <2>2
<1>6. CASE FlushAnnounced
  BY <1>6 DEF FlushAnnounced, ControllerStep, Next
<1>7. CASE FaultAnnounced
  BY <1>7 DEF FaultAnnounced, ControllerStep, Next
<1>8. ASSUME NEW h \in Handlers, Delivered(h)
      PROVE  UNCHANGED vars /\ \E i \in inbox : Sync!Deliver(h, i, "received")
  BY <1>8 DEF Delivered, Sync!Deliver, vars
<1>9. CASE UNCHANGED allVars
  BY <1>9, <1>q DEF allVars, vars, workerVars
<1> QED BY <1>1, <1>2, <1>3, <1>4, <1>5, <1>6, <1>7, <1>8, <1>9 DEF AccordNext

-----------------------------------------------------------------------------
(* The requests of the sync-operator.                                      *)

\* The files a push is about.
Lists(c) == Sync!AddedModified(c) \cup Sync!Removed(c)

\* The files k may have: none, or a manifest that declares k.
Owned(k) == Declared(k) \cup {None}

\* Every push has at the place of k a file of k, and lists it truly.
PushesInv ==
    \A i \in DOMAIN pushes, k \in Keys :
        /\ pushes[i].tree[Place(k)] \in Owned(k)
        /\ Place(k) \in Sync!AddedModified(pushes[i].commits) => pushes[i].tree[Place(k)] # None
        /\ Place(k) \in Sync!Removed(pushes[i].commits) => pushes[i].tree[Place(k)] = None

\* A request serves an announced push whose body has been read, its context is valid, the paths it has still
\* to process are listed by the push, and a file it has fetched is the one of its path.
Sound(h) ==
    /\ handlers[h].stage # "reading"
    /\ handlers[h].stage = "free" => handlers[h] = Sync!Free
    /\ handlers[h].stage # "free" =>
          /\ handlers[h].defects = {}
          /\ \E i \in DOMAIN pushes : /\ handlers[h].tree = pushes[i].tree
                                      /\ handlers[h].commits = pushes[i].commits
    /\ handlers[h].stage \in {"loop", "fetched"} =>
          /\ handlers[h].live
          /\ handlers[h].apply \subseteq Sync!AddedModified(handlers[h].commits)
          /\ handlers[h].delete \subseteq Sync!Removed(handlers[h].commits)
    /\ handlers[h].stage = "fetched" =>
          /\ Sync!Applying(h)
          /\ Sync!Target(h) # NotParsed
          /\ handlers[h].raw = handlers[h].tree[Sync!Path(h)]

RequestInv == \A h \in Handlers : Sound(h)

\* What the file f may make of its object.
ObjectsFor(f) == IF f = None THEN {Absent} ELSE Sync!AppliedFrom(f)

\* The kinds of step a request takes: it enters its loops, fetches a file, skips a path
\* that stands for no object, brings an object to its file, or is answered.
Opens(h) ==
    /\ handlers[h].stage = "received"
    /\ handlers' = [handlers EXCEPT ![h] = [@ EXCEPT !.stage = "loop", !.live = TRUE,
                                            !.apply = Sync!AddedModified(handlers[h].commits),
                                            !.delete = Sync!Removed(handlers[h].commits)]]
    /\ UNCHANGED <<cluster, reported>>

Fetches(h) ==
    /\ handlers[h].stage = "loop" /\ Sync!Applying(h) /\ Sync!Target(h) # NotParsed
    /\ handlers' = [handlers EXCEPT ![h] = [@ EXCEPT !.stage = "fetched",
                                            !.raw = handlers[h].tree[Sync!Path(h)]]]
    /\ UNCHANGED <<cluster, reported>>

Advances(h) ==
    /\ handlers[h].stage \in {"loop", "fetched"}
    /\ handlers' = [handlers EXCEPT ![h] = [@ EXCEPT !.stage = "loop", !.raw = None,
                                            !.apply = handlers[h].apply \ {Sync!Path(h)},
                                            !.delete = handlers[h].delete \ {Sync!Path(h)}]]

Skips(h) ==
    /\ Advances(h)
    /\ \A k \in Keys : Sync!Path(h) # Place(k)
    /\ UNCHANGED <<cluster, reported>>

Settles(h, k) ==
    /\ Advances(h)
    /\ Sync!Path(h) = Place(k)
    /\ Place(k) \in handlers[h].apply \cup handlers[h].delete
    /\ \E o \in ObjectsFor(handlers[h].tree[Place(k)]) : cluster' = [cluster EXCEPT ![k] = o]
    /\ reported' = reported \ {k}

Answers(h) ==
    /\ handlers[h].stage = "loop" /\ handlers[h].apply = {} /\ handlers[h].delete = {}
    /\ handlers' = [handlers EXCEPT ![h] = Sync!Free]
    /\ UNCHANGED <<cluster, reported>>

\* Every set of places that is not empty has a first one.
LEMMA FirstPlace ==
  ASSUME NEW S \in SUBSET DOMAIN PathOrder, S # {}
  PROVE  Sync!Min(S) \in S
<1>1. S \in SUBSET Nat
  BY PathOrderAssumption
<1> DEFINE R == OpToRel(<, Nat)
<1>2. IsWellFoundedOn(R, Nat)
  BY NatLessThanWellFounded
<1>3. \A x, y \in Nat : y < x => <<y, x>> \in R
  BY DEF OpToRel
<1> HIDE DEF R
<1>4. PICK x \in S : \A y \in S : ~(<<y, x>> \in R)
  BY <1>1, <1>2, WFMin
<1>5. \A y \in S : x <= y
  <2> TAKE y \in S
  <2>1. x \in Nat /\ y \in Nat /\ ~(y < x)
    BY <1>1, <1>3, <1>4
  <2> QED BY <2>1
<1> QED BY <1>5 DEF Sync!Min

\* The current path of a request is one it has still to process.
LEMMA CurrentPath ==
  ASSUME AccordTypeOK, NEW h \in Handlers, Sync!Applying(h) \/ Sync!Deleting(h)
  PROVE  /\ Sync!Path(h) \in DOMAIN PathOrder
         /\ Sync!Applying(h) => Sync!Path(h) \in handlers[h].apply
         /\ Sync!Deleting(h) => Sync!Path(h) \in handlers[h].delete
<1>1. handlers[h].apply \in SUBSET DOMAIN PathOrder /\ handlers[h].delete \in SUBSET DOMAIN PathOrder
  BY SameNames DEF AccordTypeOK, Sync!Requests
<1>2. CASE Sync!Applying(h)
  BY <1>1, <1>2, FirstPlace DEF Sync!Applying, Sync!Deleting, Sync!Path
<1>3. CASE Sync!Deleting(h)
  BY <1>1, <1>3, FirstPlace DEF Sync!Applying, Sync!Deleting, Sync!Path
<1> QED BY <1>2, <1>3

\* Every step of ServeHTTP is of one of these kinds: with GitHub and the API server
\* answering, no request is refused, cancelled or ends in an error.
LEMMA RequestSteps ==
  ASSUME AccordTypeOK, PushesInv, RequestInv, NEW h \in Handlers, Sync!Serve(h)
  PROVE  \/ Opens(h) \/ Fetches(h) \/ Skips(h) \/ Answers(h)
         \/ \E k \in Keys : Settles(h, k)
<1> DEFINE p == Sync!Path(h)
           r == handlers[h]
<1>0. Sound(h) /\ Sync!NotParsed = NotParsed /\ Sync!Absent = Absent
  BY SameNames DEF RequestInv
<1>1. ASSUME Sync!InLoop(h) \/ r.stage = "fetched", Sync!Target(h) # NotParsed
      PROVE  /\ Sync!Target(h) \in Keys /\ p = Place(Sync!Target(h))
             /\ p \in r.apply \cup r.delete
             /\ Sync!Applying(h) => r.tree[p] \in Declared(Sync!Target(h)) /\ r.tree[p] # None
             /\ Sync!Deleting(h) => r.tree[p] = None
  <2>1. Sync!Applying(h) \/ Sync!Deleting(h)
    BY <1>0, <1>1 DEF Sync!InLoop, Sound
  <2>2. /\ p \in DOMAIN PathOrder
        /\ Sync!Applying(h) => p \in r.apply
        /\ Sync!Deleting(h) => p \in r.delete
    BY <2>1, CurrentPath
  <2>3. Sync!Target(h) \in Keys /\ p = Place(Sync!Target(h))
    BY <1>1, <2>2, OtherPlaces DEF Sync!Target
  <2>4. r.stage \in {"loop", "fetched"}
    BY <1>1 DEF Sync!InLoop
  <2>5. PICK i \in DOMAIN pushes : r.tree = pushes[i].tree /\ r.commits = pushes[i].commits
    BY <1>0, <2>4 DEF Sound
  <2>6. /\ Sync!Applying(h) => p \in Sync!AddedModified(pushes[i].commits)
        /\ Sync!Deleting(h) => p \in Sync!Removed(pushes[i].commits)
    BY <1>0, <2>2, <2>4, <2>5 DEF Sound
  <2> QED BY <2>1, <2>2, <2>3, <2>5, <2>6 DEF PushesInv, Owned
<1>2. CASE Sync!Reject(h)
  BY <1>0, <1>2 DEF Sync!Reject, Sync!Refused, Sound
<1>3. CASE Sync!Begin(h)
  BY <1>3 DEF Sync!Begin, Opens
<1>4. CASE Sync!Ignore(h)
  <2>1. \A k \in Keys : p # Place(k)
    BY <1>0, <1>4, Places, NamesAssumption DEF Sync!Ignore, Sync!Target
  <2>2. r.stage = "loop" /\ Sync!Result(h, "ignored") /\ UNCHANGED cluster
    BY <1>4 DEF Sync!Ignore, Sync!InLoop
  <2>3. UNCHANGED reported
    BY <2>2 DEF Sync!Result
  <2> QED BY <2>1, <2>2, <2>3 DEF Skips, Advances, Sync!Result
<1>5. CASE Sync!Fetch(h)
  <2>1. Sync!InLoop(h) /\ Sync!Target(h) # NotParsed /\ Sync!Applying(h)
    BY <1>0, <1>5 DEF Sync!Fetch
  <2>2. r.tree[p] # None
    BY <1>1, <2>1
  <2> QED BY <1>5, <2>1, <2>2 DEF Sync!Fetch, Sync!InLoop, Fetches
<1>6. CASE Sync!Apply(h)
  <2>1. r.stage = "fetched" /\ Sync!Applying(h) /\ Sync!Target(h) # NotParsed /\ r.raw = r.tree[p]
    BY <1>0, <1>6 DEF Sync!Apply, Sound
  <2>2. r.raw \in Declared(Sync!Target(h)) /\ r.raw # None
    BY <1>1, <2>1
  <2>3. r.raw.id = Sync!Target(h)
    BY <2>2 DEF Declared
  <2>4. Sync!Patch(h) /\ Sync!Result(h, "applied")
    BY <1>6, <2>3 DEF Sync!Apply, Sync!IdentityMatches
  <2>5. PICK o \in Sync!Application(cluster[Sync!Target(h)].material, r.raw) :
               cluster' = [cluster EXCEPT ![Sync!Target(h)] = o]
    BY <2>3, <2>4 DEF Sync!Patch
  <2>8. o \in ObjectsFor(r.tree[p])
    <3>1. Sync!Target(h) \in Keys
      BY <1>1, <2>1
    <3>2. cluster[Sync!Target(h)].material \in Contents \cup {None}
      BY <3>1 DEF AccordTypeOK, TypeOK, Objects, Absent
    <3> QED BY <2>1, <2>2, <2>5, <3>2 DEF ObjectsFor, Sync!AppliedFrom
  <2>6. reported' = reported \ {Sync!Target(h)}
    BY <2>4 DEF Sync!Result
  <2>7. Settles(h, Sync!Target(h))
    BY <1>1, <2>1, <2>4, <2>5, <2>6, <2>8 DEF Settles, Advances, Sync!Result
  <2> QED BY <1>1, <2>1, <2>7
<1>7. CASE Sync!Delete(h)
  <2>1. Sync!InLoop(h) /\ Sync!Target(h) # NotParsed /\ Sync!Deleting(h) /\ Sync!Result(h, "deleted")
    BY <1>0, <1>7 DEF Sync!Delete
  <2>2. Absent \in ObjectsFor(r.tree[p]) /\ cluster' = [cluster EXCEPT ![Sync!Target(h)] = Absent]
    BY <1>0, <1>1, <1>7, <2>1 DEF Sync!Delete, Sync!DeleteObject, ObjectsFor
  <2>3. reported' = reported \ {Sync!Target(h)}
    BY <2>1 DEF Sync!Result
  <2>4. Settles(h, Sync!Target(h))
    BY <1>1, <2>1, <2>2, <2>3 DEF Settles, Advances, Sync!Result, Sync!InLoop
  <2> QED BY <1>1, <2>1, <2>4
<1>8. CASE Sync!Cancelled(h)
  BY <1>0, <1>8 DEF Sync!Cancelled, Sync!CallFails, Sync!InLoop, Sound
<1>9. CASE Sync!Respond(h)
  BY <1>9 DEF Sync!Respond, Sync!Applying, Sync!Deleting, Answers
<1> QED BY <1>2, <1>3, <1>4, <1>5, <1>6, <1>7, <1>8, <1>9 DEF Sync!Serve

\* The paths a request has still to process.
Left(h) ==
    IF handlers[h].stage = "received" THEN Lists(handlers[h].commits)
    ELSE handlers[h].apply \cup handlers[h].delete

\* The paths of a push are paths of the repository.
LEMMA ListTypes ==
  ASSUME NEW c \in Seq(Sync!FileLists)
  PROVE  Sync!AddedModified(c) \in SUBSET Sync!Paths /\ Sync!Removed(c) \in SUBSET Sync!Paths
<1>1. \A i \in DOMAIN c : c[i] \in Sync!FileLists
  OBVIOUS
<1> QED BY <1>1 DEF Sync!AddedModified, Sync!Removed, Sync!FileLists

\* A handler that serves nothing has its type.
LEMMA FreeType == Sync!Free \in Sync!Requests
  BY DEF Sync!Free, Sync!Requests, Sync!Stages, Sync!NoFiles, Sync!Revisions

\* The request after the step, for every kind of step.
LEMMA RequestFields ==
  ASSUME AccordTypeOK, NEW h \in Handlers
  PROVE  /\ Opens(h) => handlers'[h].stage = "loop" /\ handlers'[h].live
                        /\ handlers'[h].apply = Sync!AddedModified(handlers[h].commits)
                        /\ handlers'[h].delete = Sync!Removed(handlers[h].commits)
         /\ Fetches(h) => handlers'[h].stage = "fetched"
                          /\ handlers'[h].raw = handlers[h].tree[Sync!Path(h)]
                          /\ handlers'[h].live = handlers[h].live
                          /\ handlers'[h].apply = handlers[h].apply
                          /\ handlers'[h].delete = handlers[h].delete
         /\ Advances(h) => handlers'[h].stage = "loop"
                           /\ handlers'[h].live = handlers[h].live
                           /\ handlers'[h].apply = handlers[h].apply \ {Sync!Path(h)}
                           /\ handlers'[h].delete = handlers[h].delete \ {Sync!Path(h)}
         /\ Opens(h) \/ Fetches(h) \/ Advances(h) =>
               /\ handlers'[h].tree = handlers[h].tree
               /\ handlers'[h].commits = handlers[h].commits
               /\ handlers'[h].defects = handlers[h].defects
         /\ Answers(h) => handlers'[h] = Sync!Free
<1>0. handlers \in [Handlers -> Sync!Requests] /\ handlers[h] \in Sync!Requests
  BY DEF AccordTypeOK
<1>1. CASE Opens(h)
  <2>1. handlers'[h] = [handlers[h] EXCEPT !.stage = "loop", !.live = TRUE,
                                           !.apply = Sync!AddedModified(handlers[h].commits),
                                           !.delete = Sync!Removed(handlers[h].commits)]
    BY <1>0, <1>1 DEF Opens
  <2>2. ~Fetches(h) /\ ~Advances(h) /\ ~Answers(h)
    BY <1>1 DEF Opens, Fetches, Advances, Answers
  <2> QED BY <1>0, <2>1, <2>2 DEF Sync!Requests
<1>2. ASSUME Fetches(h)
      PROVE  /\ handlers'[h].stage = "fetched"
             /\ handlers'[h].raw = handlers[h].tree[Sync!Path(h)]
             /\ handlers'[h].live = handlers[h].live
             /\ handlers'[h].apply = handlers[h].apply
             /\ handlers'[h].delete = handlers[h].delete
             /\ handlers'[h].tree = handlers[h].tree
             /\ handlers'[h].commits = handlers[h].commits
             /\ handlers'[h].defects = handlers[h].defects
  <2>1. handlers'[h] = [handlers[h] EXCEPT !.stage = "fetched", !.raw = handlers[h].tree[Sync!Path(h)]]
    BY <1>0, <1>2 DEF Fetches
  <2> QED BY <1>0, <2>1 DEF Sync!Requests
<1>3. ASSUME Advances(h)
      PROVE  /\ handlers'[h].stage = "loop"
             /\ handlers'[h].live = handlers[h].live
             /\ handlers'[h].apply = handlers[h].apply \ {Sync!Path(h)}
             /\ handlers'[h].delete = handlers[h].delete \ {Sync!Path(h)}
             /\ handlers'[h].tree = handlers[h].tree
             /\ handlers'[h].commits = handlers[h].commits
             /\ handlers'[h].defects = handlers[h].defects
  <2>1. handlers'[h] = [handlers[h] EXCEPT !.stage = "loop", !.raw = None,
                                           !.apply = handlers[h].apply \ {Sync!Path(h)},
                                           !.delete = handlers[h].delete \ {Sync!Path(h)}]
    BY <1>0, <1>3 DEF Advances
  <2> QED BY <1>0, <2>1 DEF Sync!Requests
<1>4. ASSUME Answers(h) PROVE handlers'[h] = Sync!Free
  BY <1>0, <1>4 DEF Answers
<1> QED BY <1>1, <1>2, <1>3, <1>4

\* The request stays sound, and is still the one of its push unless it is answered.
LEMMA RequestKept ==
  ASSUME AccordTypeOK, PushesInv, RequestInv, NEW h \in Handlers, Sync!Serve(h)
  PROVE  /\ UNCHANGED <<pushes, inbox>>
         /\ \A g \in Handlers \ {h} : handlers'[g] = handlers[g]
         /\ handlers[h].stage # "free"
         /\ \/ handlers'[h] = Sync!Free
            \/ /\ handlers'[h].stage \in {"loop", "fetched"}
               /\ handlers'[h].tree = handlers[h].tree
               /\ handlers'[h].commits = handlers[h].commits
         /\ Sound(h)'
<1>0. handlers \in [Handlers -> Sync!Requests] /\ Sound(h)
  BY DEF AccordTypeOK, RequestInv
<1>1. UNCHANGED <<pushes, inbox>>
  BY DEF Sync!Serve, Sync!Reject, Sync!Begin, Sync!Ignore, Sync!Fetch, Sync!Apply, Sync!Delete,
         Sync!Cancelled, Sync!Respond, Sync!Result, Sync!CallFails
<1>2. \/ Opens(h) \/ Fetches(h) \/ Advances(h) \/ Answers(h)
  BY RequestSteps DEF Skips, Settles
<1>3. \A g \in Handlers \ {h} : handlers'[g] = handlers[g]
  BY <1>0, <1>2 DEF Opens, Fetches, Advances, Answers
<1>4. handlers[h].stage # "free"
  BY <1>2 DEF Opens, Fetches, Advances, Answers
<1>5. CASE Opens(h)
  <2>1. Sound(h)'
    BY <1>0, <1>1, <1>4, <1>5, RequestFields DEF Sound
  <2> QED BY <1>1, <1>3, <1>4, <1>5, <2>1, RequestFields
<1>6. CASE Fetches(h)
  <2>1. Sync!Path(h)' = Sync!Path(h) /\ Sync!Applying(h)' = Sync!Applying(h)
    BY <1>6, RequestFields DEF Sync!Path, Sync!Applying
  <2>2. Sync!Target(h)' = Sync!Target(h)
    BY <2>1 DEF Sync!Target
  <2>3. Sync!Applying(h) /\ Sync!Target(h) # NotParsed /\ handlers[h].stage = "loop"
    BY <1>6 DEF Fetches
  <2>4. Sound(h)'
    BY <1>0, <1>1, <1>4, <1>6, <2>1, <2>2, <2>3, RequestFields DEF Sound
  <2> QED BY <1>1, <1>3, <1>4, <1>6, <2>4, RequestFields
<1>7. CASE Advances(h)
  <2>1. handlers[h].stage \in {"loop", "fetched"}
    BY <1>7 DEF Advances
  <2>2. Sound(h)'
    BY <1>0, <1>1, <1>4, <1>7, <2>1, RequestFields DEF Sound
  <2> QED BY <1>1, <1>3, <1>4, <1>7, <2>2, RequestFields
<1>8. CASE Answers(h)
  <2>1. handlers'[h] = Sync!Free
    BY <1>8, RequestFields
  <2>2. Sync!Free.stage = "free"
    BY DEF Sync!Free
  <2>3. Sound(h)'
    BY <2>1, <2>2 DEF Sound
  <2> QED BY <1>1, <1>3, <1>4, <2>1, <2>3
<1> QED BY <1>2, <1>5, <1>6, <1>7, <1>8

\* A request leaves the cluster and its paths as they are, as far as objects go, or
\* crosses one object off and brings it to the file of its push.
LEMMA RequestEffect ==
  ASSUME AccordTypeOK, PushesInv, RequestInv, NEW h \in Handlers, Sync!Serve(h)
  PROVE  \/ /\ UNCHANGED cluster
            /\ \A j \in Keys : Place(j) \in Left(h)' <=> Place(j) \in Left(h)
         \/ \E k \in Keys :
              /\ Place(k) \in Left(h)
              /\ \E o \in ObjectsFor(handlers[h].tree[Place(k)]) : cluster' = [cluster EXCEPT ![k] = o]
              /\ \A j \in Keys : Place(j) \in Left(h)' <=> j # k /\ Place(j) \in Left(h)
<1>1. CASE Opens(h)
  BY <1>1, RequestFields DEF Opens, Left, Lists
<1>2. CASE Fetches(h)
  BY <1>2, RequestFields DEF Fetches, Left
<1>3. ASSUME Advances(h) PROVE Left(h)' = Left(h) \ {Sync!Path(h)}
  <2>1. handlers[h].stage # "received"
    BY <1>3 DEF Advances
  <2> QED BY <1>3, <2>1, RequestFields DEF Left
<1>4. CASE Skips(h)
  BY <1>3, <1>4 DEF Skips
<1>5. CASE Answers(h)
  <2>1. handlers'[h].stage = "free" /\ handlers'[h].apply = {} /\ handlers'[h].delete = {}
    BY <1>5, RequestFields DEF Sync!Free
  <2> QED BY <1>5, <2>1 DEF Answers, Left
<1>6. ASSUME NEW k \in Keys, Settles(h, k)
      PROVE  /\ Place(k) \in Left(h)
             /\ \E o \in ObjectsFor(handlers[h].tree[Place(k)]) : cluster' = [cluster EXCEPT ![k] = o]
             /\ \A j \in Keys : Place(j) \in Left(h)' <=> j # k /\ Place(j) \in Left(h)
  <2>1. Left(h)' = Left(h) \ {Place(k)}
    BY <1>3, <1>6 DEF Settles
  <2>2. Place(k) \in Left(h)
    BY <1>6 DEF Settles, Advances, Left
  <2>3. \A j \in Keys : Place(j) = Place(k) => j = k
    BY Places
  <2> QED BY <1>6, <2>1, <2>2, <2>3 DEF Settles
<1> QED BY <1>1, <1>2, <1>4, <1>5, <1>6, RequestSteps

-----------------------------------------------------------------------------
(* The batch worker and people, one object at a time.                      *)

\* What a step of the worker does to one object: its operations stay, move on, are
\* put back or are dropped, or a push carries them out.
LEMMA WorkerMoves ==
  ASSUME WorkerTypeOK, WorkerInv, FlushStep \/ FaultStep \/ Lost, NEW k \in Keys
  PROVE  \/ /\ UNCHANGED remote
            /\ \/ pending'[k] = pending[k] /\ batch'[k] = batch[k]
               \/ pending'[k] = NoOp /\ batch'[k] = pending[k] /\ batch[k] = NoOp
               \/ pending'[k] \in {pending[k], batch[k], NoOp} /\ batch'[k] = NoOp
               \/ pending'[k] = NoOp /\ batch'[k] = batch[k]
         \/ /\ Fastforward
            /\ remote' = ApplyBatch(remote, batch)
            /\ pending'[k] = pending[k]
            /\ \/ Push /\ batch'[k] = NoOp
               \/ PushReplyLost /\ batch'[k] = batch[k]
<1>0. EmptyBatch[k] = NoOp
  BY DEF EmptyBatch
<1>1. CASE FlushTake
  BY <1>0, <1>1 DEF FlushTake, WorkerInv, IdleIsEmpty
<1>2. CASE FlushDrop
  BY <1>0, <1>2 DEF FlushDrop
<1>3. CASE Clone \/ Commit \/ PushRejected \/ ArchiveError \/ ExportFault
  BY <1>3 DEF Clone, Commit, PushRejected, ArchiveError, ExportFault
<1>4. CASE SkipCommit
  BY <1>0, <1>4 DEF SkipCommit, FlushDone
<1>5. CASE Push
  BY <1>0, <1>5, PushAppliesBatch DEF Push, FlushDone
<1>6. CASE PushReplyLost
  BY <1>6, PushAppliesBatch DEF PushReplyLost
<1>7. CASE Requeue
  BY <1>0, <1>7 DEF Requeue, FlushDone, PutBack
<1>8. CASE Lost
  BY <1>0, <1>8 DEF Lost, WorkerLost
<1> QED BY <1>1, <1>2, <1>3, <1>4, <1>5, <1>6, <1>7, <1>8 DEF FlushStep, FaultStep

\* Somebody gives k the live file c.
GitEdit(k, c) ==
    /\ Happens("foreign")
    /\ ForeignCommit(k, c, remote.archive[k])
    /\ UNCHANGED <<cluster, controllerVars>>

\* The kinds of step, with who asks for what.
LEMMA AccordKinds ==
  ASSUME [AccordNext]_allVars
  PROVE  \/ \E k \in Keys : (ReconcileGet(k) \/ Reconcile(k)) /\ UNCHANGED historyVars
         \/ \E k \in Keys : \E c \in Declared(k) : UserEdit(k, c) /\ Wants(k, c)
         \/ \E k \in Keys : UserDelete(k) /\ Wants(k, None)
         \/ \E k \in Keys : \E c \in Owned(k) : GitEdit(k, c) /\ Wants(k, c)
         \/ (Restart \/ Flush \/ Fault) /\ UNCHANGED historyVars
         \/ UNCHANGED vars /\ UNCHANGED historyVars
         \/ \E h \in Handlers : ServeWatched(h)
<1>1. ASSUME NEW h \in Handlers, Delivered(h) PROVE UNCHANGED vars /\ UNCHANGED historyVars
  BY <1>1 DEF Delivered, Sync!Deliver, vars
<1> QED BY <1>1 DEF AccordNext, Locally, EditInCluster, DeleteInCluster, EditInGit, GitEdit, Owned,
                    FlushAnnounced, FaultAnnounced, allVars

\* Every file, object and operation of k is one of k.
OwnInv ==
    \A k \in Keys :
        /\ remote.live[k] \in Owned(k)
        /\ cluster[k].material \in Owned(k)
        /\ pending[k].content \in Owned(k)
        /\ batch[k].content \in Owned(k)
        /\ rec[KindOf[k]].key = k => rec[KindOf[k]].obj.material \in Owned(k)

AccordBase == AccordTypeOK /\ BaseInv /\ OwnInv /\ PushesInv /\ RequestInv

\* What the API server makes of a file of k is an object of k, annotated with the
\* hash of the file, whatever it leaves of the fields of others.
LEMMA ObjectsForFile ==
  ASSUME NEW k \in Keys, NEW f \in Owned(k), NEW o \in ObjectsFor(f)
  PROVE  /\ o \in Objects \cup {Absent}
         /\ o.material \in Owned(k)
         /\ Present(o) <=> f # None
         /\ o.ann = IF f = None THEN None ELSE MaterialHash(f)
         /\ f # None => (AnnotationMatches(o) <=> o.material = f)
<1>1. CASE f = None
  BY <1>1 DEF ObjectsFor, Absent, Present, Owned
<1>2. CASE f # None
  <2>1. f \in Contents /\ f.id = k /\ None \notin Contents
    BY <1>2, NoneAssumption DEF Owned, Declared
  <2>2. PICK d \in Contents \cup {None} : o \in Sync!Application(d, f)
    BY <1>2 DEF ObjectsFor, Sync!AppliedFrom
  <2>3. PICK m \in Merged[d][f] : o = [material |-> m, ann |-> MaterialHash(f)]
    BY <2>2 DEF Sync!Application, Sync!MaterialHash, MaterialHash
  <2>4. m \in Contents /\ m.id = k
    <3>1. Merged[d] \in [Contents -> SUBSET Contents] /\ \A n \in Merged[d][f] : n.id = f.id
      BY <2>1, MergedAssumption
    <3> QED BY <2>1, <2>3, <3>1
  <2>5. MaterialHash(f) \in Hashes
    BY <2>1 DEF Hashes
  <2>6. MaterialHash(f) = MaterialHash(m) <=> f = m
    BY DEF MaterialHash
  <2> HIDE DEF MaterialHash
  <2> QED BY <1>2, <2>1, <2>3, <2>4, <2>5, <2>6 DEF Objects, AnnotationMatches, Present, Owned, Declared
<1> QED BY <1>1, <1>2

\* A request about k finds the file of k in the tree of its push.
LEMMA LeftIsListed ==
  ASSUME AccordTypeOK, PushesInv, RequestInv, NEW h \in Handlers, NEW k \in Keys, Place(k) \in Left(h)
  PROVE  /\ handlers[h].stage # "free"
         /\ handlers[h].tree[Place(k)] \in Owned(k)
         /\ Place(k) \in Lists(handlers[h].commits)
<1>0. Sound(h)
  BY DEF RequestInv
<1>1. handlers[h].stage # "free"
  <2> SUFFICES ASSUME handlers[h].stage = "free" PROVE FALSE
    OBVIOUS
  <2>1. handlers[h].apply = {} /\ handlers[h].delete = {}
    BY <1>0 DEF Sound, Sync!Free
  <2> QED BY <2>1 DEF Left
<1>2. handlers[h].tree[Place(k)] \in Owned(k)
  BY <1>0, <1>1 DEF Sound, PushesInv
<1>3. CASE handlers[h].stage = "received"
  BY <1>1, <1>2, <1>3 DEF Left
<1>4. CASE handlers[h].stage \in {"loop", "fetched"}
  BY <1>0, <1>1, <1>2, <1>4 DEF Left, Lists, Sound
<1>5. handlers[h].stage \in {"free", "received", "loop", "fetched"}
  BY <1>0 DEF AccordTypeOK, Sync!Requests, Sync!Stages, Sound
<1> QED BY <1>1, <1>3, <1>4, <1>5

-----------------------------------------------------------------------------
(* Types, ownership and requests are kept.                                 *)

\* The two programs start with their types and with nothing announced.
LEMMA AccordBaseInit == AccordInit => AccordBase
<1> SUFFICES ASSUME AccordInit PROVE AccordBase
  OBVIOUS
<1>1. TypeOK /\ BaseInv
  BY TypeInit, BaseInit DEF AccordInit
<1>2. \A k \in Keys : cluster[k].material \in Owned(k)
  BY DEF AccordInit, Owned
<1>3. AccordTypeOK
  <2>1. pushes \in Seq(Sync!PushEvents) /\ inbox \subseteq DOMAIN pushes /\ reported \subseteq Keys
    BY DEF AccordInit
  <2>2. handlers \in [Handlers -> Sync!Requests]
    BY FreeType DEF AccordInit
  <2>3. wanted \in [Keys -> File]
    BY <1>2 DEF AccordInit, Owned, Declared, File
  <2>4. asked \in [Keys -> Nat] /\ left \in [Keys -> Nat] /\ hasty \in BOOLEAN
    BY DEF AccordInit
  <2> QED BY <1>1, <2>1, <2>2, <2>3, <2>4 DEF AccordTypeOK
<1>4. OwnInv
  <2> SUFFICES ASSUME NEW k \in Keys
               PROVE  /\ remote.live[k] \in Owned(k)
                      /\ pending[k].content \in Owned(k) /\ batch[k].content \in Owned(k)
                      /\ rec[KindOf[k]].key # k
    BY <1>2 DEF OwnInv
  <2>1. remote.live[k] \in Owned(k)
    BY <1>2 DEF AccordInit, Init, Owned
  <2>2. pending[k] = NoOp /\ batch[k] = NoOp
    BY DEF AccordInit, Init, NewBatchWorker, EmptyBatch
  <2>3. rec[KindOf[k]].key = None
    BY KindOfAssumption DEF AccordInit, Init, Idle
  <2> QED BY <2>1, <2>2, <2>3, NoneAssumption DEF NoOp, Owned
<1>5. PushesInv
  <2>1. DOMAIN pushes = {}
    BY DEF AccordInit
  <2> QED BY <2>1 DEF PushesInv
<1>6. RequestInv
  BY DEF AccordInit, RequestInv, Sound, Sync!Free
<1> QED BY <1>1, <1>3, <1>4, <1>5, <1>6 DEF AccordBase

\* Pushes are only ever added.
PushesKept == \A i \in DOMAIN pushes : i \in DOMAIN pushes' /\ pushes'[i] = pushes[i]

\* A push by either side, with the tree and the lists it is announced with.
Pushed(q) ==
    /\ q \in Sync!PushEvents
    /\ pushes' = Append(pushes, q)
    /\ DOMAIN pushes' = DOMAIN pushes \cup {Len(pushes) + 1}
    /\ Len(pushes) + 1 \notin DOMAIN pushes
    /\ pushes'[Len(pushes) + 1] = q
    /\ inbox' = inbox \cup {Len(pushes) + 1}
    /\ \A k \in Keys :
         /\ q.tree[Place(k)] = remote'.live[k]
         /\ Place(k) \in Sync!AddedModified(q.commits) <=>
              remote'.live[k] # None /\ remote'.live[k] # remote.live[k]
         /\ Place(k) \in Sync!Removed(q.commits) <=>
              remote'.live[k] = None /\ remote.live[k] # None

\* GitHub announces nothing, or the one push there is.
LEMMA Announcements ==
  ASSUME AccordTypeOK, TypeOK', Announced
  PROVE  /\ PushesKept
         /\ UNCHANGED <<remote, pushes, inbox>> \/ \E q : Pushed(q)
<1>0. pushes \in Seq(Sync!PushEvents) /\ remote \in Tree /\ remote' \in Tree
  BY DEF AccordTypeOK, TypeOK, WorkerTypeOK
<1>1. CASE remote' = remote
  BY <1>1 DEF Announced, PushesKept
<1>2. CASE remote' # remote
  <2>1. PICK q : /\ pushes' = Append(pushes, q)
                 /\ inbox' = inbox \cup {Len(pushes) + 1}
                 /\ q \in Sync!PushEvents \/ Files(remote') \notin Sync!Revisions
                 /\ q.tree = Files(remote')
                 /\ \A p \in DOMAIN PathOrder :
                      /\ p \in Sync!AddedModified(q.commits) <=>
                           Files(remote')[p] # None /\ Files(remote')[p] # Files(remote)[p]
                      /\ p \in Sync!Removed(q.commits) <=>
                           Files(remote')[p] = None /\ Files(remote)[p] # None
    BY <1>2, PushMade
  <2>2. q \in Sync!PushEvents
    BY <1>0, <2>1, FilesOfTree
  <2>3. /\ DOMAIN pushes' = DOMAIN pushes \cup {Len(pushes) + 1}
        /\ Len(pushes) + 1 \notin DOMAIN pushes
        /\ pushes'[Len(pushes) + 1] = q
        /\ PushesKept
    BY <1>0, <2>1, <2>2 DEF PushesKept
  <2>4. ASSUME NEW k \in Keys
        PROVE  /\ q.tree[Place(k)] = remote'.live[k]
               /\ Place(k) \in Sync!AddedModified(q.commits) <=>
                    remote'.live[k] # None /\ remote'.live[k] # remote.live[k]
               /\ Place(k) \in Sync!Removed(q.commits) <=>
                    remote'.live[k] = None /\ remote.live[k] # None
    <3>1. /\ Place(k) \in DOMAIN PathOrder
          /\ Files(remote)[Place(k)] = remote.live[k]
          /\ Files(remote')[Place(k)] = remote'.live[k]
      BY <1>0, Places, FilesOfTree
    <3> QED BY <2>1, <3>1
  <2> QED BY <2>1, <2>2, <2>3, <2>4 DEF Pushed
<1> QED BY <1>1, <1>2

\* What people asked for and what applies left has its types.
LEMMA HistoryTypes ==
  ASSUME AccordTypeOK, [AccordNext]_allVars
  PROVE  /\ wanted' \in [Keys -> File] /\ hasty' \in BOOLEAN
         /\ asked' \in [Keys -> Nat] /\ left' \in [Keys -> Nat]
<1>1. ASSUME NEW k \in Keys, NEW c \in Owned(k), Wants(k, c)
      PROVE  /\ wanted' \in [Keys -> File] /\ hasty' \in BOOLEAN
             /\ asked' \in [Keys -> Nat] /\ left' \in [Keys -> Nat]
  <2>1. c \in File
    BY DEF Owned, Declared, File
  <2>2. wanted' \in [Keys -> File] /\ asked' \in [Keys -> Nat] /\ left' \in [Keys -> Nat]
    BY <1>1, <2>1 DEF Wants, AccordTypeOK
  <2>3. hasty' \in BOOLEAN
    BY <1>1 DEF Wants
  <2> QED BY <2>2, <2>3
<1>2. CASE UNCHANGED historyVars
  BY <1>2 DEF historyVars, AccordTypeOK
<1>3. ASSUME NEW h \in Handlers, ServeWatched(h)
      PROVE  UNCHANGED <<wanted, hasty, asked>> /\ left' \in [Keys -> Nat]
  <2>1. \A k \in Keys : left[k] \in Nat /\ left[k] + 1 \in Nat
    BY DEF AccordTypeOK
  <2>2. \A k \in Keys : (IF OthersLeft(k) THEN left[k] + 1 ELSE left[k]) \in Nat
    BY <2>1
  <2> QED BY <1>3, <2>2 DEF ServeWatched
<1>4. \A k \in Keys : None \in Owned(k) /\ Declared(k) \subseteq Owned(k)
  BY DEF Owned
<1> QED BY <1>1, <1>2, <1>3, <1>4, AccordKinds DEF AccordTypeOK

\* A request stays a request.
LEMMA RequestTypes ==
  ASSUME AccordTypeOK, PushesInv, RequestInv, NEW h \in Handlers, Sync!Serve(h)
  PROVE  handlers' \in [Handlers -> Sync!Requests] /\ reported' \subseteq Keys
<1>0. /\ handlers \in [Handlers -> Sync!Requests]
      /\ handlers[h] \in Sync!Requests
      /\ reported \subseteq Keys
  BY DEF AccordTypeOK
<1>1. CASE Opens(h)
  <2>1. handlers[h].commits \in Seq(Sync!FileLists)
    BY <1>0 DEF Sync!Requests
  <2>2. [handlers[h] EXCEPT !.stage = "loop", !.live = TRUE,
                            !.apply = Sync!AddedModified(handlers[h].commits),
                            !.delete = Sync!Removed(handlers[h].commits)] \in Sync!Requests
    BY <1>0, <2>1, ListTypes DEF Sync!Requests, Sync!Stages
  <2> QED BY <1>0, <1>1, <2>2 DEF Opens
<1>2. CASE Fetches(h)
  <2>1. Sync!Path(h) \in Sync!Paths
    BY <1>2, CurrentPath, SameNames DEF Fetches
  <2>2. handlers[h].tree[Sync!Path(h)] \in Contents \cup {None}
    BY <1>0, <2>1 DEF Sync!Requests, Sync!Revisions
  <2>3. [handlers[h] EXCEPT !.stage = "fetched", !.raw = handlers[h].tree[Sync!Path(h)]] \in Sync!Requests
    BY <1>0, <2>2 DEF Sync!Requests, Sync!Stages
  <2> QED BY <1>0, <1>2, <2>3 DEF Fetches
<1>3. CASE Advances(h) /\ reported' \subseteq Keys
  <2>1. [handlers[h] EXCEPT !.stage = "loop", !.raw = None,
                            !.apply = handlers[h].apply \ {Sync!Path(h)},
                            !.delete = handlers[h].delete \ {Sync!Path(h)}] \in Sync!Requests
    BY <1>0 DEF Sync!Requests, Sync!Stages
  <2> QED BY <1>0, <1>3, <2>1 DEF Advances
<1>4. CASE Answers(h)
  BY <1>0, <1>4, FreeType DEF Answers
<1> QED BY <1>0, <1>1, <1>2, <1>3, <1>4, RequestSteps DEF Skips, Settles

\* The files of the objects the request is about are theirs.
LEMMA RequestCluster ==
  ASSUME AccordBase, NEW h \in Handlers, Sync!Serve(h)
  PROVE  \/ UNCHANGED cluster
         \/ \E k \in Keys : \E f \in Owned(k) : \E o \in ObjectsFor(f) :
               cluster' = [cluster EXCEPT ![k] = o]
  BY RequestEffect, LeftIsListed DEF AccordBase

\* Every step keeps the types.
LEMMA AccordTypeNext == AccordBase /\ [AccordNext]_allVars => AccordTypeOK'
<1> SUFFICES ASSUME AccordBase, [AccordNext]_allVars PROVE AccordTypeOK'
  OBVIOUS
<1>0. AccordTypeOK /\ TypeOK /\ RequestInv /\ PushesInv
  BY DEF AccordBase, AccordTypeOK
<1>h. /\ wanted' \in [Keys -> File] /\ hasty' \in BOOLEAN
      /\ asked' \in [Keys -> Nat] /\ left' \in [Keys -> Nat]
  BY <1>0, HistoryTypes
<1>1. CASE ControllerStep
  <2>1. TypeOK'
    BY <1>0, <1>1, TypeNext DEF ControllerStep
  <2>2. pushes' \in Seq(Sync!PushEvents) /\ inbox' \subseteq DOMAIN pushes'
    <3>1. pushes \in Seq(Sync!PushEvents) /\ inbox \subseteq DOMAIN pushes
      BY <1>0 DEF AccordTypeOK
    <3> QED BY <1>0, <1>1, <2>1, <3>1, Announcements DEF ControllerStep, Pushed
  <2> QED BY <1>0, <1>1, <1>h, <2>1, <2>2 DEF AccordTypeOK, ControllerStep
<1>2. ASSUME NEW h \in Handlers, ServeWatched(h) PROVE AccordTypeOK'
  <2>1. Sync!Serve(h) /\ UNCHANGED <<workerVars, cache, rec, count>>
    BY <1>2 DEF ServeWatched
  <2>2. cluster' \in [Keys -> Objects \cup {Absent}]
    BY <1>0, <2>1, RequestCluster, ObjectsForFile DEF TypeOK
  <2>3. queue' \subseteq Keys
    BY <1>0, <1>2 DEF ServeWatched, TypeOK
  <2>4. TypeOK'
    BY <1>0, <2>1, <2>2, <2>3 DEF TypeOK, WorkerTypeOK, workerVars
  <2>5. UNCHANGED <<pushes, inbox>> /\ handlers' \in [Handlers -> Sync!Requests] /\ reported' \subseteq Keys
    BY <1>0, <2>1, RequestKept, RequestTypes
  <2> QED BY <1>0, <1>h, <2>4, <2>5 DEF AccordTypeOK
<1>3. ASSUME NEW h \in Handlers, NEW i \in inbox, Sync!Deliver(h, i, "received"), UNCHANGED vars PROVE AccordTypeOK'
  <2>1. TypeOK'
    BY <1>0, <1>3, TypeNext
  <2>2. pushes[i] \in Sync!PushEvents
    BY <1>0 DEF AccordTypeOK
  <2>3. [Sync!Free EXCEPT !.stage = "received", !.tree = pushes[i].tree,
                          !.commits = pushes[i].commits, !.defects = {}] \in Sync!Requests
    BY <2>2, FreeType DEF Sync!Requests, Sync!PushEvents, Sync!Stages
  <2>4. handlers' \in [Handlers -> Sync!Requests]
    BY <1>0, <1>3, <2>3 DEF Sync!Deliver, Sync!Receive, AccordTypeOK
  <2> QED BY <1>0, <1>3, <1>h, <2>1, <2>4 DEF Sync!Deliver, AccordTypeOK
<1> QED BY <1>0, <1>1, <1>2, <1>3, AccordSteps

\* A reconcile that ends, or begins for another object, is none of k.
LEMMA RecMoves ==
  ASSUME TypeOK, NEW j \in Keys, NEW k \in Keys, ReconcileGet(j) \/ Reconcile(j)
  PROVE  /\ ReconcileGet(j) /\ j = k => /\ rec'[KindOf[k]] = [key |-> k, obj |-> cluster[k]]
                                       /\ rec[KindOf[k]].key # k
         /\ Reconcile(j) /\ j = k => rec'[KindOf[k]].key # k /\ rec[KindOf[k]].key = k
         /\ j # k => \/ rec'[KindOf[k]] = rec[KindOf[k]]
                     \/ rec'[KindOf[k]].key # k /\ rec[KindOf[k]].key # k
<1>0. KindOf[k] \in Kinds /\ KindOf[j] \in Kinds /\ Idle.key = None /\ None \notin Keys
  BY KindOfAssumption, NoneAssumption DEF Idle
<1>1. rec \in [Kinds -> Reconciles]
  BY DEF TypeOK
<1>2. CASE ReconcileGet(j)
  <2>1. /\ rec' = [rec EXCEPT ![KindOf[j]] = [key |-> j, obj |-> cluster[j]]]
        /\ rec[KindOf[j]] = Idle
    BY <1>2 DEF ReconcileGet
  <2>2. ~Reconcile(j)
    BY <1>0, <2>1 DEF Reconcile, ReconcileArchive, ReconcileIgnore, ReconcileExport, Finish
  <2> QED BY <1>0, <1>1, <2>1, <2>2
<1>3. CASE Reconcile(j)
  <2>1. rec[KindOf[j]].key = j /\ rec' = [rec EXCEPT ![KindOf[j]] = Idle]
    BY <1>3 DEF Reconcile, ReconcileArchive, ReconcileIgnore, ReconcileExport, Finish
  <2>2. ~ReconcileGet(j)
    BY <1>0, <2>1 DEF ReconcileGet
  <2> QED BY <1>0, <1>1, <2>1, <2>2
<1> QED BY <1>2, <1>3

\* No step gives an object a file of another.
LEMMA OwnNext == AccordBase /\ [AccordNext]_allVars => OwnInv'
<1> SUFFICES ASSUME AccordBase, [AccordNext]_allVars, NEW k \in Keys
             PROVE  /\ remote'.live[k] \in Owned(k)
                    /\ cluster'[k].material \in Owned(k)
                    /\ pending'[k].content \in Owned(k)
                    /\ batch'[k].content \in Owned(k)
                    /\ rec'[KindOf[k]].key = k => rec'[KindOf[k]].obj.material \in Owned(k)
  BY DEF OwnInv, Owned, Declared
<1>0. TypeOK /\ WorkerTypeOK /\ WorkerInv
  BY DEF AccordBase, AccordTypeOK, TypeOK, BaseInv
<1>o. /\ remote.live[k] \in Owned(k)
      /\ cluster[k].material \in Owned(k)
      /\ pending[k].content \in Owned(k)
      /\ batch[k].content \in Owned(k)
      /\ rec[KindOf[k]].key = k => rec[KindOf[k]].obj.material \in Owned(k)
  BY DEF AccordBase, OwnInv
<1>n. None \in Owned(k) /\ NoOp.content = None
  BY DEF Owned, NoOp
<1> HIDE DEF Owned
<1>1. ASSUME NEW j \in Keys, ReconcileGet(j) \/ Reconcile(j)
      PROVE  /\ UNCHANGED <<remote, cluster, batch>>
             /\ pending'[k].content \in Owned(k)
             /\ rec'[KindOf[k]].key = k => rec'[KindOf[k]].obj.material \in Owned(k)
  <2>1. UNCHANGED <<remote, cluster, batch>>
    BY <1>1 DEF ReconcileGet, Reconcile, ReconcileArchive, ReconcileIgnore, ReconcileExport, Finish,
                workerVars
  <2>2. rec'[KindOf[k]].key = k => rec'[KindOf[k]].obj.material \in Owned(k)
    <3>1. CASE j # k
      BY <1>0, <1>1, <1>o, <3>1, RecMoves
    <3>2. CASE j = k /\ Reconcile(j)
      BY <1>0, <3>2, RecMoves
    <3>3. CASE j = k /\ ReconcileGet(j)
      <4>1. rec'[KindOf[k]] = [key |-> k, obj |-> cluster[k]]
        BY <1>0, <3>3, RecMoves
      <4> QED BY <1>o, <4>1
    <3> QED BY <1>1, <3>1, <3>2, <3>3
  <2>3. CASE UNCHANGED pending
    BY <1>o, <2>1, <2>2, <2>3
  <2>4. CASE Reconcile(j) /\ \E c \in {WriteOp(rec[KindOf[j]].obj.material), ArchiveOp} :
                                pending' = [pending EXCEPT ![j] = c]
    <3>1. PICK c \in {WriteOp(rec[KindOf[j]].obj.material), ArchiveOp} :
              pending' = [pending EXCEPT ![j] = c]
      BY <2>4
    <3>2. c.content = rec[KindOf[j]].obj.material \/ c.content = None
      BY <3>1 DEF WriteOp, ArchiveOp
    <3>3. rec[KindOf[j]].key = j
      BY <1>0, <2>4, RecMoves
    <3>4. pending'[k] = IF j = k THEN c ELSE pending[k]
      BY <1>0, <3>1 DEF WorkerTypeOK, Batches
    <3> QED BY <1>n, <1>o, <2>1, <2>2, <3>2, <3>3, <3>4
  <2> QED BY <1>1, <2>3, <2>4 DEF ReconcileGet, Reconcile, ReconcileArchive, ReconcileIgnore,
             ReconcileExport, RenderError, Enqueue, EnqueueArchive, workerVars
<1>2. ASSUME NEW j \in Keys, NEW c \in Declared(j), UserEdit(j, c)
      PROVE  UNCHANGED <<workerVars, rec>> /\ cluster'[k].material \in Owned(k)
  <2>1. cluster' = [cluster EXCEPT ![j].material = c] /\ UNCHANGED <<workerVars, rec>>
    BY <1>2 DEF UserEdit
  <2>2. cluster'[k].material = IF j = k THEN c ELSE cluster[k].material
    BY <1>0, <2>1 DEF TypeOK, Objects, Absent
  <2> QED BY <1>o, <2>1, <2>2 DEF Owned
<1>3. ASSUME NEW j \in Keys, UserDelete(j)
      PROVE  UNCHANGED <<workerVars, rec>> /\ cluster'[k].material \in Owned(k)
  <2>1. cluster' = [cluster EXCEPT ![j] = Absent] /\ UNCHANGED <<workerVars, rec>>
    BY <1>3 DEF UserDelete
  <2>2. cluster'[k].material = IF j = k THEN None ELSE cluster[k].material
    BY <1>0, <2>1 DEF TypeOK, Absent
  <2> QED BY <1>n, <1>o, <2>1, <2>2
<1>4. ASSUME NEW j \in Keys, NEW c \in Owned(j), GitEdit(j, c)
      PROVE  UNCHANGED <<pending, batch, cluster, rec>> /\ remote'.live[k] \in Owned(k)
  <2>1. remote'.live = [remote.live EXCEPT ![j] = c] /\ UNCHANGED <<pending, batch, cluster, rec>>
    BY <1>4 DEF GitEdit, ForeignCommit, controllerVars
  <2>2. remote'.live[k] = IF j = k THEN c ELSE remote.live[k]
    BY <1>0, <2>1 DEF WorkerTypeOK, Tree
  <2> QED BY <1>o, <2>1, <2>2
<1>5. ASSUME Restart \/ Flush \/ Fault
      PROVE  /\ remote'.live[k] \in Owned(k)
             /\ UNCHANGED cluster
             /\ pending'[k].content \in Owned(k)
             /\ batch'[k].content \in Owned(k)
             /\ rec'[KindOf[k]].key = k => rec'[KindOf[k]].obj.material \in Owned(k)
  <2>1. FlushStep \/ FaultStep \/ Lost
    BY <1>5 DEF Restart, Flush, Fault, Lost
  <2>2. UNCHANGED cluster /\ (UNCHANGED rec \/ rec'[KindOf[k]].key # k)
    BY <1>5, KindOfAssumption, NoneAssumption DEF Restart, Flush, Fault, controllerVars, Idle
  <2>3. ASSUME remote' = ApplyBatch(remote, batch) PROVE remote'.live[k] \in Owned(k)
    <3>1. remote'.live[k] = After(batch[k], remote.live[k])
      BY <1>0, <2>3, ApplyBatchLive DEF WorkerTypeOK
    <3>2. batch[k].kind \in {"none", "archive", "write"}
      BY <1>0, OpKinds DEF WorkerTypeOK, Batches
    <3> QED BY <1>n, <1>o, <3>1, <3>2 DEF After
  <2> QED BY <1>0, <1>n, <1>o, <2>1, <2>2, <2>3, WorkerMoves
<1>6. ASSUME NEW h \in Handlers, ServeWatched(h)
      PROVE  UNCHANGED <<workerVars, rec>> /\ cluster'[k].material \in Owned(k)
  <2>1. UNCHANGED <<workerVars, rec>> /\ Sync!Serve(h)
    BY <1>6 DEF ServeWatched
  <2>2. CASE UNCHANGED cluster
    BY <1>o, <2>1, <2>2
  <2>3. ASSUME NEW j \in Keys, NEW f \in Owned(j), NEW o \in ObjectsFor(f),
               cluster' = [cluster EXCEPT ![j] = o]
        PROVE  cluster'[k].material \in Owned(k)
    <3>1. cluster'[k] = IF j = k THEN o ELSE cluster[k]
      BY <1>0, <2>3 DEF TypeOK
    <3> QED BY <1>o, <3>1, ObjectsForFile
  <2> QED BY <2>1, <2>2, <2>3, RequestCluster
<1>7. CASE UNCHANGED vars
  BY <1>7, <1>o DEF vars, workerVars, controllerVars
<1> QED BY <1>1, <1>2, <1>3, <1>4, <1>5, <1>6, <1>7, <1>o, AccordKinds DEF workerVars

\* No step takes a push back, and every push is of the files of their objects.
LEMMA PushesNext ==
  ASSUME AccordBase, [AccordNext]_allVars, AccordTypeOK', OwnInv'
  PROVE  PushesInv' /\ PushesKept
<1>0. AccordTypeOK /\ TypeOK /\ RequestInv /\ PushesInv /\ TypeOK'
  BY DEF AccordBase, AccordTypeOK
<1>1. CASE UNCHANGED pushes
  BY <1>0, <1>1 DEF PushesInv, PushesKept, Owned, Declared
<1>2. CASE ControllerStep
  <2>1. PushesKept /\ (UNCHANGED pushes \/ \E q : Pushed(q))
    BY <1>0, <1>2, Announcements DEF ControllerStep
  <2>2. ASSUME NEW q, Pushed(q) PROVE PushesInv'
    <3> SUFFICES ASSUME NEW i \in DOMAIN pushes', NEW k \in Keys
                 PROVE  /\ pushes'[i].tree[Place(k)] \in Owned(k)
                        /\ Place(k) \in Sync!AddedModified(pushes'[i].commits) =>
                             pushes'[i].tree[Place(k)] # None
                        /\ Place(k) \in Sync!Removed(pushes'[i].commits) =>
                             pushes'[i].tree[Place(k)] = None
      BY DEF PushesInv, Owned, Declared, Sync!AddedModified, Sync!Removed, Place
    <3>1. CASE i \in DOMAIN pushes
      BY <1>0, <2>1, <3>1 DEF PushesKept, PushesInv
    <3>2. CASE i = Len(pushes) + 1
      <4>1. remote'.live[k] \in Owned(k)
        BY DEF OwnInv, Owned, Declared
      <4> QED BY <2>2, <3>2, <4>1 DEF Pushed
    <3> QED BY <2>2, <3>1, <3>2 DEF Pushed
  <2> QED BY <1>1, <2>1, <2>2
<1>3. ASSUME NEW h \in Handlers, ServeWatched(h) PROVE UNCHANGED pushes
  BY <1>0, <1>3, RequestKept DEF ServeWatched
<1>4. ASSUME NEW h \in Handlers, NEW i \in inbox, Sync!Deliver(h, i, "received") PROVE UNCHANGED pushes
  BY <1>4 DEF Sync!Deliver
<1> QED BY <1>0, <1>1, <1>2, <1>3, <1>4, AccordSteps

\* Every request stays one for a push that was announced.
LEMMA RequestNext ==
  ASSUME AccordBase, [AccordNext]_allVars, PushesKept
  PROVE  RequestInv'
<1>0. AccordTypeOK /\ TypeOK /\ RequestInv /\ PushesInv /\ handlers \in [Handlers -> Sync!Requests]
  BY DEF AccordBase, AccordTypeOK
<1> SUFFICES ASSUME NEW g \in Handlers PROVE Sound(g)'
  BY DEF RequestInv
<1>k. ASSUME handlers'[g] = handlers[g] PROVE Sound(g)'
  <2>1. /\ Sync!Applying(g)' = Sync!Applying(g)
        /\ Sync!Path(g)' = Sync!Path(g)
        /\ Sync!Target(g)' = Sync!Target(g)
    BY <1>k DEF Sync!Applying, Sync!Path, Sync!Target
  <2>2. Sound(g)
    BY <1>0 DEF RequestInv
  <2> QED BY <1>k, <2>1, <2>2 DEF Sound, PushesKept
<1>1. CASE ControllerStep
  BY <1>1, <1>k DEF ControllerStep
<1>2. ASSUME NEW h \in Handlers, ServeWatched(h) PROVE Sound(g)'
  <2>1. Sync!Serve(h)
    BY <1>2 DEF ServeWatched
  <2>2. Sound(h)' /\ \A f \in Handlers \ {h} : handlers'[f] = handlers[f]
    BY <1>0, <2>1, RequestKept
  <2> QED BY <1>k, <2>2
<1>3. ASSUME NEW h \in Handlers, NEW i \in inbox, Sync!Deliver(h, i, "received") PROVE Sound(g)'
  <2>1. CASE g # h
    BY <1>0, <1>3, <1>k, <2>1 DEF Sync!Deliver, Sync!Receive
  <2>2. CASE g = h
    <3>1. handlers'[g] = [Sync!Free EXCEPT !.stage = "received", !.tree = pushes[i].tree,
                                           !.commits = pushes[i].commits, !.defects = {}]
      BY <1>0, <1>3, <2>2 DEF Sync!Deliver, Sync!Receive
    <3>2. /\ handlers'[g].stage = "received"
          /\ handlers'[g].tree = pushes[i].tree
          /\ handlers'[g].commits = pushes[i].commits
          /\ handlers'[g].defects = {}
      BY <3>1 DEF Sync!Free
    <3>3. i \in DOMAIN pushes' /\ pushes'[i] = pushes[i]
      BY <1>0 DEF AccordTypeOK, PushesKept
    <3> QED BY <3>2, <3>3 DEF Sound
  <2> QED BY <2>1, <2>2
<1> QED BY <1>0, <1>1, <1>2, <1>3, AccordSteps

\* Every step keeps AccordBase.
LEMMA AccordBaseNext == AccordBase /\ [AccordNext]_allVars => AccordBase' /\ PushesKept
<1> SUFFICES ASSUME AccordBase, [AccordNext]_allVars PROVE AccordBase' /\ PushesKept
  OBVIOUS
<1>0. TypeOK /\ BaseInv
  BY DEF AccordBase, AccordTypeOK
<1>1. AccordTypeOK' /\ OwnInv'
  BY AccordTypeNext, OwnNext
<1>2. PushesInv' /\ PushesKept
  BY <1>1, PushesNext
<1>3. RequestInv'
  BY <1>2, RequestNext
<1>4. BaseInv'
  <2>1. ASSUME NEW h \in Handlers, ServeWatched(h) PROVE BaseInv'
    <3>1. UNCHANGED <<pending, phase, batch, clone, remote>>
      BY <2>1 DEF ServeWatched, workerVars
    <3> QED BY <1>0, <3>1, QuietWorkerInv DEF BaseInv, RenderedOnly
  <2> QED BY <1>0, <2>1, AccordSteps, BaseNext DEF ControllerStep
<1> QED BY <1>1, <1>2, <1>3, <1>4 DEF AccordBase

\* The pushes, the deliveries, the requests and the histories keep their types,
\* whatever the two programs, GitHub and people do.
THEOREM AccordTypeCorrect == AccordSpec => []AccordTypeOK
<1>1. AccordInit => AccordBase
  BY AccordBaseInit
<1>2. AccordBase /\ [AccordNext]_allVars => AccordBase'
  BY AccordBaseNext
<1>3. AccordBase => AccordTypeOK
  BY DEF AccordBase
<1> QED BY <1>1, <1>2, <1>3, PTL DEF AccordSpec

-----------------------------------------------------------------------------
(* Every write of a manifest has a cause.                                  *)

\* The reconcile of k and the object it has read.
Reading(k) == rec[KindOf[k]].key = k
Obj(k) == rec[KindOf[k]].obj

\* The reconciler would export o if hash were in the cache.
News(o, hash) == Present(o) /\ ~AnnotationMatches(o) /\ hash # MaterialHash(o.material)

\* What is in the cache for k once the reconcile under way has ended.
NextCache(k) ==
    IF ~Reading(k) THEN cache[k]
    ELSE IF ~Present(Obj(k)) THEN None
    ELSE IF AnnotationMatches(Obj(k)) THEN cache[k]
    ELSE MaterialHash(Obj(k).material)

\* The writes of k that are on their way: in the cluster, read by a reconcile, in the
\* queue and in the batch of the flush.
Unread(k) == News(cluster[k], NextCache(k))
Read(k) == Reading(k) /\ News(Obj(k), cache[k])
Waiting(k) == pending[k].kind = "write"
Taken(k) == batch[k].kind = "write"

Unit(b) == IF b THEN 1 ELSE 0

OnTheWay(k) == Unit(Unread(k)) + Unit(Read(k)) + Unit(Waiting(k)) + Unit(Taken(k))

\* The writes done and those on their way were asked for, or go back to an apply that
\* left fields of others, or are the price of a failed export or of a restart.
PaidFor ==
    \A k \in Keys :
        Cardinality(Writes(k)) + OnTheWay(k) <= asked[k] + left[k] + count["fault"] + count["restart"]

\* The pushes that write the live file of k are those that list its place.
LEMMA WritesAtPlace ==
  ASSUME NEW k \in Keys
  PROVE  /\ Writes(k) = {i \in DOMAIN pushes : Place(k) \in Sync!AddedModified(pushes[i].commits)}
         /\ Writes(k)' = {i \in DOMAIN pushes' : Place(k) \in Sync!AddedModified(pushes'[i].commits)}
<1>1. \A p \in DOMAIN PathOrder : IsLive[p] /\ ObjectOf[p] = k <=> p = Place(k)
  BY Places, OtherPlaces
<1>2. Place(k) \in DOMAIN PathOrder
  BY Places
<1> QED BY <1>1, <1>2 DEF Writes

\* There are finitely many of them.
LEMMA WritesFinite ==
  ASSUME AccordTypeOK, NEW k \in Keys
  PROVE  IsFiniteSet(Writes(k)) /\ Cardinality(Writes(k)) \in Nat
<1>1. Writes(k) \subseteq 1..Len(pushes) /\ Len(pushes) \in Nat
  BY DEF AccordTypeOK, Writes
<1>2. IsFiniteSet(1..Len(pushes))
  BY <1>1, FS_Interval
<1>3. IsFiniteSet(Writes(k))
  BY <1>1, <1>2, FS_Subset
<1> QED BY <1>3, FS_CardinalityType

\* A step adds a write of k only by changing the live file of k into another one.
LEMMA WritesNext ==
  ASSUME AccordBase, AccordBase', [AccordNext]_allVars, NEW k \in Keys
  PROVE  /\ Cardinality(Writes(k)) \in Nat /\ Cardinality(Writes(k))' \in Nat
         /\ Cardinality(Writes(k))' <= Cardinality(Writes(k)) + 1
         /\ remote'.live[k] \in {None, remote.live[k]} =>
              Cardinality(Writes(k))' = Cardinality(Writes(k))
<1>0. AccordTypeOK /\ TypeOK /\ RequestInv /\ PushesInv /\ TypeOK'
  BY DEF AccordBase, AccordTypeOK
<1>1. IsFiniteSet(Writes(k)) /\ Cardinality(Writes(k)) \in Nat
  BY <1>0, WritesFinite
<1>2. Writes(k) = {i \in DOMAIN pushes : Place(k) \in Sync!AddedModified(pushes[i].commits)}
  BY WritesAtPlace
<1>3. Writes(k)' = {i \in DOMAIN pushes' : Place(k) \in Sync!AddedModified(pushes'[i].commits)}
  BY WritesAtPlace
<1>4. CASE UNCHANGED pushes
  <2>1. Writes(k)' = Writes(k)
    BY <1>2, <1>3, <1>4
  <2> QED BY <1>1, <2>1
<1>5. CASE ControllerStep
  <2>1. PushesKept /\ (UNCHANGED pushes \/ \E q : Pushed(q))
    BY <1>0, <1>5, Announcements DEF ControllerStep
  <2>2. ASSUME NEW q, Pushed(q)
        PROVE  /\ Cardinality(Writes(k)') \in Nat
               /\ Cardinality(Writes(k)') <= Cardinality(Writes(k)) + 1
               /\ remote'.live[k] \in {None, remote.live[k]} =>
                    Cardinality(Writes(k)') = Cardinality(Writes(k))
    <3>1. CASE Place(k) \in Sync!AddedModified(q.commits)
      <4>1. Writes(k)' = Writes(k) \cup {Len(pushes) + 1}
        BY <1>2, <1>3, <2>1, <2>2, <3>1 DEF Pushed, PushesKept
      <4>2. remote'.live[k] \notin {None, remote.live[k]}
        BY <2>2, <3>1 DEF Pushed
      <4>3. /\ Cardinality(Writes(k)') \in Nat
            /\ Cardinality(Writes(k)') <= Cardinality(Writes(k)) + 1
        <5>1. Cardinality(Writes(k) \cup {Len(pushes) + 1}) \in
                {Cardinality(Writes(k)), Cardinality(Writes(k)) + 1}
          BY <1>1, FS_AddElement
        <5> QED BY <1>1, <4>1, <5>1
      <4> QED BY <4>2, <4>3
    <3>2. CASE Place(k) \notin Sync!AddedModified(q.commits)
      <4>1. Writes(k)' = Writes(k)
        BY <1>2, <1>3, <2>1, <2>2, <3>2 DEF Pushed, PushesKept
      <4> QED BY <1>1, <4>1
    <3> QED BY <3>1, <3>2
  <2> QED BY <1>1, <1>4, <2>1, <2>2
<1>6. ASSUME NEW h \in Handlers, ServeWatched(h) PROVE UNCHANGED pushes
  BY <1>0, <1>6, RequestKept DEF ServeWatched
<1>7. ASSUME NEW h \in Handlers, NEW i \in inbox, Sync!Deliver(h, i, "received") PROVE UNCHANGED pushes
  BY <1>7 DEF Sync!Deliver
<1> QED BY <1>0, <1>4, <1>5, <1>6, <1>7, AccordSteps

\* A reconcile carries a write on and never makes a second one of it: reading the
\* object takes it out of the cluster, exporting it takes it out of the reconcile.
LEMMA ReconcileDues ==
  ASSUME TypeOK, NEW j \in Keys, NEW k \in Keys, ReconcileGet(j) \/ Reconcile(j)
  PROVE  OnTheWay(k)' <= OnTheWay(k)
<1>0. UNCHANGED <<cluster, batch>> /\ (ReconcileGet(j) => UNCHANGED <<cache, pending>>)
  BY DEF ReconcileGet, Reconcile, ReconcileArchive, ReconcileIgnore, ReconcileExport, Finish, workerVars
<1>1. Taken(k)' = Taken(k)
  BY <1>0 DEF Taken
<1>2. CASE j # k
  <2>1. cache'[k] = cache[k] /\ pending'[k] = pending[k]
    <3>1. cache'[k] = cache[k]
      BY <1>2 DEF ReconcileGet, Reconcile, ReconcileArchive, ReconcileIgnore, ReconcileExport, TypeOK
    <3>2. Reconcile(j) => pending'[k] = pending[k]
      BY <1>2, ReconcilePending DEF TypeOK, WorkerTypeOK, Batches
    <3> QED BY <1>0, <3>1, <3>2
  <2>2. NextCache(k)' = NextCache(k) /\ Read(k)' = Read(k)
    <3>1. CASE rec'[KindOf[k]] = rec[KindOf[k]]
      BY <2>1, <3>1 DEF NextCache, Reading, Obj, Read, News, Present, AnnotationMatches, MaterialHash
    <3>2. CASE ~Reading(k)' /\ ~Reading(k)
      BY <2>1, <3>2 DEF NextCache, Read
    <3> QED BY <1>2, <3>1, <3>2, RecMoves DEF Reading
  <2>3. Unread(k)' = Unread(k) /\ Waiting(k)' = Waiting(k)
    BY <1>0, <2>1, <2>2 DEF Unread, Waiting, News, Present, AnnotationMatches, MaterialHash
  <2> QED BY <1>1, <2>2, <2>3 DEF OnTheWay, Unit
<1>3. CASE j = k /\ ReconcileGet(k)
  <2>1. ~Reading(k) /\ Reading(k)' /\ Obj(k)' = cluster[k] /\ UNCHANGED <<cluster, cache, pending>>
    <3>1. rec'[KindOf[k]] = [key |-> k, obj |-> cluster[k]] /\ rec[KindOf[k]].key # k
      BY <1>3, RecMoves
    <3> QED BY <1>0, <1>3, <3>1 DEF Reading, Obj
  <2>2. Unread(k) = News(cluster[k], cache[k]) /\ ~Read(k)
    BY <2>1 DEF Unread, NextCache, Read
  <2>3. Read(k)' = News(cluster[k], cache[k])
    BY <2>1 DEF Read, News, Present, AnnotationMatches, MaterialHash
  <2>4. ~Unread(k)'
    BY <2>1 DEF Unread, NextCache, News, Present, AnnotationMatches, MaterialHash
  <2>5. Waiting(k)' = Waiting(k)
    BY <2>1 DEF Waiting
  <2> QED BY <1>1, <2>2, <2>3, <2>4, <2>5 DEF OnTheWay, Unit
<1>4. CASE j = k /\ Reconcile(k)
  <2>1. Reading(k) /\ ~Reading(k)' /\ UNCHANGED cluster
    BY <1>0, <1>4, RecMoves DEF Reading
  <2>2. /\ cache'[k] = NextCache(k)
        /\ Waiting(k)' => Waiting(k) \/ Read(k)
    <3>0. k \in DOMAIN cache /\ k \in DOMAIN pending
      BY DEF TypeOK, WorkerTypeOK, Batches
    <3>1. CASE ReconcileArchive(k)
      <4>1. ~Present(Obj(k)) /\ cache'[k] = None /\ (pending'[k] = ArchiveOp \/ UNCHANGED pending)
        BY <3>0, <3>1 DEF ReconcileArchive, Obj, EnqueueArchive, RenderError
      <4> QED BY <2>1, <4>1 DEF NextCache, Waiting, ArchiveOp
    <3>2. CASE ReconcileIgnore(k)
      <4>1. Present(Obj(k)) /\ Known(k, Obj(k)) /\ UNCHANGED <<cache, pending>>
        BY <3>2 DEF ReconcileIgnore, Obj
      <4> QED BY <2>1, <4>1 DEF NextCache, Known, Waiting
    <3>3. CASE ReconcileExport(k)
      <4>1. Present(Obj(k)) /\ ~Known(k, Obj(k)) /\ cache'[k] = MaterialHash(Obj(k).material)
        BY <3>0, <3>3 DEF ReconcileExport, Obj
      <4> QED BY <2>1, <4>1 DEF NextCache, Known, Read, News
    <3> QED BY <1>4, <3>1, <3>2, <3>3 DEF Reconcile
  <2>3. Unread(k)' = Unread(k) /\ ~Read(k)'
    <3>1. NextCache(k)' = NextCache(k)
      BY <2>1, <2>2 DEF NextCache
    <3> QED BY <2>1, <3>1 DEF Unread, Read, News, Present, AnnotationMatches, MaterialHash
  <2> QED BY <1>1, <2>2, <2>3 DEF OnTheWay, Unit
<1> QED BY <1>2, <1>3, <1>4

\* The flush carries a write from the queue to Git, once; only a push whose answer is
\* lost is carried out and put back.
LEMMA WorkerDues ==
  ASSUME AccordBase, AccordBase', [AccordNext]_allVars, Flush \/ Fault, NEW k \in Keys
  PROVE  Cardinality(Writes(k))' + OnTheWay(k)' <=
            Cardinality(Writes(k)) + OnTheWay(k) + (IF Fault THEN 1 ELSE 0)
<1>0. WorkerTypeOK /\ WorkerInv /\ Cardinality(Writes(k)) \in Nat /\ Cardinality(Writes(k))' \in Nat
  BY WritesNext DEF AccordBase, AccordTypeOK, TypeOK, BaseInv
<1>1. (FlushStep \/ FaultStep) /\ UNCHANGED <<cluster, cache, rec>> /\ (Flush => FlushStep) /\ (Fault => FaultStep)
  BY DEF Flush, Fault, controllerVars
<1>2. Unread(k)' = Unread(k) /\ Read(k)' = Read(k)
  BY <1>1 DEF Unread, Read, NextCache, Reading, Obj, News, Present, AnnotationMatches, MaterialHash
<1>3. /\ Cardinality(Writes(k))' <= Cardinality(Writes(k)) + 1
      /\ remote'.live[k] \in {None, remote.live[k]} =>
           Cardinality(Writes(k))' = Cardinality(Writes(k))
  BY WritesNext
<1>n. NoOp.kind # "write"
  BY DEF NoOp
<1>4. CASE UNCHANGED remote
  <2>1. Cardinality(Writes(k))' = Cardinality(Writes(k))
    BY <1>3, <1>4
  <2>2. \/ pending'[k] = pending[k] /\ batch'[k] = batch[k]
        \/ pending'[k] = NoOp /\ batch'[k] = pending[k] /\ batch[k] = NoOp
        \/ pending'[k] \in {pending[k], batch[k], NoOp} /\ batch'[k] = NoOp
        \/ pending'[k] = NoOp /\ batch'[k] = batch[k]
    BY <1>0, <1>1, <1>4, WorkerMoves
  <2>3. Unit(Waiting(k)') + Unit(Taken(k)') <= Unit(Waiting(k)) + Unit(Taken(k))
    BY <1>n, <2>2 DEF Waiting, Taken, Unit
  <2> QED BY <1>0, <1>2, <2>1, <2>3 DEF OnTheWay, Unit
<1>5. CASE remote' # remote
  <2>1. /\ remote' = ApplyBatch(remote, batch)
        /\ pending'[k] = pending[k]
        /\ \/ Push /\ batch'[k] = NoOp
           \/ PushReplyLost /\ batch'[k] = batch[k]
    BY <1>0, <1>1, <1>5, WorkerMoves
  <2>2. ~Taken(k) => Cardinality(Writes(k))' = Cardinality(Writes(k))
    <3>1. ~Taken(k) => remote'.live[k] \in {None, remote.live[k]}
      BY <2>1 DEF ApplyBatch, Taken
    <3> QED BY <1>3, <3>1
  <2>3. Waiting(k)' = Waiting(k)
    BY <2>1 DEF Waiting
  <2>4. CASE Push /\ batch'[k] = NoOp
    <3>1. ~Taken(k)'
      BY <1>n, <2>4 DEF Taken
    <3> QED BY <1>0, <1>2, <1>3, <2>2, <2>3, <3>1 DEF OnTheWay, Unit
  <2>5. CASE PushReplyLost /\ batch'[k] = batch[k]
    <3>1. Fault
      <4>1. phase' = "failed"
        BY <2>5 DEF PushReplyLost
      <4>2. ~FlushStep
        BY <1>5, <4>1 DEF FlushStep, FlushTake, FlushDrop, Clone, SkipCommit, Commit, Push, FlushDone,
                          PushRejected, ArchiveError, Requeue
      <4> QED BY <1>1, <4>2
    <3>2. Taken(k)' = Taken(k)
      BY <2>5 DEF Taken
    <3> QED BY <1>0, <1>2, <1>3, <2>3, <3>1, <3>2 DEF OnTheWay, Unit
  <2> QED BY <2>1, <2>4, <2>5
<1> QED BY <1>4, <1>5

\* At the start only what Git does not know is to be written.
LEMMA PaidForInit == AccordInit => PaidFor
<1> SUFFICES ASSUME AccordInit, NEW k \in Keys
             PROVE  Cardinality(Writes(k)) + OnTheWay(k) <= asked[k] + left[k] + count["fault"] + count["restart"]
  BY DEF PaidFor
<1>1. DOMAIN pushes = {}
  BY DEF AccordInit
<1>2. Cardinality(Writes(k)) = 0
  BY <1>1, FS_EmptySet DEF Writes
<1>3. pending[k] = NoOp /\ batch[k] = NoOp
  BY DEF AccordInit, Init, NewBatchWorker, EmptyBatch
<1>4. ~Waiting(k) /\ ~Taken(k)
  BY <1>3 DEF Waiting, Taken, NoOp
<1>5. rec[KindOf[k]].key = None
  BY KindOfAssumption DEF AccordInit, Init, Idle
<1>6. ~Read(k)
  BY <1>5, NoneAssumption DEF Read, Reading
<1>7. Unread(k) => asked[k] = 1
  BY DEF AccordInit, Init, Unread, News
<1>8. asked[k] \in {0, 1} /\ left[k] = 0 /\ count["fault"] = 0 /\ count["restart"] = 0
  BY DEF AccordInit, Init, Events
<1> QED BY <1>2, <1>4, <1>6, <1>7, <1>8 DEF OnTheWay, Unit

\* Every step is paid for.
LEMMA PaidForNext == AccordBase /\ AccordBase' /\ PaidFor /\ [AccordNext]_allVars => PaidFor'
<1> SUFFICES ASSUME AccordBase, AccordBase', PaidFor, [AccordNext]_allVars, NEW k \in Keys
             PROVE  Cardinality(Writes(k))' + OnTheWay(k)' <=
                      asked'[k] + left'[k] + count'["fault"] + count'["restart"]
  BY DEF PaidFor
<1> DEFINE w == Cardinality(Writes(k))
           due == OnTheWay(k)
<1>0. AccordTypeOK /\ TypeOK /\ RequestInv /\ PushesInv /\ OwnInv
  BY DEF AccordBase, AccordTypeOK
<1>w. /\ w \in Nat /\ w' \in Nat /\ w' <= w + 1
      /\ remote'.live[k] \in {None, remote.live[k]} => w' = w
  BY WritesNext
<1>t. /\ due \in Nat /\ due' \in Nat
      /\ asked \in [Keys -> Nat] /\ left \in [Keys -> Nat] /\ count \in [Events -> Nat]
  BY <1>0 DEF OnTheWay, Unit, AccordTypeOK, TypeOK
<1>p. w + due <= asked[k] + left[k] + count["fault"] + count["restart"]
  BY DEF PaidFor
<1>c. count["fault"] \in Nat /\ count["restart"] \in Nat /\ asked[k] \in Nat /\ left[k] \in Nat
  BY <1>t DEF Events
<1> HIDE DEF w, due
<1>1. ASSUME NEW j \in Keys, ReconcileGet(j) \/ Reconcile(j), UNCHANGED historyVars
      PROVE  w' + due' <= asked'[k] + left'[k] + count'["fault"] + count'["restart"]
  <2>1. due' <= due
    BY <1>0, <1>1, ReconcileDues DEF due
  <2>2. UNCHANGED <<remote, count, asked, left>>
    BY <1>1 DEF ReconcileGet, Reconcile, ReconcileArchive, ReconcileIgnore, ReconcileExport, Finish,
                workerVars, historyVars
  <2> QED BY <1>w, <1>t, <1>p, <1>c, <2>1, <2>2
<1>2. ASSUME NEW j \in Keys, NEW c \in Contents \cup {None}, Wants(j, c),
             (UserEdit(j, c) /\ c # None) \/ (UserDelete(j) /\ c = None)
      PROVE  w' + due' <= asked'[k] + left'[k] + count'["fault"] + count'["restart"]
  <2>1. UNCHANGED <<pending, batch, remote, cache, rec, left>>
    BY <1>2 DEF UserEdit, UserDelete, workerVars, Wants
  <2>2. count'["fault"] = count["fault"] /\ count'["restart"] = count["restart"]
    BY <1>2, <1>t DEF UserEdit, UserDelete, Happens, Events
  <2>3. NextCache(k)' = NextCache(k) /\ Read(k)' = Read(k) /\ Waiting(k)' = Waiting(k) /\ Taken(k)' = Taken(k)
    BY <2>1 DEF NextCache, Read, Reading, Obj, News, Present, AnnotationMatches, MaterialHash, Waiting, Taken
  <2>4. j # k \/ c = None => (Unread(k)' => Unread(k)) /\ asked'[k] = asked[k]
    <3>1. CASE j # k
      <4>1. cluster'[k] = cluster[k] /\ asked'[k] = asked[k]
        BY <1>0, <1>2, <1>t, <3>1 DEF UserEdit, UserDelete, TypeOK, Wants
      <4> QED BY <2>3, <4>1 DEF Unread, News, Present, AnnotationMatches, MaterialHash
    <3>2. CASE j = k /\ c = None
      <4>1. cluster'[k] = Absent /\ asked'[k] = asked[k]
        BY <1>0, <1>2, <3>2 DEF UserDelete, TypeOK, Wants
      <4> QED BY <4>1 DEF Unread, News, Present, Absent
    <3> QED BY <3>1, <3>2
  <2>5. CASE j # k \/ c = None
    BY <1>w, <1>p, <1>c, <2>1, <2>2, <2>3, <2>4, <2>5 DEF due, OnTheWay, Unit
  <2>6. CASE j = k /\ c # None
    <3>1. asked'[k] = asked[k] + 1
      BY <1>2, <1>t, <2>6 DEF Wants
    <3> QED BY <1>w, <1>p, <1>c, <2>1, <2>2, <2>3, <3>1 DEF due, OnTheWay, Unit
  <2> QED BY <2>5, <2>6
<1>3. ASSUME NEW j \in Keys, NEW c \in Owned(j), GitEdit(j, c), Wants(j, c)
      PROVE  w' + due' <= asked'[k] + left'[k] + count'["fault"] + count'["restart"]
  <2>1. UNCHANGED <<pending, batch, cluster, cache, rec, left>>
    BY <1>3 DEF GitEdit, ForeignCommit, controllerVars, Wants
  <2>2. count'["fault"] = count["fault"] /\ count'["restart"] = count["restart"]
    BY <1>3, <1>t DEF GitEdit, Happens, Events
  <2>3. due' = due
    BY <2>1 DEF due, OnTheWay, Unread, NextCache, Read, Reading, Obj, News, Present, AnnotationMatches,
                MaterialHash, Waiting, Taken
  <2>4. remote'.live[k] = IF j = k THEN c ELSE remote.live[k]
    BY <1>0, <1>3 DEF GitEdit, ForeignCommit, TypeOK, WorkerTypeOK, Tree
  <2>5. asked'[k] = IF j = k /\ c # None THEN asked[k] + 1 ELSE asked[k]
    BY <1>3, <1>t DEF Wants
  <2> QED BY <1>w, <1>t, <1>p, <1>c, <2>1, <2>2, <2>3, <2>4, <2>5
<1>4. ASSUME Flush \/ Fault, UNCHANGED historyVars
      PROVE  w' + due' <= asked'[k] + left'[k] + count'["fault"] + count'["restart"]
  <2>1. w' + due' <= w + due + (IF Fault THEN 1 ELSE 0)
    BY <1>4, WorkerDues DEF w, due
  <2>2. count'["restart"] = count["restart"] /\ UNCHANGED <<asked, left>>
    BY <1>4, <1>t DEF Flush, Fault, Happens, Events, historyVars
  <2>3. PICK v \in Nat, d \in Nat : v = w' /\ d = due'
    BY <1>w, <1>t
  <2>4. v + d <= asked'[k] + left'[k] + count'["fault"] + count'["restart"]
    <3>1. CASE Fault
      <4>1. count'["fault"] = count["fault"] + 1
        BY <1>t, <3>1 DEF Fault, Happens, Events
      <4>2. w' + due' <= w + due + 1
        BY <2>1, <3>1
      <4>3. v + d <= w + due + 1
        BY <2>3, <4>2, Zenon
      <4> QED BY <1>w, <1>t, <1>p, <1>c, <2>2, <4>1, <4>3
    <3>2. CASE ~Fault
      <4>1. count'["fault"] = count["fault"]
        BY <1>4, <3>2 DEF Flush
      <4>2. w' + due' <= w + due + 0
        BY <2>1, <3>2
      <4>3. v + d <= w + due + 0
        BY <2>3, <4>2, Zenon
      <4> QED BY <1>w, <1>t, <1>p, <1>c, <2>2, <4>1, <4>3
    <3> QED BY <3>1, <3>2
  <2> QED BY <2>3, <2>4, Zenon
<1>5. ASSUME Restart, UNCHANGED historyVars
      PROVE  w' + due' <= asked'[k] + left'[k] + count'["fault"] + count'["restart"]
  <2>1. UNCHANGED remote /\ pending'[k] = NoOp /\ batch'[k] = NoOp /\ rec'[KindOf[k]].key = None
    BY <1>5, KindOfAssumption DEF Restart, WorkerLost, EmptyBatch, Idle
  <2>2. ~Read(k)' /\ ~Waiting(k)' /\ ~Taken(k)'
    BY <2>1, NoneAssumption DEF Read, Reading, Waiting, Taken, NoOp
  <2>3. due' <= 1
    BY <2>2 DEF due, OnTheWay, Unit
  <2>4. count'["fault"] = count["fault"] /\ count'["restart"] = count["restart"] + 1 /\ UNCHANGED <<asked, left>>
    BY <1>5, <1>t DEF Restart, Happens, Events, historyVars
  <2> QED BY <1>w, <1>t, <1>p, <1>c, <2>1, <2>3, <2>4
<1>6. ASSUME NEW h \in Handlers, ServeWatched(h)
      PROVE  w' + due' <= asked'[k] + left'[k] + count'["fault"] + count'["restart"]
  <2>1. UNCHANGED <<pending, batch, remote, cache, rec, count, asked>> /\ Sync!Serve(h)
    BY <1>6 DEF ServeWatched, workerVars, historyVars
  <2>2. NextCache(k)' = NextCache(k) /\ Read(k)' = Read(k) /\ Waiting(k)' = Waiting(k) /\ Taken(k)' = Taken(k)
    BY <2>1 DEF NextCache, Read, Reading, Obj, News, Present, AnnotationMatches, MaterialHash, Waiting, Taken
  <2>3. left'[k] = IF OthersLeft(k) THEN left[k] + 1 ELSE left[k]
    BY <1>6 DEF ServeWatched
  <2>4. Unread(k)' => Unread(k) \/ OthersLeft(k)
    <3>1. CASE cluster'[k] = cluster[k]
      BY <2>2, <3>1 DEF Unread, News, Present, AnnotationMatches, MaterialHash
    <3>2. CASE cluster'[k] # cluster[k]
      BY <3>2 DEF Unread, News, OthersLeft, Present, AnnotationMatches, MaterialHash
    <3> QED BY <3>1, <3>2
  <2>5. CASE OthersLeft(k)
    BY <1>w, <1>p, <1>c, <2>1, <2>2, <2>3, <2>5 DEF due, OnTheWay, Unit
  <2>6. CASE ~OthersLeft(k)
    BY <1>w, <1>p, <1>c, <2>1, <2>2, <2>3, <2>4, <2>6 DEF due, OnTheWay, Unit
  <2> QED BY <2>5, <2>6
<1>7. ASSUME UNCHANGED vars, UNCHANGED historyVars
      PROVE  w' + due' <= asked'[k] + left'[k] + count'["fault"] + count'["restart"]
  <2>1. UNCHANGED <<pending, batch, remote, cluster, cache, rec, count, asked, left>>
    BY <1>7 DEF vars, workerVars, controllerVars, historyVars
  <2>2. due' = due
    BY <2>1 DEF due, OnTheWay, Unread, NextCache, Read, Reading, Obj, News, Present, AnnotationMatches,
                MaterialHash, Waiting, Taken
  <2> QED BY <1>w, <1>t, <1>p, <1>c, <2>1, <2>2
<1>8. \A j \in Keys : Declared(j) \subseteq Contents \cup {None} /\ None \notin Declared(j)
  BY NoneAssumption DEF Declared
<1>9. w' + due' <= asked'[k] + left'[k] + count'["fault"] + count'["restart"]
  BY <1>1, <1>2, <1>3, <1>4, <1>5, <1>6, <1>7, <1>8, AccordKinds
<1> QED BY <1>9 DEF w, due

\* The manifest of an object is written at most once for every time a person asked for
\* one, once for every apply that left fields of other managers on the object, or once
\* more for a failed export or a restart, whatever the two programs do to each other
\* and whatever an apply leaves: for any number of objects, requests, changes and
\* troubles, with webhooks in any order.
THEOREM NoLoop == AccordSpec => []EveryWriteHasCause
<1>1. AccordInit => AccordBase /\ PaidFor
  BY AccordBaseInit, PaidForInit
<1>2. (AccordBase /\ PaidFor) /\ [AccordNext]_allVars => (AccordBase /\ PaidFor)'
  BY AccordBaseNext, PaidForNext
<1>3. AccordBase /\ PaidFor => EveryWriteHasCause
  <2> SUFFICES ASSUME AccordBase, PaidFor, NEW k \in Keys
               PROVE  Cardinality(Writes(k)) <= asked[k] + left[k] + count["fault"] + count["restart"]
    BY DEF EveryWriteHasCause
  <2>1. OnTheWay(k) \in Nat
    BY DEF OnTheWay, Unit
  <2>2. Cardinality(Writes(k)) \in Nat
    BY WritesFinite DEF AccordBase
  <2>3. asked[k] \in Nat /\ left[k] \in Nat /\ count["fault"] \in Nat /\ count["restart"] \in Nat
    BY DEF AccordBase, AccordTypeOK, TypeOK, Events
  <2> QED BY <2>1, <2>2, <2>3 DEF PaidFor
<1> QED BY <1>1, <1>2, <1>3, PTL DEF AccordSpec

-----------------------------------------------------------------------------
(* The order of the deliveries.                                            *)

\* The push i lists the live file of k; some push does.
Mentions(i, k) == Place(k) \in Lists(pushes[i].commits)
Mentioned(k) == \E i \in DOMAIN pushes : Mentions(i, k)

\* The sync-operator has still to hear of a change of k, or to act on it.
Outstanding(k) ==
    \/ \E i \in inbox : Mentions(i, k)
    \/ \E h \in Handlers : Place(k) \in Left(h)

Busy(h) == handlers[h].stage # "free"

Serves(h, i) == handlers[h].tree = pushes[i].tree /\ handlers[h].commits = pushes[i].commits

\* The last push that lists the file of k has the file k has now.
LatestInv ==
    \A i \in DOMAIN pushes, k \in Keys :
        Mentions(i, k) =>
            \/ pushes[i].tree[Place(k)] = remote.live[k]
            \/ \E j \in DOMAIN pushes : i < j /\ Mentions(j, k)

\* With deliveries in order there is one request at a time, and all pushes after the one
\* it serves are still to be delivered.
OrderInv ==
    ~Overlapping =>
        /\ \A g, h \in Handlers : Busy(g) /\ Busy(h) => g = h
        /\ \A i \in inbox, j \in DOMAIN pushes : i < j => j \in inbox
        /\ \A h \in Handlers : Busy(h) =>
              \E i \in DOMAIN pushes : Serves(h, i) /\ \A j \in DOMAIN pushes : i < j => j \in inbox

\* What a push lists stays listed; a new push lists the objects whose file it changes.
LEMMA MentionsNext ==
  ASSUME AccordBase, AccordBase', [AccordNext]_allVars, NEW k \in Keys
  PROVE  /\ \A i \in DOMAIN pushes : /\ i \in DOMAIN pushes' /\ pushes'[i] = pushes[i]
                                     /\ Mentions(i, k)' <=> Mentions(i, k)
         /\ \/ UNCHANGED <<remote, pushes>>
            \/ /\ UNCHANGED <<handlers, reported>>
               /\ \E n \in Nat :
                    /\ inbox' = inbox \cup {n}
                    /\ DOMAIN pushes' = DOMAIN pushes \cup {n}
                    /\ \A i \in DOMAIN pushes : i < n
                    /\ pushes'[n].tree[Place(k)] = remote'.live[k]
                    /\ Mentions(n, k)' <=> remote'.live[k] # remote.live[k]
<1>0. AccordTypeOK /\ TypeOK /\ TypeOK' /\ RequestInv /\ PushesInv
  BY DEF AccordBase, AccordTypeOK
<1>1. PushesKept
  BY AccordBaseNext
<1>2. \A i \in DOMAIN pushes : /\ i \in DOMAIN pushes' /\ pushes'[i] = pushes[i]
                               /\ Mentions(i, k)' <=> Mentions(i, k)
  BY <1>1 DEF PushesKept, Mentions
<1>3. CASE ControllerStep
  <2>1. UNCHANGED <<remote, pushes>> \/ \E q : Pushed(q)
    BY <1>0, <1>3, Announcements DEF ControllerStep
  <2>2. ASSUME NEW q, Pushed(q)
        PROVE  \E n \in Nat :
                 /\ inbox' = inbox \cup {n}
                 /\ DOMAIN pushes' = DOMAIN pushes \cup {n}
                 /\ \A i \in DOMAIN pushes : i < n
                 /\ pushes'[n].tree[Place(k)] = remote'.live[k]
                 /\ Mentions(n, k)' <=> remote'.live[k] # remote.live[k]
    <3>1. PICK n \in Nat : n = Len(pushes) + 1 /\ \A i \in DOMAIN pushes : i < n
      BY <1>0 DEF AccordTypeOK
    <3>2. Mentions(n, k)' <=> Place(k) \in Lists(pushes'[n].commits)
      BY DEF Mentions
    <3>3. Place(k) \in Lists(q.commits) <=> remote'.live[k] # remote.live[k]
      BY <2>2 DEF Pushed, Lists
    <3>4. /\ pushes'[n] = q
          /\ inbox' = inbox \cup {n}
          /\ DOMAIN pushes' = DOMAIN pushes \cup {n}
          /\ q.tree[Place(k)] = remote'.live[k]
      BY <2>2, <3>1 DEF Pushed
    <3> QED BY <3>1, <3>2, <3>3, <3>4
  <2> QED BY <1>2, <1>3, <2>1, <2>2 DEF ControllerStep
<1>4. ASSUME NEW h \in Handlers, ServeWatched(h) PROVE UNCHANGED <<remote, pushes>>
  BY <1>0, <1>4, RequestKept DEF ServeWatched, workerVars
<1>5. ASSUME NEW h \in Handlers, NEW i \in inbox, Sync!Deliver(h, i, "received"), UNCHANGED vars
      PROVE  UNCHANGED <<remote, pushes>>
  BY <1>5 DEF Sync!Deliver, vars, workerVars
<1> QED BY <1>0, <1>2, <1>3, <1>4, <1>5, AccordSteps

\* The pushes start empty.
LEMMA OrderInit == AccordInit => LatestInv /\ OrderInv
<1> SUFFICES ASSUME AccordInit PROVE LatestInv /\ OrderInv
  OBVIOUS
<1>1. DOMAIN pushes = {} /\ inbox = {}
  BY DEF AccordInit
<1>2. \A h \in Handlers : ~Busy(h)
  BY DEF AccordInit, Busy, Sync!Free
<1> QED BY <1>1, <1>2 DEF LatestInv, OrderInv

\* A push that changes the file of k is announced after all that went before.
LEMMA LatestNext ==
  ASSUME AccordBase, AccordBase', LatestInv, [AccordNext]_allVars
  PROVE  LatestInv'
<1> SUFFICES ASSUME NEW i \in DOMAIN pushes', NEW k \in Keys, Mentions(i, k)'
             PROVE  \/ pushes'[i].tree[Place(k)] = remote'.live[k]
                    \/ \E j \in DOMAIN pushes' : i < j /\ Mentions(j, k)'
  BY DEF LatestInv
<1>1. \A j \in DOMAIN pushes : /\ j \in DOMAIN pushes' /\ pushes'[j] = pushes[j]
                               /\ Mentions(j, k)' <=> Mentions(j, k)
  BY MentionsNext
<1>2. ASSUME i \in DOMAIN pushes
      PROVE  \/ pushes'[i].tree[Place(k)] = remote.live[k]
             \/ \E j \in DOMAIN pushes' : i < j /\ Mentions(j, k)'
  BY <1>1, <1>2 DEF LatestInv
<1>3. CASE UNCHANGED <<remote, pushes>>
  BY <1>2, <1>3
<1>4. ASSUME NEW n \in Nat,
             DOMAIN pushes' = DOMAIN pushes \cup {n},
             \A j \in DOMAIN pushes : j < n,
             pushes'[n].tree[Place(k)] = remote'.live[k],
             Mentions(n, k)' <=> remote'.live[k] # remote.live[k]
      PROVE  \/ pushes'[i].tree[Place(k)] = remote'.live[k]
             \/ \E j \in DOMAIN pushes' : i < j /\ Mentions(j, k)'
  BY <1>2, <1>4
<1> QED BY <1>3, <1>4, MentionsNext

\* Deliveries that do not overlap keep their order.
LEMMA OrderNext ==
  ASSUME AccordBase, AccordBase', OrderInv, [AccordNext]_allVars
  PROVE  OrderInv'
<1> SUFFICES ASSUME ~Overlapping
             PROVE  /\ \A g, h \in Handlers : Busy(g)' /\ Busy(h)' => g = h
                    /\ \A i \in inbox', j \in DOMAIN pushes' : i < j => j \in inbox'
                    /\ \A h \in Handlers : Busy(h)' =>
                         \E i \in DOMAIN pushes' :
                            Serves(h, i)' /\ \A j \in DOMAIN pushes' : i < j => j \in inbox'
  BY DEF OrderInv
<1>0. /\ AccordTypeOK /\ TypeOK /\ TypeOK' /\ RequestInv /\ PushesInv
      /\ handlers \in [Handlers -> Sync!Requests] /\ pushes \in Seq(Sync!PushEvents)
      /\ inbox \subseteq DOMAIN pushes
  BY DEF AccordBase, AccordTypeOK
<1>1. /\ \A g, h \in Handlers : Busy(g) /\ Busy(h) => g = h
      /\ \A i \in inbox, j \in DOMAIN pushes : i < j => j \in inbox
      /\ \A h \in Handlers : Busy(h) =>
            \E i \in DOMAIN pushes : Serves(h, i) /\ \A j \in DOMAIN pushes : i < j => j \in inbox
  BY DEF OrderInv
<1>2. CASE ControllerStep
  <2>1. UNCHANGED handlers /\ PushesKept /\ (UNCHANGED <<pushes, inbox>> \/ \E q : Pushed(q))
    BY <1>0, <1>2, Announcements DEF ControllerStep
  <2>2. \A h \in Handlers : Busy(h)' = Busy(h)
    BY <2>1 DEF Busy
  <2>3. \A h \in Handlers, i \in DOMAIN pushes : i \in DOMAIN pushes' /\ Serves(h, i)' = Serves(h, i)
    BY <2>1 DEF Serves, PushesKept
  <2>4. \A i \in inbox' : i \in inbox \/ i \notin DOMAIN pushes
    BY <2>1 DEF Pushed
  <2>5. \A i \in DOMAIN pushes' : i \in DOMAIN pushes \/ (i \in inbox' /\ \A j \in DOMAIN pushes' : ~(i < j))
    BY <1>0, <2>1 DEF Pushed
  <2>6. inbox \subseteq inbox' /\ inbox' \subseteq DOMAIN pushes'
    BY <1>0, <2>1 DEF Pushed
  <2> QED BY <1>1, <2>2, <2>3, <2>4, <2>5, <2>6
<1>3. ASSUME NEW f \in Handlers, ServeWatched(f)
      PROVE  /\ \A g, h \in Handlers : Busy(g)' /\ Busy(h)' => g = h
             /\ \A i \in inbox', j \in DOMAIN pushes' : i < j => j \in inbox'
             /\ \A h \in Handlers : Busy(h)' =>
                  \E i \in DOMAIN pushes' :
                     Serves(h, i)' /\ \A j \in DOMAIN pushes' : i < j => j \in inbox'
  <2>1. Sync!Serve(f)
    BY <1>3 DEF ServeWatched
  <2>2. /\ UNCHANGED <<pushes, inbox>>
        /\ \A g \in Handlers \ {f} : handlers'[g] = handlers[g]
        /\ Busy(f)
        /\ \/ handlers'[f] = Sync!Free
           \/ handlers'[f].tree = handlers[f].tree /\ handlers'[f].commits = handlers[f].commits
    BY <1>0, <2>1, RequestKept DEF Busy
  <2>3. \A g \in Handlers : Busy(g)' => Busy(g) /\ \A i : Serves(g, i)' = Serves(g, i)
    <3> SUFFICES ASSUME NEW g \in Handlers, Busy(g)' PROVE Busy(g) /\ \A i : Serves(g, i)' = Serves(g, i)
      OBVIOUS
    <3>1. CASE g # f
      BY <2>2, <3>1 DEF Busy, Serves
    <3>2. CASE g = f
      BY <2>2, <3>2 DEF Busy, Serves, Sync!Free
    <3> QED BY <3>1, <3>2
  <2> QED BY <1>1, <2>2, <2>3
<1>4. ASSUME NEW f \in Handlers, NEW n \in inbox, Sync!Deliver(f, n, "received")
      PROVE  /\ \A g, h \in Handlers : Busy(g)' /\ Busy(h)' => g = h
             /\ \A i \in inbox', j \in DOMAIN pushes' : i < j => j \in inbox'
             /\ \A h \in Handlers : Busy(h)' =>
                  \E i \in DOMAIN pushes' :
                     Serves(h, i)' /\ \A j \in DOMAIN pushes' : i < j => j \in inbox'
  <2>1. /\ UNCHANGED pushes /\ inbox' = inbox \ {n}
        /\ Sync!Busy = {} /\ \A j \in inbox : n <= j
        /\ handlers' = [handlers EXCEPT ![f] = [Sync!Free EXCEPT !.stage = "received",
                           !.tree = pushes[n].tree, !.commits = pushes[n].commits, !.defects = {}]]
    BY <1>4 DEF Sync!Deliver, Sync!Receive
  <2>2. \A g \in Handlers : g # f => ~Busy(g)'
    <3>1. \A g \in Handlers : handlers[g].stage = "free"
      BY <2>1 DEF Sync!Busy, Sync!Free
    <3> QED BY <1>0, <2>1, <3>1 DEF Busy
  <2>3. Serves(f, n)'
    <3>1. handlers'[f] = [Sync!Free EXCEPT !.stage = "received",
                           !.tree = pushes[n].tree, !.commits = pushes[n].commits, !.defects = {}]
      BY <1>0, <2>1
    <3>2. handlers'[f].tree = pushes[n].tree /\ handlers'[f].commits = pushes[n].commits
      BY <3>1 DEF Sync!Free
    <3> QED BY <2>1, <3>2 DEF Serves
  <2>4. n \in Nat /\ DOMAIN pushes \subseteq Nat
    BY <1>0
  <2>5. \A j \in DOMAIN pushes' : n < j => j \in inbox'
    BY <1>1, <2>1, <2>4
  <2>6. \A i \in inbox', j \in DOMAIN pushes' : i < j => j \in inbox'
    BY <1>0, <1>1, <2>1, <2>4
  <2> QED BY <1>0, <2>1, <2>2, <2>3, <2>5, <2>6
<1> QED BY <1>0, <1>2, <1>3, <1>4, AccordSteps

-----------------------------------------------------------------------------
(* What a step means for one object.                                       *)

\* What is outstanding was listed by a push.
LEMMA OutstandingIsMentioned ==
  ASSUME AccordBase, NEW k \in Keys, Outstanding(k)
  PROVE  Mentioned(k)
<1>0. AccordTypeOK /\ RequestInv /\ PushesInv /\ inbox \subseteq DOMAIN pushes
  BY DEF AccordBase, AccordTypeOK
<1>1. ASSUME NEW h \in Handlers, Place(k) \in Left(h) PROVE Mentioned(k)
  <2>1. Busy(h) /\ Place(k) \in Lists(handlers[h].commits)
    BY <1>0, <1>1, LeftIsListed DEF Busy
  <2>2. \E i \in DOMAIN pushes : handlers[h].commits = pushes[i].commits
    BY <1>0, <2>1 DEF RequestInv, Sound, Busy
  <2> QED BY <2>1, <2>2 DEF Mentioned, Mentions
<1> QED BY <1>0, <1>1 DEF Outstanding, Mentioned

\* An apply or a deletion after which nothing more is outstanding leaves k as Git has it.
LEMMA LastMention ==
  ASSUME AccordBase, LatestInv, OrderInv, ~Overlapping,
         NEW h \in Handlers, NEW k \in Keys, Place(k) \in Left(h),
         ~\E i \in inbox : Mentions(i, k)
  PROVE  handlers[h].tree[Place(k)] = remote.live[k]
<1>0. AccordTypeOK /\ RequestInv /\ PushesInv
  BY DEF AccordBase
<1>1. Busy(h) /\ Place(k) \in Lists(handlers[h].commits)
  BY <1>0, LeftIsListed DEF Busy
<1>2. PICK i \in DOMAIN pushes : Serves(h, i) /\ \A j \in DOMAIN pushes : i < j => j \in inbox
  BY <1>1 DEF OrderInv
<1>3. Mentions(i, k) /\ handlers[h].tree = pushes[i].tree
  BY <1>1, <1>2 DEF Mentions, Serves
<1> QED BY <1>2, <1>3 DEF LatestInv

\* An object that a step of the other side gives a new file is outstanding; only
\* requests bring objects to their files, and cross them off.
LEMMA ObjectNews ==
  ASSUME AccordBase, AccordBase', LatestInv, OrderInv, [AccordNext]_allVars, NEW k \in Keys
  PROVE  /\ Mentioned(k) => Mentioned(k)'
         /\ remote'.live[k] # remote.live[k] => Outstanding(k)' /\ Mentioned(k)'
         /\ remote'.live[k] = remote.live[k] => (Mentioned(k)' => Mentioned(k))
         /\ \/ /\ ~\E h \in Handlers : ServeWatched(h)
               /\ remote'.live[k] = remote.live[k] => Outstanding(k)' = Outstanding(k)
            \/ /\ \E h \in Handlers : ServeWatched(h)
               /\ UNCHANGED remote
               /\ \/ cluster'[k] = cluster[k] /\ Outstanding(k)' = Outstanding(k)
                  \/ /\ Outstanding(k)
                     /\ \E h \in Handlers : \E f \in Owned(k) :
                          /\ Place(k) \in Left(h)
                          /\ f = handlers[h].tree[Place(k)]
                          /\ cluster'[k] \in ObjectsFor(f)
                          /\ Overlapping \/ Outstanding(k)' \/ f = remote.live[k]
<1>0. /\ AccordTypeOK /\ TypeOK /\ TypeOK' /\ RequestInv /\ PushesInv
      /\ handlers \in [Handlers -> Sync!Requests] /\ pushes \in Seq(Sync!PushEvents)
      /\ inbox \subseteq DOMAIN pushes /\ cluster \in [Keys -> Objects \cup {Absent}]
  BY DEF AccordBase, AccordTypeOK, TypeOK
<1>1. \A i \in DOMAIN pushes : i \in DOMAIN pushes' /\ (Mentions(i, k)' <=> Mentions(i, k))
  BY MentionsNext
<1>2. Mentioned(k) => Mentioned(k)'
  BY <1>1 DEF Mentioned
<1>3. remote'.live[k] # remote.live[k] => Outstanding(k)' /\ Mentioned(k)'
  BY MentionsNext DEF Outstanding, Mentioned
<1>4. remote'.live[k] = remote.live[k] => (Mentioned(k)' => Mentioned(k))
  <2>1. CASE UNCHANGED <<remote, pushes>>
    BY <2>1 DEF Mentioned, Mentions
  <2>2. ASSUME NEW n \in Nat, DOMAIN pushes' = DOMAIN pushes \cup {n}, ~Mentions(n, k)'
        PROVE  Mentioned(k)' => Mentioned(k)
    BY <1>1, <2>2 DEF Mentioned
  <2> QED BY <2>1, <2>2, MentionsNext
<1>5. ASSUME NEW h \in Handlers, ServeWatched(h)
      PROVE  /\ UNCHANGED remote
             /\ \/ cluster'[k] = cluster[k] /\ Outstanding(k)' = Outstanding(k)
                \/ /\ Outstanding(k)
                   /\ \E g \in Handlers : \E f \in Owned(k) :
                        /\ Place(k) \in Left(g)
                        /\ f = handlers[g].tree[Place(k)]
                        /\ cluster'[k] \in ObjectsFor(f)
                        /\ Overlapping \/ Outstanding(k)' \/ f = remote.live[k]
  <2>1. Sync!Serve(h) /\ UNCHANGED remote
    BY <1>5 DEF ServeWatched, workerVars
  <2>2. UNCHANGED <<pushes, inbox>> /\ \A g \in Handlers \ {h} : handlers'[g] = handlers[g]
    BY <1>0, <2>1, RequestKept
  <2>3. \A g \in Handlers \ {h} : Left(g)' = Left(g)
    BY <2>2 DEF Left
  <2>4. (\E i \in inbox' : Mentions(i, k)') = (\E i \in inbox : Mentions(i, k))
    BY <2>2 DEF Mentions
  <2>5. CASE cluster'[k] = cluster[k] /\ (Place(k) \in Left(h)' <=> Place(k) \in Left(h))
    BY <2>1, <2>3, <2>4, <2>5 DEF Outstanding
  <2>6. CASE /\ Place(k) \in Left(h)
             /\ cluster'[k] \in ObjectsFor(handlers[h].tree[Place(k)])
    <3>1. handlers[h].tree[Place(k)] \in Owned(k)
      BY <1>0, <2>6, LeftIsListed
    <3>2. Outstanding(k)
      BY <2>6 DEF Outstanding
    <3>3. Overlapping \/ Outstanding(k)' \/ handlers[h].tree[Place(k)] = remote.live[k]
      BY <2>4, <2>6, LastMention DEF Outstanding
    <3> QED BY <2>1, <2>6, <3>1, <3>2, <3>3
  <2>7. \/ cluster'[k] = cluster[k] /\ (Place(k) \in Left(h)' <=> Place(k) \in Left(h))
        \/ Place(k) \in Left(h) /\ cluster'[k] \in ObjectsFor(handlers[h].tree[Place(k)])
    BY <1>0, <2>1, RequestEffect
  <2> QED BY <2>5, <2>6, <2>7
<1>6. ASSUME remote'.live[k] = remote.live[k], ControllerStep
      PROVE  Outstanding(k)' = Outstanding(k)
  <2>1. UNCHANGED handlers /\ (UNCHANGED <<pushes, inbox>> \/ \E q : Pushed(q))
    BY <1>0, <1>6, Announcements DEF ControllerStep
  <2>2. \A h \in Handlers : Left(h)' = Left(h)
    BY <2>1 DEF Left
  <2>3. (\E i \in inbox' : Mentions(i, k)') = (\E i \in inbox : Mentions(i, k))
    <3>1. CASE UNCHANGED <<pushes, inbox>>
      BY <3>1 DEF Mentions
    <3>2. ASSUME NEW q, Pushed(q) PROVE (\E i \in inbox' : Mentions(i, k)') = (\E i \in inbox : Mentions(i, k))
      <4>1. PICK n : n = Len(pushes) + 1
        OBVIOUS
      <4>2. inbox' = inbox \cup {n} /\ pushes'[n] = q
        BY <3>2, <4>1 DEF Pushed
      <4>3. ~Mentions(n, k)'
        BY <1>6, <3>2, <4>2 DEF Pushed, Mentions, Lists
      <4> QED BY <1>0, <1>1, <4>2, <4>3
    <3> QED BY <2>1, <3>1, <3>2
  <2> QED BY <2>2, <2>3 DEF Outstanding
<1>7. ASSUME NEW h \in Handlers, NEW i \in inbox, Sync!Deliver(h, i, "received")
      PROVE  Outstanding(k)' = Outstanding(k)
  <2>1. /\ UNCHANGED pushes /\ inbox' = inbox \ {i}
        /\ handlers[h].stage = "free"
        /\ handlers' = [handlers EXCEPT ![h] = [Sync!Free EXCEPT !.stage = "received",
                           !.tree = pushes[i].tree, !.commits = pushes[i].commits, !.defects = {}]]
    BY <1>7 DEF Sync!Deliver, Sync!Receive, Sync!Free
  <2>2. \A g \in Handlers \ {h} : Left(g)' = Left(g)
    BY <1>0, <2>1 DEF Left
  <2>3. ~(Place(k) \in Left(h))
    BY <1>0, <2>1, LeftIsListed
  <2>4. Left(h)' = Lists(pushes[i].commits)
    <3>1. handlers'[h] = [Sync!Free EXCEPT !.stage = "received",
                           !.tree = pushes[i].tree, !.commits = pushes[i].commits, !.defects = {}]
      BY <1>0, <2>1
    <3>2. handlers'[h].stage = "received" /\ handlers'[h].commits = pushes[i].commits
      BY <3>1 DEF Sync!Free
    <3> QED BY <3>2 DEF Left
  <2>5. \A j : Mentions(j, k)' = Mentions(j, k)
    BY <2>1 DEF Mentions
  <2>6. (Place(k) \in Left(h)') = Mentions(i, k)
    BY <2>4 DEF Mentions
  <2> QED BY <2>1, <2>2, <2>3, <2>5, <2>6 DEF Outstanding
<1>8. \/ \E h \in Handlers : ServeWatched(h)
      \/ remote'.live[k] = remote.live[k] => Outstanding(k)' = Outstanding(k)
  BY <1>0, <1>6, <1>7, AccordSteps
<1> QED BY <1>2, <1>3, <1>4, <1>5, <1>8

-----------------------------------------------------------------------------
(* People change the cluster only.                                         *)

\* What happened stays counted, and a change by a person is counted as one.
LEMMA CountsGrow ==
  ASSUME TypeOK, [AccordNext]_allVars
  PROVE  /\ \A e \in Events : count[e] \in Nat /\ count'[e] \in Nat /\ count[e] <= count'[e]
         /\ \A k \in Keys, c \in Contents : UserEdit(k, c) => count'["edit"] # 0
         /\ \A k \in Keys : UserDelete(k) => count'["delete"] # 0
         /\ \A k \in Keys, c \in File : GitEdit(k, c) => count'["foreign"] # 0
         /\ Fault => count'["fault"] # 0
<1>0. count \in [Events -> Nat]
  BY DEF TypeOK
<1>1. ASSUME NEW e \in Events, Happens(e)
      PROVE  /\ \A d \in Events : count[d] \in Nat /\ count'[d] \in Nat /\ count[d] <= count'[d]
             /\ count'[e] # 0
  BY <1>0, <1>1 DEF Happens
<1>2. UNCHANGED count \/ \E e \in Events : Happens(e)
  BY AccordKinds DEF ReconcileGet, Reconcile, ReconcileArchive, ReconcileIgnore, ReconcileExport, Finish,
       UserEdit, UserDelete, GitEdit, Restart, Flush, Fault, vars, ServeWatched, Events
<1>3. \A e \in Events : count[e] \in Nat /\ count'[e] \in Nat /\ count[e] <= count'[e]
  BY <1>0, <1>1, <1>2
<1>4. "edit" \in Events /\ "delete" \in Events /\ "foreign" \in Events /\ "fault" \in Events
  BY DEF Events
<1> QED BY <1>1, <1>3, <1>4 DEF UserEdit, UserDelete, GitEdit, Fault

\* With deliveries in order, an object about which nothing is outstanding carries no
\* annotation or the one of the file Git has.
AnnotationInv ==
    ~Overlapping =>
        \A k \in Keys : ~Outstanding(k) => cluster[k].ann \in {None, MaterialHash(remote.live[k])}

\* At the start the annotation is the one of the file in Git.
LEMMA AnnotationInit == AccordInit => AnnotationInv
<1> SUFFICES ASSUME AccordInit, NEW k \in Keys
             PROVE  cluster[k].ann \in {None, MaterialHash(remote.live[k])}
  BY DEF AnnotationInv
<1>1. CASE k \in Applied
  BY <1>1 DEF AccordInit, Init, AnnotationMatches
<1>2. CASE k \notin Applied
  BY <1>2 DEF AccordInit, Init
<1> QED BY <1>1, <1>2

\* Edits leave the annotation in place, and only the last apply decides what it is.
LEMMA AnnotationNext ==
  ASSUME AccordBase, AccordBase', LatestInv, OrderInv, AnnotationInv, [AccordNext]_allVars
  PROVE  AnnotationInv'
<1> SUFFICES ASSUME ~Overlapping, NEW k \in Keys, ~Outstanding(k)'
             PROVE  cluster'[k].ann \in {None, MaterialHash(remote'.live[k])}
  BY DEF AnnotationInv, MaterialHash
<1>0. TypeOK /\ cluster \in [Keys -> Objects \cup {Absent}]
  BY DEF AccordBase, AccordTypeOK, TypeOK
<1>1. remote'.live[k] = remote.live[k]
  BY ObjectNews
<1>2. CASE ~\E h \in Handlers : ServeWatched(h)
  <2>1. cluster[k].ann \in {None, MaterialHash(remote.live[k])}
    BY <1>1, <1>2, ObjectNews DEF AnnotationInv
  <2>2. cluster'[k].ann = cluster[k].ann \/ cluster'[k].ann = None
    <3>1. ASSUME NEW j \in Keys, NEW c \in Declared(j), UserEdit(j, c)
          PROVE  cluster'[k].ann = cluster[k].ann
      <4>1. cluster' = [cluster EXCEPT ![j].material = c]
        BY <3>1 DEF UserEdit
      <4> QED BY <1>0, <4>1 DEF Objects, Absent
    <3>2. ASSUME NEW j \in Keys, UserDelete(j) PROVE cluster'[k] = cluster[k] \/ cluster'[k].ann = None
      BY <1>0, <3>2 DEF UserDelete, Absent
    <3>3. \/ UNCHANGED cluster
          \/ \E j \in Keys : UserDelete(j) \/ \E c \in Declared(j) : UserEdit(j, c)
      BY <1>2, AccordKinds DEF ReconcileGet, Reconcile, ReconcileArchive, ReconcileIgnore, ReconcileExport,
           Finish, GitEdit, Restart, Flush, Fault, vars
    <3> QED BY <3>1, <3>2, <3>3
  <2> QED BY <1>1, <2>1, <2>2
<1>3. CASE \E h \in Handlers : ServeWatched(h)
  <2>1. CASE cluster'[k] = cluster[k] /\ Outstanding(k)' = Outstanding(k)
    BY <1>1, <2>1 DEF AnnotationInv
  <2>2. CASE cluster'[k] \in ObjectsFor(remote.live[k])
    <3>1. remote.live[k] \in Owned(k)
      BY DEF AccordBase, OwnInv
    <3>2. cluster'[k].ann = IF remote.live[k] = None THEN None ELSE MaterialHash(remote.live[k])
      BY <2>2, <3>1, ObjectsForFile
    <3> QED BY <1>1, <3>2
  <2> QED BY <1>3, <2>1, <2>2, ObjectNews
<1> QED BY <1>2, <1>3

\* While nothing is deleted on either side, no removal is read, queued or pushed.
NoRemovals ==
    count["delete"] = 0 /\ count["foreign"] = 0 =>
        \A k \in Keys :
            /\ Reading(k) => Present(Obj(k))
            /\ pending[k] # ArchiveOp /\ batch[k] # ArchiveOp
            /\ \A i \in DOMAIN pushes : Place(k) \notin Sync!Removed(pushes[i].commits)

\* At the start there is none.
LEMMA NoRemovalsInit == AccordInit => NoRemovals
<1> SUFFICES ASSUME AccordInit, NEW k \in Keys
             PROVE  /\ ~Reading(k)
                    /\ pending[k] # ArchiveOp /\ batch[k] # ArchiveOp
                    /\ DOMAIN pushes = {}
  BY DEF NoRemovals
<1>1. rec[KindOf[k]].key = None
  BY KindOfAssumption DEF AccordInit, Init, Idle
<1>2. pending[k] = NoOp /\ batch[k] = NoOp
  BY DEF AccordInit, Init, NewBatchWorker, EmptyBatch
<1>3. DOMAIN pushes = {}
  BY DEF AccordInit
<1> QED BY <1>1, <1>2, <1>3, NoneAssumption DEF Reading, NoOp, ArchiveOp

\* An object that is there is exported and not archived.
LEMMA NoRemovalsNext ==
  ASSUME AccordBase, AccordBase', NeverThere, NoRemovals, [AccordNext]_allVars
  PROVE  NoRemovals'
<1> SUFFICES ASSUME count'["delete"] = 0, count'["foreign"] = 0, NEW k \in Keys
             PROVE  /\ Reading(k)' => Present(Obj(k)')
                    /\ pending'[k] # ArchiveOp /\ batch'[k] # ArchiveOp
                    /\ \A i \in DOMAIN pushes' : Place(k) \notin Sync!Removed(pushes'[i].commits)
  BY DEF NoRemovals, Present
<1>0. /\ AccordTypeOK /\ TypeOK /\ TypeOK' /\ WorkerTypeOK /\ WorkerInv
      /\ cluster \in [Keys -> Objects \cup {Absent}]
  BY DEF AccordBase, AccordTypeOK, TypeOK, BaseInv
<1>1. count["delete"] = 0 /\ count["foreign"] = 0
  <2>1. "delete" \in Events /\ "foreign" \in Events
    BY DEF Events
  <2> QED BY <1>0, <2>1, CountsGrow
<1>2. /\ Reading(k) => Present(Obj(k))
      /\ pending[k] # ArchiveOp /\ batch[k] # ArchiveOp
      /\ \A i \in DOMAIN pushes : Place(k) \notin Sync!Removed(pushes[i].commits)
  BY <1>1 DEF NoRemovals
<1>n. NoOp # ArchiveOp
  BY DEF NoOp, ArchiveOp
<1>3. (Reading(k)' => Present(Obj(k)')) /\ pending'[k] # ArchiveOp /\ batch'[k] # ArchiveOp
  <2>1. ASSUME NEW j \in Keys, ReconcileGet(j) PROVE (Reading(k)' => Present(Obj(k)')) /\ UNCHANGED workerVars
    <3>1. CASE j # k
      BY <1>0, <1>2, <2>1, <3>1, RecMoves DEF Reading, Obj, ReconcileGet
    <3>2. CASE j = k
      <4>1. Present(cluster[k])
        BY <1>1, <2>1, <3>2 DEF ReconcileGet, NeverThere
      <4>2. rec'[KindOf[k]] = [key |-> k, obj |-> cluster[k]]
        BY <1>0, <2>1, <3>2, RecMoves
      <4> QED BY <2>1, <4>1, <4>2 DEF Obj, ReconcileGet
    <3> QED BY <3>1, <3>2
  <2>2. ASSUME NEW j \in Keys, Reconcile(j)
        PROVE  (Reading(k)' => Present(Obj(k)')) /\ pending'[k] # ArchiveOp /\ UNCHANGED batch
    <3>1. CASE j # k
      <4>1. pending'[k] = pending[k]
        BY <1>0, <2>2, <3>1, ReconcilePending DEF WorkerTypeOK, Batches
      <4> QED BY <1>0, <1>2, <2>2, <3>1, <4>1, RecMoves
              DEF Reading, Obj, Reconcile, ReconcileArchive, ReconcileIgnore, ReconcileExport, Finish
    <3>2. CASE j = k
      <4>1. ~Reading(k)' /\ Reading(k)
        BY <1>0, <2>2, <3>2, RecMoves DEF Reading
      <4>2. ~ReconcileArchive(k)
        BY <1>2, <4>1 DEF ReconcileArchive, Obj
      <4>3. pending'[k] = pending[k] \/ pending'[k] = WriteOp(Obj(k).material)
        BY <1>0, <2>2, <3>2, <4>2 DEF Reconcile, ReconcileIgnore, ReconcileExport, RenderError, Enqueue, Obj,
             WorkerTypeOK, Batches
      <4>4. WriteOp(Obj(k).material) # ArchiveOp
        BY DEF WriteOp, ArchiveOp
      <4> QED BY <1>2, <2>2, <3>2, <4>1, <4>3, <4>4
              DEF Reconcile, ReconcileArchive, ReconcileIgnore, ReconcileExport, Finish
    <3> QED BY <3>1, <3>2
  <2>3. ASSUME Restart \/ Flush \/ Fault
        PROVE  (Reading(k)' => Present(Obj(k)')) /\ pending'[k] # ArchiveOp /\ batch'[k] # ArchiveOp
    <3>1. FlushStep \/ FaultStep \/ Lost
      BY <2>3 DEF Restart, Flush, Fault, Lost
    <3>2. UNCHANGED rec \/ rec'[KindOf[k]].key # k
      BY <2>3, KindOfAssumption, NoneAssumption DEF Restart, Flush, Fault, controllerVars, Idle
    <3>3. pending'[k] # ArchiveOp /\ batch'[k] # ArchiveOp
      BY <1>0, <1>2, <1>n, <3>1, WorkerMoves
    <3> QED BY <1>2, <3>2, <3>3 DEF Reading, Obj
  <2>4. CASE UNCHANGED <<pending, batch, rec>>
    BY <1>2, <2>4 DEF Reading, Obj
  <2> QED BY <1>2, <2>1, <2>2, <2>3, <2>4, AccordKinds
          DEF workerVars, UserEdit, UserDelete, GitEdit, ForeignCommit, controllerVars, vars, ServeWatched
<1>4. \A i \in DOMAIN pushes' : Place(k) \notin Sync!Removed(pushes'[i].commits)
  <2>1. CASE UNCHANGED pushes
    BY <1>2, <2>1
  <2>2. ASSUME NEW q, Pushed(q), ControllerStep
        PROVE  \A i \in DOMAIN pushes' : Place(k) \notin Sync!Removed(pushes'[i].commits)
    <3>1. remote.live[k] # None => remote'.live[k] # None
      <4>1. CASE UNCHANGED remote
        BY <4>1
      <4>2. CASE remote' = ApplyBatch(remote, batch)
        <5>1. remote'.live[k] = After(batch[k], remote.live[k])
          BY <1>0, <4>2, ApplyBatchLive DEF WorkerTypeOK
        <5>2. batch[k].kind = "none" \/ (batch[k].kind = "write" /\ batch[k].content \in Contents)
          BY <1>0, <1>2, OpKinds DEF WorkerTypeOK, Batches
        <5> QED BY <5>1, <5>2, NoneAssumption DEF After
      <4>3. ASSUME NEW j \in Keys, NEW c \in Owned(j), GitEdit(j, c) PROVE FALSE
        <5>1. c \in File
          BY DEF Owned, Declared, File
        <5> QED BY <1>0, <4>3, <5>1, CountsGrow
      <4>4. ASSUME Restart \/ Flush \/ Fault PROVE UNCHANGED remote \/ remote' = ApplyBatch(remote, batch)
        <5>1. FlushStep \/ FaultStep \/ Lost
          BY <4>4 DEF Restart, Flush, Fault, Lost
        <5> QED BY <1>0, <5>1, WorkerMoves
      <4>5. UNCHANGED remote \/ Restart \/ Flush \/ Fault \/ \E j \in Keys : \E c \in Owned(j) : GitEdit(j, c)
        BY AccordKinds DEF ReconcileGet, Reconcile, ReconcileArchive, ReconcileIgnore, ReconcileExport,
             Finish, UserEdit, UserDelete, vars, workerVars, ServeWatched
      <4> QED BY <4>1, <4>2, <4>3, <4>4, <4>5
    <3>2. Place(k) \notin Sync!Removed(q.commits)
      BY <2>2, <3>1 DEF Pushed
    <3>3. PushesKept
      BY AccordBaseNext
    <3> QED BY <1>2, <2>2, <3>2, <3>3 DEF Pushed, PushesKept
  <2>3. UNCHANGED pushes \/ (ControllerStep /\ \E q : Pushed(q))
    <3>1. ASSUME ControllerStep PROVE UNCHANGED pushes \/ \E q : Pushed(q)
      BY <1>0, <3>1, Announcements DEF ControllerStep
    <3>2. ASSUME NEW h \in Handlers, ServeWatched(h) PROVE UNCHANGED pushes
      BY <1>0, <3>2, RequestKept DEF ServeWatched, AccordBase
    <3>3. ASSUME NEW h \in Handlers, NEW i \in inbox, Sync!Deliver(h, i, "received") PROVE UNCHANGED pushes
      BY <3>3 DEF Sync!Deliver
    <3> QED BY <1>0, <3>1, <3>2, <3>3, AccordSteps
  <2> QED BY <2>1, <2>2, <2>3
<1> QED BY <1>3, <1>4

\* What the inventory-controller keeps by itself it keeps next to the sync-operator: an
\* apply changes an object only together with an event for it.
LEMMA SettledStill ==
  ASSUME AccordBase, AccordBase', CacheInv, NeverThere, SettledInv, NoRemovals, [AccordNext]_allVars
  PROVE  CacheInv' /\ NeverThere' /\ SettledInv'
<1>0. AccordTypeOK /\ TypeOK /\ BaseInv /\ PushesInv /\ RequestInv /\ cluster \in [Keys -> Objects \cup {Absent}]
  BY DEF AccordBase, AccordTypeOK, TypeOK
<1>1. CASE [Next]_vars
  BY <1>0, <1>1, CacheNext, NeverNext, SettledNext
<1>2. ASSUME NEW h \in Handlers, ServeWatched(h) PROVE CacheInv' /\ NeverThere' /\ SettledInv'
  <2>1. /\ UNCHANGED <<repoSet, pending, phase, batch, clone, remote, cache, rec, count>>
        /\ queue' = queue \cup {k \in Keys : cluster'[k] # cluster[k]}
        /\ Sync!Serve(h)
    BY <1>2 DEF ServeWatched, workerVars
  <2>2. CacheInv'
    BY <2>1 DEF CacheInv, Undisturbed, Healthy, ArchiveFails, Upcoming, After, MaterialHash
  <2>3. NeverThere'
    <3> SUFFICES ASSUME count'["delete"] = 0, count'["foreign"] = 0, NEW k \in Keys, ~Present(cluster'[k])
                 PROVE  /\ remote'.live[k] = None
                        /\ pending'[k] = NoOp /\ batch'[k] = NoOp
                        /\ k \notin queue' /\ rec'[KindOf[k]].key # k
      BY DEF NeverThere, Present
    <3>1. cluster'[k] = cluster[k]
      <4> SUFFICES ASSUME Place(k) \in Left(h), cluster'[k] \in ObjectsFor(handlers[h].tree[Place(k)])
                   PROVE  FALSE
        BY <1>0, <2>1, RequestEffect
      <4>1. /\ handlers[h].tree[Place(k)] \in Owned(k)
            /\ Place(k) \in Lists(handlers[h].commits)
            /\ handlers[h].stage # "free"
        BY <1>0, LeftIsListed
      <4>2. PICK i \in DOMAIN pushes : handlers[h].tree = pushes[i].tree /\ handlers[h].commits = pushes[i].commits
        BY <1>0, <4>1 DEF RequestInv, Sound
      <4>3. Place(k) \notin Sync!Removed(pushes[i].commits)
        BY <2>1 DEF NoRemovals
      <4>4. handlers[h].tree[Place(k)] # None
        BY <1>0, <4>1, <4>2, <4>3 DEF Lists, PushesInv
      <4> QED BY <4>1, <4>4, ObjectsForFile DEF Present
    <3> QED BY <2>1, <3>1 DEF NeverThere, Present
  <2>4. SettledInv'
    <3> SUFFICES ASSUME Undisturbed', NoDeleteForgotten', NEW k \in Renderable, k \notin queue'
                 PROVE  IF rec'[KindOf[k]].key = k
                        THEN rec'[KindOf[k]].obj = cluster'[k]
                        ELSE AnnotationMatches(cluster'[k]) \/ Upcoming(k)' = cluster'[k].material
      BY DEF SettledInv, AnnotationMatches, MaterialHash
    <3>1. Undisturbed /\ NoDeleteForgotten
      BY <2>1 DEF Undisturbed, NoDeleteForgotten
    <3>2. k \notin queue /\ cluster'[k] = cluster[k]
      BY <2>1, RenderableAssumption
    <3>3. Upcoming(k)' = Upcoming(k)
      BY <2>1 DEF Upcoming
    <3> QED BY <2>1, <3>1, <3>2, <3>3 DEF SettledInv
  <2> QED BY <2>2, <2>3, <2>4
<1>3. [Next]_vars \/ \E h \in Handlers : ServeWatched(h)
  BY <1>0, AccordSteps DEF ControllerStep
<1> QED BY <1>1, <1>2, <1>3

\* At rest nothing is waiting, read, queued or outstanding.
LEMMA NothingAtRest ==
  ASSUME AccordBase, Rest, NEW k \in Keys
  PROVE  /\ k \notin queue /\ ~Reading(k)
         /\ pending[k] = NoOp /\ batch[k] = NoOp
         /\ ~Outstanding(k)
<1>0. AccordTypeOK /\ PushesInv /\ RequestInv /\ WorkerInv
  BY DEF AccordBase, BaseInv
<1>1. rec[KindOf[k]].key = None
  BY KindOfAssumption DEF Rest, Idle
<1>2. pending[k] = NoOp /\ batch[k] = NoOp
  BY <1>0 DEF Rest, WorkerInv, IdleIsEmpty, EmptyBatch
<1>3. ASSUME NEW h \in Handlers PROVE Place(k) \notin Left(h)
  <2>1. handlers[h].stage = "free"
    BY DEF Rest, Sync!Busy, Sync!Free
  <2> QED BY <1>0, <2>1, LeftIsListed
<1> QED BY <1>1, <1>2, <1>3, NoneAssumption DEF Rest, Reading, Outstanding

\* The annotation that lets an object pass is then the one of its file in Git.
LEMMA ClusterOnlyAtRest ==
  ASSUME AccordBase, SettledInv, AnnotationInv, ~Overlapping, Rest, repoSet,
         count["foreign"] = 0, count["fault"] = 0, NoDeleteForgotten, NEW k \in Keys
  PROVE  Mirrored(k)
<1>1. /\ k \notin queue /\ ~Reading(k)
      /\ pending[k] = NoOp /\ batch[k] = NoOp
      /\ ~Outstanding(k)
  BY NothingAtRest
<1>2. Undisturbed /\ k \in Renderable
  BY TemplateAssumption DEF Undisturbed
<1>3. AnnotationMatches(cluster[k]) \/ Upcoming(k) = cluster[k].material
  BY <1>1, <1>2 DEF SettledInv, Reading
<1>4. Upcoming(k) = remote.live[k]
  BY <1>1 DEF Upcoming, After, NoOp
<1>5. ASSUME AnnotationMatches(cluster[k]) PROVE cluster[k].material = remote.live[k]
  <2>1. cluster[k].ann = MaterialHash(cluster[k].material)
    BY <1>5 DEF AnnotationMatches
  <2>2. cluster[k].material \in Contents \cup {None}
    BY ObjectTypes DEF AccordBase, AccordTypeOK, TypeOK
  <2>3. cluster[k].ann # None
    BY <2>1, <2>2, HashesAssumption DEF Hashes
  <2>4. MaterialHash(cluster[k].material) = MaterialHash(remote.live[k])
    BY <1>1, <2>1, <2>3 DEF AnnotationInv
  <2> QED BY <2>4 DEF MaterialHash
<1> QED BY <1>3, <1>4, <1>5 DEF Mirrored

-----------------------------------------------------------------------------
(* People change Git only.                                                 *)

\* An object Git has never heard of and the sync-operator has never applied.
Fresh(k) == Present(cluster[k]) /\ cluster[k].ann = None /\ remote.live[k] = None

\* Its manifest is in the queue or in the batch.
Queued(k) == WriteOp(cluster[k].material) \in {pending[k], batch[k]}

\* The first export of such an object is under way, and nothing can make the
\* inventory-controller skip it.
FirstExport(k) ==
    /\ k \in queue \/ Reading(k) \/ Queued(k)
    /\ Reading(k) => Obj(k) = cluster[k]
    /\ cache[k] # None => Queued(k)
    /\ {pending[k], batch[k]} \subseteq {NoOp, WriteOp(cluster[k].material)}
    /\ phase \in {"cloned", "committed"} => clone.base.live[k] = None

\* While nobody changes the cluster, an object is as Git has it, or what an apply made
\* of its file, or will be told, or waits for its first export.
GitInv ==
    ~Overlapping /\ count["edit"] = 0 /\ count["delete"] = 0 =>
        \A k \in Keys :
            /\ Mentioned(k) => Outstanding(k) \/ Mirrored(k) \/ Reflected(k)
            /\ ~Mentioned(k) => Mirrored(k) \/ Fresh(k)
            /\ ~Mentioned(k) /\ Fresh(k) /\ repoSet => FirstExport(k)

\* At the start every object Git does not know is in the first list of the watch.
LEMMA GitInit == AccordInit => GitInv
<1> SUFFICES ASSUME AccordInit, NEW k \in Keys
             PROVE  /\ ~Mentioned(k)
                    /\ Mirrored(k) \/ Fresh(k)
                    /\ Fresh(k) => FirstExport(k)
  BY DEF GitInv
<1>1. ~Mentioned(k)
  <2>1. DOMAIN pushes = {}
    BY DEF AccordInit
  <2> QED BY <2>1 DEF Mentioned
<1>2. cluster[k] \in Objects \cup {Absent}
  BY DEF AccordInit, Init
<1>3. k \in Applied => Mirrored(k)
  BY DEF AccordInit, Init, Mirrored
<1>4. k \notin Applied => Mirrored(k) \/ Fresh(k)
  BY DEF AccordInit, Init, Mirrored, Fresh, Present
<1>5. ASSUME Fresh(k) PROVE FirstExport(k)
  <2>1. k \in queue
    BY <1>5 DEF Fresh, AccordInit, Init, Listed
  <2>2. rec[KindOf[k]].key = None
    BY KindOfAssumption DEF AccordInit, Init, Idle
  <2>3. pending[k] = NoOp /\ batch[k] = NoOp /\ cache[k] = None /\ phase = "idle"
    BY DEF AccordInit, Init, NewBatchWorker, EmptyBatch
  <2> QED BY <2>1, <2>2, <2>3, NoneAssumption DEF FirstExport, Reading
<1> QED BY <1>1, <1>3, <1>4, <1>5

\* The flush carries the first manifest on until it is pushed.
LEMMA FirstExportFlush ==
  ASSUME TypeOK, WorkerInv, NEW k \in Keys, Fresh(k), FirstExport(k), repoSet,
         FlushStep \/ FaultStep, UNCHANGED <<cluster, controllerVars>>, remote'.live[k] = remote.live[k]
  PROVE  FirstExport(k)'
<1> DEFINE w == WriteOp(cluster[k].material)
<1>0. /\ WorkerTypeOK /\ pending \in Batches /\ batch \in Batches /\ remote \in Tree /\ clone \in Clones
      /\ UNCHANGED <<cluster, cache, queue, rec>>
      /\ EmptyBatch[k] = NoOp
      /\ cluster[k].material # None
  BY DEF TypeOK, WorkerTypeOK, controllerVars, EmptyBatch, Fresh, Present
<1>1. /\ (Reading(k)' <=> Reading(k))
      /\ Obj(k)' = Obj(k)
      /\ Queued(k)' <=> w \in {pending'[k], batch'[k]}
  BY <1>0 DEF Reading, Obj, Queued
<1>2. /\ k \in queue \/ Reading(k) \/ w \in {pending[k], batch[k]}
      /\ Reading(k) => Obj(k) = cluster[k]
      /\ cache[k] # None => w \in {pending[k], batch[k]}
      /\ {pending[k], batch[k]} \subseteq {NoOp, w}
      /\ phase \in {"cloned", "committed"} => clone.base.live[k] = None
  BY DEF FirstExport, Queued
<1>n. w.kind = "write" /\ w.content = cluster[k].material /\ w # NoOp
  BY DEF WriteOp, NoOp
<1> HIDE DEF w
<1>3. ASSUME w \in {pending[k], batch[k]} => w \in {pending'[k], batch'[k]},
             {pending'[k], batch'[k]} \subseteq {NoOp, w},
             phase' \in {"cloned", "committed"} => clone'.base.live[k] = None
      PROVE  FirstExport(k)'
  <2>1. (FirstExport(k))' <=>
           /\ k \in queue' \/ Reading(k)' \/ Queued(k)'
           /\ Reading(k)' => Obj(k)' = cluster'[k]
           /\ cache'[k] # None => Queued(k)'
           /\ {pending'[k], batch'[k]} \subseteq {NoOp, WriteOp(cluster'[k].material)}
           /\ phase' \in {"cloned", "committed"} => clone'.base.live[k] = None
    BY DEF FirstExport
  <2>2. WriteOp(cluster'[k].material) = w
    BY <1>0 DEF w
  <2> QED BY <1>0, <1>1, <1>2, <1>3, <2>1, <2>2
<1>4. CASE FlushTake
  <2>1. batch'[k] = pending[k] /\ pending'[k] = NoOp /\ batch[k] = NoOp /\ phase' = "taken"
    BY <1>0, <1>4 DEF FlushTake, WorkerInv, IdleIsEmpty
  <2> QED BY <1>2, <1>3, <1>n, <2>1
<1>5. CASE FlushDrop
  BY <1>5 DEF FlushDrop
<1>6. CASE Clone
  <2>1. clone'.base = remote /\ UNCHANGED <<pending, batch>> /\ remote.live[k] = None
    BY <1>6 DEF Clone, Fresh
  <2> QED BY <1>2, <1>3, <2>1
<1>7. CASE SkipCommit
  <2>1. /\ phase = "cloned" /\ ApplyBatch(clone.base, batch) = clone.base
        /\ UNCHANGED pending /\ batch'[k] = NoOp /\ phase' = "idle"
    BY <1>0, <1>7 DEF SkipCommit, FlushDone
  <2>2. clone.base \in Tree
    BY <1>0 DEF Clones
  <2>3. After(batch[k], clone.base.live[k]) = clone.base.live[k]
    BY <1>0, <2>1, <2>2, ApplyBatchLive
  <2>4. batch[k] # w
    BY <1>0, <1>2, <1>n, <2>1, <2>3 DEF After
  <2> QED BY <1>2, <1>3, <2>1, <2>4
<1>8. CASE Commit
  <2>1. clone'.base = clone.base /\ phase = "cloned" /\ UNCHANGED <<pending, batch>>
    BY <1>0, <1>8 DEF Commit, Clones
  <2> QED BY <1>2, <1>3, <2>1
<1>9. CASE Push \/ PushReplyLost
  <2>1. remote' = ApplyBatch(remote, batch)
    BY <1>9, PushAppliesBatch DEF Push, PushReplyLost
  <2>2. After(batch[k], remote.live[k]) = None
    BY <1>0, <2>1, ApplyBatchLive DEF Fresh
  <2>3. batch[k] = NoOp
    BY <1>0, <1>2, <1>n, <2>2 DEF After
  <2>4. UNCHANGED pending /\ batch'[k] = NoOp /\ phase' \in {"idle", "failed"}
    BY <1>0, <1>9, <2>3 DEF Push, PushReplyLost, FlushDone
  <2> QED BY <1>2, <1>3, <2>3, <2>4
<1>10. CASE PushRejected \/ ArchiveError \/ ExportFault
  <2>1. UNCHANGED <<pending, batch>> /\ phase' = "failed"
    BY <1>10 DEF PushRejected, ArchiveError, ExportFault
  <2> QED BY <1>2, <1>3, <2>1
<1>11. CASE Requeue
  <2>1. /\ pending'[k] = IF batch[k] # NoOp THEN batch[k] ELSE pending[k]
        /\ batch'[k] = NoOp /\ phase' = "idle"
    BY <1>0, <1>11 DEF Requeue, FlushDone, PutBack
  <2> QED BY <1>2, <1>3, <1>n, <2>1
<1> QED BY <1>4, <1>5, <1>6, <1>7, <1>8, <1>9, <1>10, <1>11 DEF FlushStep, FaultStep

\* No step makes the inventory-controller skip a first export: its hash is in the cache
\* only while the manifest is on its way, and a restart lists the object again.
LEMMA FirstExportNext ==
  ASSUME AccordBase, [AccordNext]_allVars, NEW k \in Keys, Fresh(k), repoSet', repoSet => FirstExport(k),
         cluster'[k] = cluster[k], remote'.live[k] = remote.live[k]
  PROVE  FirstExport(k)'
<1> DEFINE w == WriteOp(cluster[k].material)
<1>0. /\ TypeOK /\ WorkerTypeOK /\ WorkerInv /\ pending \in Batches /\ batch \in Batches
      /\ cache \in [Keys -> Hashes \cup {None}] /\ KindOf[k] \in Kinds
      /\ Present(cluster[k]) /\ cluster[k].ann = None /\ cluster[k].material \in Contents
  BY KindOfAssumption, ObjectTypes DEF AccordBase, AccordTypeOK, TypeOK, WorkerTypeOK, BaseInv, Fresh
<1>e. (FirstExport(k))' <=>
         /\ k \in queue' \/ Reading(k)' \/ w \in {pending'[k], batch'[k]}
         /\ Reading(k)' => Obj(k)' = cluster[k]
         /\ cache'[k] # None => w \in {pending'[k], batch'[k]}
         /\ {pending'[k], batch'[k]} \subseteq {NoOp, w}
         /\ phase' \in {"cloned", "committed"} => clone'.base.live[k] = None
  BY DEF FirstExport, Queued, WriteOp
<1>w. WriteOp(cluster[k].material) = w
  OBVIOUS
<1> HIDE DEF w
<1>1. CASE Restart
  <2>1. /\ k \in queue' /\ rec'[KindOf[k]].key = None /\ cache'[k] = None
        /\ pending'[k] = NoOp /\ batch'[k] = NoOp /\ phase' = "idle"
    BY <1>0, <1>1 DEF Restart, WorkerLost, Listed, Idle, EmptyBatch
  <2> QED BY <1>e, <2>1, NoneAssumption DEF Reading
<1>2. CASE ~Restart
  <2>0. repoSet
    BY <1>2, AccordKinds DEF ReconcileGet, Reconcile, ReconcileArchive, ReconcileIgnore, ReconcileExport,
         Finish, UserEdit, UserDelete, GitEdit, ForeignCommit, vars, workerVars, ServeWatched,
         Flush, FlushStep, FlushTake, FlushDrop, Clone, SkipCommit, Commit, Push, PushRejected,
         ArchiveError, Requeue, Fault, FaultStep, PushReplyLost, ExportFault
  <2>p. /\ k \in queue \/ Reading(k) \/ w \in {pending[k], batch[k]}
        /\ Reading(k) => Obj(k) = cluster[k]
        /\ cache[k] # None => w \in {pending[k], batch[k]}
        /\ {pending[k], batch[k]} \subseteq {NoOp, w}
        /\ phase \in {"cloned", "committed"} => clone.base.live[k] = None
    BY <1>w, <2>0 DEF FirstExport, Queued
  <2>1. CASE Flush \/ Fault
    BY <1>0, <2>0, <2>1, FirstExportFlush DEF Flush, Fault
  <2>2. ASSUME NEW j \in Keys, ReconcileGet(j) PROVE FirstExport(k)'
    <3>1. UNCHANGED <<pending, batch, phase, clone, cache>> /\ queue' = queue \ {j}
      BY <2>2 DEF ReconcileGet, workerVars
    <3>2. CASE j = k
      <4>1. rec'[KindOf[k]] = [key |-> k, obj |-> cluster[k]]
        BY <1>0, <2>2, <3>2, RecMoves
      <4>2. Reading(k)' /\ Obj(k)' = cluster[k]
        BY <4>1 DEF Reading, Obj
      <4> QED BY <1>e, <2>p, <3>1, <4>2
    <3>3. CASE j # k
      <4>1. \/ (Reading(k)' <=> Reading(k)) /\ Obj(k)' = Obj(k)
            \/ ~Reading(k)' /\ ~Reading(k)
        BY <1>0, <2>2, <3>3, RecMoves DEF Reading, Obj
      <4> QED BY <1>e, <2>p, <3>1, <3>3, <4>1
    <3> QED BY <3>2, <3>3
  <2>3. ASSUME NEW j \in Keys, j # k, Reconcile(j) PROVE FirstExport(k)'
    <3>1. UNCHANGED <<batch, phase, clone>> /\ queue \subseteq queue'
      BY <2>3 DEF Reconcile, ReconcileArchive, ReconcileIgnore, ReconcileExport, Finish, RenderError
    <3>2. pending'[k] = pending[k]
      BY <1>0, <2>3, ReconcilePending DEF Batches
    <3>3. cache'[k] = cache[k]
      BY <1>0, <2>3 DEF Reconcile, ReconcileArchive, ReconcileIgnore, ReconcileExport
    <3>4. \/ (Reading(k)' <=> Reading(k)) /\ Obj(k)' = Obj(k)
          \/ ~Reading(k)' /\ ~Reading(k)
      BY <1>0, <2>3, RecMoves DEF Reading, Obj
    <3> QED BY <1>e, <2>p, <3>1, <3>2, <3>3, <3>4
  <2>4. ASSUME Reconcile(k) PROVE FirstExport(k)'
    <3>1. Reading(k) /\ ~Reading(k)' /\ Obj(k) = cluster[k]
      BY <1>0, <2>4, <2>p, RecMoves DEF Reading
    <3>2. UNCHANGED <<batch, phase, clone>>
      BY <2>4 DEF Reconcile, ReconcileArchive, ReconcileIgnore, ReconcileExport, Finish
    <3>3. ~AnnotationMatches(cluster[k]) /\ MaterialHash(cluster[k].material) # None
      BY <1>0, HashesAssumption DEF AnnotationMatches, Hashes
    <3>4. CASE ReconcileArchive(k)
      BY <1>0, <3>1, <3>4 DEF ReconcileArchive, Obj
    <3>5. CASE ReconcileIgnore(k)
      <4>1. UNCHANGED <<pending, cache>> /\ cache[k] = MaterialHash(cluster[k].material)
        BY <3>1, <3>3, <3>5 DEF ReconcileIgnore, Known, Obj
      <4> QED BY <1>e, <2>p, <3>1, <3>2, <3>3, <4>1
    <3>6. CASE ReconcileExport(k)
      <4>1. pending'[k] = w
        BY <1>0, <1>w, <3>1, <3>6, TemplateAssumption
           DEF ReconcileExport, RenderError, Enqueue, Obj, Batches
      <4> QED BY <1>e, <2>p, <3>1, <3>2, <4>1
    <3> QED BY <2>4, <3>4, <3>5, <3>6 DEF Reconcile
  <2>5. ASSUME NEW j \in Keys, NEW c \in Owned(j), GitEdit(j, c) PROVE FirstExport(k)'
    <3>1. UNCHANGED <<pending, batch, phase, cache, queue, rec>>
      BY <2>5 DEF GitEdit, ForeignCommit, controllerVars
    <3>2. clone'.base = clone.base
      BY <1>0, <2>5 DEF GitEdit, ForeignCommit, WorkerTypeOK, Clones
    <3> QED BY <1>e, <2>p, <3>1, <3>2 DEF Reading, Obj
  <2>6. ASSUME UNCHANGED <<workerVars, cache, rec>>, queue \subseteq queue' PROVE FirstExport(k)'
    BY <1>e, <2>6, <2>p DEF workerVars, Reading, Obj
  <2> QED BY <1>2, <2>1, <2>2, <2>3, <2>4, <2>5, <2>6, AccordKinds
          DEF UserEdit, UserDelete, Event, vars, controllerVars, ServeWatched
<1> QED BY <1>1, <1>2

\* While nobody changes the cluster, only the sync-operator does.
LEMMA GitNext ==
  ASSUME AccordBase, AccordBase', LatestInv, OrderInv, GitInv, [AccordNext]_allVars
  PROVE  GitInv'
<1> SUFFICES ASSUME ~Overlapping, count'["edit"] = 0, count'["delete"] = 0, NEW k \in Keys
             PROVE  /\ Mentioned(k)' => Outstanding(k)' \/ Mirrored(k)' \/ Reflected(k)'
                    /\ ~Mentioned(k)' => Mirrored(k)' \/ Fresh(k)'
                    /\ ~Mentioned(k)' /\ Fresh(k)' /\ repoSet' => FirstExport(k)'
  BY DEF GitInv
<1>0. TypeOK /\ OwnInv
  BY DEF AccordBase, AccordTypeOK
<1>1. count["edit"] = 0 /\ count["delete"] = 0
  <2>1. "edit" \in Events /\ "delete" \in Events
    BY DEF Events
  <2> QED BY <1>0, <2>1, CountsGrow
<1>2. /\ Mentioned(k) => Outstanding(k) \/ Mirrored(k) \/ Reflected(k)
      /\ ~Mentioned(k) => Mirrored(k) \/ Fresh(k)
      /\ ~Mentioned(k) /\ Fresh(k) /\ repoSet => FirstExport(k)
  BY <1>1 DEF GitInv
<1>3. (~\E h \in Handlers : ServeWatched(h)) => UNCHANGED cluster
  <2>1. ASSUME NEW j \in Keys, NEW c \in Declared(j), UserEdit(j, c) PROVE FALSE
    BY <1>0, <2>1, CountsGrow DEF Declared
  <2>2. ASSUME NEW j \in Keys, UserDelete(j) PROVE FALSE
    BY <1>0, <2>2, CountsGrow
  <2> QED BY <2>1, <2>2, AccordKinds DEF ReconcileGet, Reconcile, ReconcileArchive, ReconcileIgnore,
             ReconcileExport, Finish, GitEdit, Restart, Flush, Fault, vars
<1>4. CASE remote'.live[k] # remote.live[k]
  BY <1>4, ObjectNews
<1>5. CASE remote'.live[k] = remote.live[k] /\ cluster'[k] = cluster[k] /\ Outstanding(k)' = Outstanding(k)
  <2>1. Mentioned(k)' <=> Mentioned(k)
    BY <1>5, ObjectNews
  <2>2. (Mirrored(k)' <=> Mirrored(k)) /\ (Fresh(k)' <=> Fresh(k)) /\ (Reflected(k)' <=> Reflected(k))
    BY <1>5 DEF Mirrored, Fresh, Present, Reflected, Sync!AppliedFrom, Sync!Application, Sync!MaterialHash
  <2>3. ~Mentioned(k)' /\ Fresh(k)' /\ repoSet' => FirstExport(k)'
    BY <1>2, <1>5, <2>1, <2>2, FirstExportNext
  <2> QED BY <1>2, <1>5, <2>1, <2>2, <2>3
<1>6. CASE /\ remote'.live[k] = remote.live[k] /\ Outstanding(k)
           /\ Outstanding(k)' \/ cluster'[k] \in ObjectsFor(remote.live[k])
  <2>1. Mentioned(k)'
    BY <1>6, OutstandingIsMentioned, ObjectNews
  <2>2. ASSUME cluster'[k] \in ObjectsFor(remote.live[k]) PROVE Mirrored(k)' \/ Reflected(k)'
    <3>1. CASE remote.live[k] = None
      BY <1>6, <2>2, <3>1 DEF ObjectsFor, Mirrored, Absent
    <3>2. CASE remote.live[k] # None
      <4>1. cluster'[k] \in Sync!AppliedFrom(remote.live[k])
        BY <2>2, <3>2 DEF ObjectsFor
      <4>2. Reflected(k)'
        BY <1>6, <3>2, <4>1 DEF Reflected, Sync!AppliedFrom, Sync!Application, Sync!MaterialHash
      <4> QED BY <4>2
    <3> QED BY <3>1, <3>2
  <2> QED BY <1>6, <2>1, <2>2
<1>7. CASE \E h \in Handlers : ServeWatched(h)
  BY <1>5, <1>6, <1>7, ObjectNews
<1>8. CASE ~\E h \in Handlers : ServeWatched(h)
  BY <1>3, <1>4, <1>5, <1>8, ObjectNews
<1> QED BY <1>7, <1>8

-----------------------------------------------------------------------------
(* At rest both sides agree.                                               *)

\* Whenever the two programs are at rest and people have changed one side only, the
\* other side has followed, for any number of objects, changes, requests and restarts:
\* the loop breaks of handle swallow no edit and no first export, and no apply that
\* came late is left standing.
THEOREM InSyncAtRest == AccordSpec => []RestInSync
<1> DEFINE Both == LatestInv /\ OrderInv
           Ours == CacheInv /\ NeverThere /\ SettledInv /\ NoRemovals /\ AnnotationInv
           Inv == AccordBase /\ Both /\ Ours /\ GitInv
<1>1. AccordInit => Inv
  BY AccordBaseInit, OrderInit, CacheInit, NeverInit, SettledInit, NoRemovalsInit, AnnotationInit, GitInit
     DEF AccordInit
<1>2. Inv /\ [AccordNext]_allVars => Inv'
  <2> SUFFICES ASSUME Inv, [AccordNext]_allVars PROVE Inv'
    OBVIOUS
  <2>1. AccordBase'
    BY AccordBaseNext
  <2>2. Both'
    BY <2>1, LatestNext, OrderNext
  <2>3. Ours'
    BY <2>1, SettledStill, NoRemovalsNext, AnnotationNext
  <2>4. GitInv'
    BY <2>1, GitNext
  <2> QED BY <2>1, <2>2, <2>3, <2>4
<1>3. Inv => RestInSync
  <2> SUFFICES ASSUME Inv, ~Overlapping, repoSet, Rest, OneSided, NEW k \in Keys
               PROVE  Mirrored(k) \/ (OnlyGit /\ Reflected(k))
    BY DEF RestInSync
  <2>1. CASE count["foreign"] = 0 /\ count["fault"] = 0 /\ NoDeleteForgotten
    BY <2>1, ClusterOnlyAtRest
  <2>2. CASE OnlyGit
    <3>1. /\ Mentioned(k) => Outstanding(k) \/ Mirrored(k) \/ Reflected(k)
          /\ ~Mentioned(k) => Mirrored(k) \/ Fresh(k)
          /\ ~Mentioned(k) /\ Fresh(k) => FirstExport(k)
      BY <2>2 DEF GitInv, OnlyGit
    <3>2. /\ k \notin queue /\ ~Reading(k)
          /\ pending[k] = NoOp /\ batch[k] = NoOp
          /\ ~Outstanding(k)
      BY NothingAtRest
    <3>3. ~FirstExport(k)
      BY <3>2 DEF FirstExport, Queued, WriteOp, NoOp
    <3> QED BY <2>2, <3>1, <3>2, <3>3
  <2> QED BY <2>1, <2>2 DEF OneSided
<1> HIDE DEF Inv
<1> QED BY <1>1, <1>2, <1>3, PTL DEF AccordSpec
=============================================================================
