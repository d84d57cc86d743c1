------------------------------- MODULE Accord -------------------------------
(***************************************************************************)
(* The two-way sync: the inventory-controller exports the cluster to Git,  *)
(* GitHub tells the sync-operator of every push, its own exports included, *)
(* and the sync-operator applies the files to the cluster, whose events    *)
(* the inventory-controller watches.  What keeps this from going round in  *)
(* circles is the annotation of an apply and the cache of an export.       *)
(*                                                                         *)
(* The two programs share the API server (cluster) and the repository      *)
(* (remote), and nothing else.  Deliveries are neither lost nor forged nor *)
(* failed here: SyncOperator has those.                                    *)
(***************************************************************************)
EXTENDS InventoryController, InventoryPaths, FiniteSets

CONSTANTS
    PathOrder,     \* the files of the repository, as sort.Strings has them
    Merged,        \* what a server-side apply may leave on an object
    Handlers,      \* concurrently served webhook requests
    Overlapping,   \* may deliveries overlap and overtake each other?
    Patient,       \* do people act only when the system has come to rest?
    MaxChanges,    \* bound on the changes people make, on both sides together
    MaxTroubles    \* bound on failed exports and restarts together

ASSUME PeopleAssumption == Patient \in BOOLEAN /\ MaxChanges \in Nat /\ MaxTroubles \in Nat

\* A content names the object it declares; the Kind of a key is its own.
ASSUME ContentsAssumption == \A c \in Contents : c.id \in Keys
ASSUME KindsAssumption == \A k \in Keys : KindOf[k] = k.kind

\* What SyncOperator assumes of an apply, here of any two contents.
ASSUME MergedAssumption ==
    /\ Merged \in [Contents \cup {None} -> [Contents -> SUBSET Contents]]
    /\ \A c \in Contents : Merged[None][c] = {c} /\ Merged[c][c] = {c}
    /\ \A c \in Contents, d \in Contents \cup {None} :
          Merged[d][c] # {} /\ \A m \in Merged[d][c] : m.id = c.id

VARIABLES
    pushes,     \* the pushes made so far
    inbox,      \* the deliveries on their way
    handlers,   \* the requests the sync-operator is serving
    reported,   \* the objects whose last result was an error
    wanted,     \* history: what the last change by a person asks for
    hasty,      \* history: a person acted while the system was busy
    asked,      \* history: how often a manifest of each object was asked for
    left        \* history: how often an apply left fields its file does not have

syncVars == <<pushes, inbox, handlers, reported>>
historyVars == <<wanted, hasty, asked, left>>
allVars == <<vars, syncVars, historyVars>>

-----------------------------------------------------------------------------
(* The repository as both sides see it.                                    *)

LivePath(k) == RenderExportPath(DefaultTemplate, k)
ArchivePath(k) == ArchiveRelativePath(LivePath(k))

\* The files of the repository are the live and the archived files of Keys,
\* each once.
ASSUME PathOrderAssumption ==
    /\ Len(PathOrder) \in Nat /\ DOMAIN PathOrder = 1..Len(PathOrder)
    /\ {PathOrder[p] : p \in DOMAIN PathOrder} = {LivePath(k) : k \in Keys} \cup {ArchivePath(k) : k \in Keys}
    /\ \A p, q \in DOMAIN PathOrder : PathOrder[p] = PathOrder[q] => p = q

\* The names of Keys are names Kubernetes accepts: the sync-operator reads the
\* object off its live path and nothing off its archive path (PathsAgree).
ASSUME NamesAssumption ==
    /\ NotParsed \notin Keys
    /\ \A k \in Keys : /\ ParseInventoryExportPath(LivePath(k)) = k
                       /\ ParseInventoryExportPath(ArchivePath(k)) = NotParsed

\* With the default template every path renders and can be archived.
ASSUME TemplateAssumption == Renderable = Keys /\ Archivable = Keys

\* The object a file belongs to.
ObjectOf == [p \in DOMAIN PathOrder |->
                CHOOSE k \in Keys : PathOrder[p] \in {LivePath(k), ArchivePath(k)}]

IsLive == [p \in DOMAIN PathOrder |-> PathOrder[p] = LivePath(ObjectOf[p])]

\* A revision as the webhook sees it: its files, named by their paths.
Files(t) ==
    [p \in DOMAIN PathOrder |-> IF IsLive[p] THEN t.live[ObjectOf[p]] ELSE t.archive[ObjectOf[p]]]

Sync == INSTANCE SyncOperator WITH
            Manifests <- Contents, main <- Files(remote),
            MaxCommits <- 1, MaxFiles <- 2, Branches <- {"main"},
            count <- <<>>, Limit <- <<>>

\* A push that moves the branch is announced; nothing else is.
Announced ==
    IF remote' = remote THEN UNCHANGED <<pushes, inbox>>
    ELSE Sync!Announce("main", Files(remote), <<Files(remote)'>>)

-----------------------------------------------------------------------------
(* The steps of the two programs.                                          *)

\* A step of the inventory-controller that does not touch the repository.
Locally(A) == A /\ UNCHANGED <<syncVars, historyVars>>

FlushAnnounced ==
    /\ Flush
    /\ Announced
    /\ UNCHANGED <<handlers, reported, historyVars>>

\* The trouble the exports may still meet.
Troubled == count["fault"] + count["restart"] < MaxTroubles

FaultAnnounced ==
    /\ Troubled
    /\ Fault
    /\ Announced
    /\ UNCHANGED <<handlers, reported, historyVars>>

\* The object k has changed and is not the file its annotation names.
OthersLeft(k) ==
    /\ cluster'[k] # cluster[k]
    /\ Present(cluster'[k])
    /\ ~AnnotationMatches(cluster'[k])

\* A step of a webhook request.  The watch of the inventory-controller sees
\* every object the request changes or deletes.
ServeWatched(h) ==
    /\ UNCHANGED <<workerVars, cache, rec, count, wanted, hasty, asked>>
    /\ Sync!Serve(h)
    /\ queue' = queue \cup {k \in Keys : cluster'[k] # cluster[k]}
    /\ left' = [k \in Keys |-> IF OthersLeft(k) THEN left[k] + 1 ELSE left[k]]

\* GitHub sends the body of a delivery with its header.
Delivered(h) ==
    /\ UNCHANGED <<workerVars, controllerVars, count, historyVars>>
    /\ \E i \in inbox : Sync!Deliver(h, i, "received")

-----------------------------------------------------------------------------
(* People, in the cluster and in Git.                                      *)

\* Nothing is under way in either program or between them.
Rest ==
    /\ queue = {}
    /\ \A kind \in Kinds : rec[kind] = Idle
    /\ pending = EmptyBatch
    /\ phase = "idle"
    /\ inbox = {}
    /\ Sync!Busy = {}

\* A person asks for the content c of k, or for its removal.
Wants(k, c) ==
    /\ count["edit"] + count["delete"] + count["foreign"] < MaxChanges
    /\ Patient => Rest
    /\ wanted' = [wanted EXCEPT ![k] = c]
    /\ hasty' = (hasty \/ ~Rest)
    /\ asked' = IF c = None THEN asked ELSE [asked EXCEPT ![k] = @ + 1]
    /\ UNCHANGED left

\* What people declare for k.
Declared(k) == {c \in Contents : c.id = k}

EditInCluster(k, c) ==
    /\ UserEdit(k, c)
    /\ Wants(k, c)
    /\ UNCHANGED syncVars

DeleteInCluster(k) ==
    /\ UserDelete(k)
    /\ Wants(k, None)
    /\ UNCHANGED syncVars

\* Somebody commits a manifest of k, or removes its file.
EditInGit(k, c) ==
    /\ Happens("foreign")
    /\ ForeignCommit(k, c, remote.archive[k])
    /\ Announced
    /\ Wants(k, c)
    /\ UNCHANGED <<cluster, controllerVars, handlers, reported>>

\* An object of the cluster that Git does not know is still to be exported.
AccordInit ==
    /\ Init
    /\ \A k \in Keys : cluster[k].material \in Declared(k) \cup {None}
    /\ pushes = <<>>
    /\ inbox = {}
    /\ handlers = [h \in Handlers |-> Sync!Free]
    /\ reported = {}
    /\ wanted = [k \in Keys |-> cluster[k].material]
    /\ hasty = FALSE
    /\ asked = [k \in Keys |-> IF Present(cluster[k]) /\ k \notin Applied THEN 1 ELSE 0]
    /\ left = [k \in Keys |-> 0]

AccordNext ==
    \/ \E k \in Keys :
        \/ Locally(ReconcileGet(k))
        \/ Locally(Reconcile(k))
        \/ \E c \in Declared(k) : EditInCluster(k, c)
        \/ DeleteInCluster(k)
        \/ \E c \in Declared(k) \cup {None} : EditInGit(k, c)
    \/ Troubled /\ Locally(Restart)
    \/ FlushAnnounced
    \/ FaultAnnounced
    \/ \E h \in Handlers : ServeWatched(h) \/ Delivered(h)

\* A step of one of the two programs, or a delivery by GitHub.
Progress ==
    \/ \E k \in Keys : Locally(ReconcileGet(k)) \/ Locally(Reconcile(k))
    \/ FlushAnnounced
    \/ \E h \in Handlers : ServeWatched(h) \/ Delivered(h)

\* As long as there is something to do, something is done.
AccordSpec == AccordInit /\ [][AccordNext]_allVars /\ WF_allVars(Progress)

-----------------------------------------------------------------------------
(* Properties.                                                             *)

\* The pushes, the deliveries, the requests and the histories have their types.
AccordTypeOK ==
    /\ TypeOK
    /\ pushes \in Seq(Sync!PushEvents)
    /\ inbox \subseteq DOMAIN pushes
    /\ handlers \in [Handlers -> Sync!Requests]
    /\ reported \subseteq Keys
    /\ wanted \in [Keys -> File]
    /\ hasty \in BOOLEAN
    /\ asked \in [Keys -> Nat]
    /\ left \in [Keys -> Nat]

\* However the changes of both sides, the exports and the webhooks of these
\* exports interleave, with a failed export or a restart in between, the
\* echoes die out: the two programs come to rest (handle, flush, ADR-0006).
EchoesDieOut == <>[]Rest

\* The pushes that write the live file of k.
Writes(k) ==
    {i \in DOMAIN pushes :
        \E p \in DOMAIN PathOrder :
            IsLive[p] /\ ObjectOf[p] = k /\ p \in Sync!AddedModified(pushes[i].commits)}

\* The manifest of an object is written at most once for every time a person
\* asked for one, or once more for a failed export or a restart; every other write
\* goes back to an apply that left fields of another manager on the object, each
\* such apply to one write at most.  No other echo is exported, be it of somebody's
\* commit or of an export, even while changes of both sides are on their way
\* (the loop breaks of handle, the annotation of ApplyInventoryYAML).  ADR-0006 has
\* every echo of an apply blocked.
EveryWriteHasCause ==
    \A k \in Keys :
        Cardinality(Writes(k)) <= asked[k] + left[k] + count["fault"] + count["restart"]

\* Fields of others do not make the circle go on: what an apply left of them is
\* exported and applied in turn, and leaves nothing more, so there is one
\* such apply at most for every manifest asked for, failed export or restart.
OthersLeftOnce == \A k \in Keys : left[k] <= asked[k] + count["fault"] + count["restart"]

\* Git and the cluster agree on every object.
InSync == \A k \in Keys : Mirrored(k)

\* ADR-0005, architecture 10.2: after every change Git and the cluster agree.
EventuallyInSync == <>[](repoSet => InSync)

\* People change only Git.
OnlyGit == count["edit"] = 0 /\ count["delete"] = 0

\* People change only the cluster, no export fails and no restart forgets a
\* deletion; or they change only Git.
OneSided ==
    \/ count["foreign"] = 0 /\ count["fault"] = 0 /\ NoDeleteForgotten
    \/ OnlyGit

\* The object k is what an apply of its file in Git may have left.
Reflected(k) ==
    remote.live[k] # None /\ cluster[k] \in Sync!AppliedFrom(remote.live[k])

\* Whenever both programs are at rest and people have changed one side only, the
\* other side has followed, however hasty they were: no edit, deletion, restart
\* or first export is missed by the loop breaks, no apply is left behind and no
\* echo overwrites what it should not (handle, flush, ServeHTTP).  The cluster
\* has followed Git when the file was applied, fields of others or not.
RestInSync ==
    ~Overlapping /\ repoSet /\ Rest /\ OneSided =>
        \A k \in Keys : Mirrored(k) \/ (OnlyGit /\ Reflected(k))

\* What the last change asks for is what the cluster ends up with; a change in
\* Git does not ask for the fields of others to go.
Survives(k) ==
    \/ cluster[k].material = wanted[k]
    \/ /\ count["foreign"] > 0
       /\ wanted[k] # None
       /\ \E d \in Contents \cup {None} : cluster[k].material \in Merged[d][wanted[k]]

\* No change by a person is undone by the two programs.
LastChangeSurvives == <>[](repoSet => \A k \in Keys : Survives(k))

\* A restarted controller exports the fields of others anew, be they in an
\* object that is just being removed in Git.
NoneLeftOver == count["restart"] = 0 \/ \A k \in Keys : left[k] = 0

\* On one side, changes made while nothing is under way survive the whole circle of
\* exports, webhooks, applies and watch events: at the next rest the cluster
\* still has what was asked for (handle, flush, ServeHTTP).
UnhurriedChangesSurvive ==
    ~Overlapping /\ repoSet /\ Rest /\ OneSided /\ ~hasty /\ NoneLeftOver =>
        \A k \in Keys : Survives(k)
=============================================================================
