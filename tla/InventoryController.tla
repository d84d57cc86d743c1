------------------------ MODULE InventoryController ------------------------
(***************************************************************************)
(* The inventory-controller: the reconcilers of internal/inventory in      *)
(* front of the batch worker, and the API server whose objects they watch. *)
(*                                                                         *)
(* There is one controller per Kind, each with one worker goroutine; they  *)
(* share the hash cache and the export queue.  A reconcile first reads the *)
(* object and later acts on what it read; users, the other controller and  *)
(* the flush run in between.  The cache and the queue entry of a key are   *)
(* touched only by the controller of its Kind, so all that follows the     *)
(* read is one step.                                                       *)
(***************************************************************************)
EXTENDS BatchWorker, Naturals

CONSTANTS
    Kinds,        \* Application, ApplicationSet
    KindOf,       \* the Kind of a key
    Renderable,   \* the keys for which EXPORT_PATH_TEMPLATE executes
    Applied,      \* the keys whose object was once applied from Git
    Limit         \* bounds on what users, the network and the node do

Events == {"edit", "delete", "foreign", "fault", "restart"}

ASSUME KindOfAssumption == KindOf \in [Keys -> Kinds]
ASSUME RenderableAssumption == Renderable \subseteq Keys
ASSUME AppliedAssumption == Applied \subseteq Keys
ASSUME LimitAssumption == Limit \in [Events -> Nat]

VARIABLES
    cluster,   \* the objects in the API server
    cache,     \* HashCache: the last material hash per key
    queue,     \* keys with an event no reconcile has begun to handle
    rec,       \* per Kind, the reconcile in progress
    count      \* how often each of Events has happened

controllerVars == <<cache, queue, rec>>
vars == <<workerVars, cluster, controllerVars, count>>

\* SHA-256 of the canonical JSON, taken to be collision free.
MaterialHash(c) == <<"sha256", c>>

Hashes == {MaterialHash(c) : c \in Contents}

ASSUME HashesAssumption == None \notin Hashes \cup {MaterialHash(None)}

\* An object is its material part, which normalization keeps and hashes, and
\* the annotation accord.io/sync-content-hash, which normalization strips.
Objects == [material : Contents, ann : Hashes \cup {None}]

Absent == [material |-> None, ann |-> None]

Present(o) == o.material # None

\* A reconcile of key has read obj; the idle goroutine has no key.
Reconciles == [key : Keys \cup {None}, obj : Objects \cup {Absent}]

Idle == [key |-> None, obj |-> Absent]

\* The annotation names the hash of the object's own material.
AnnotationMatches(o) == o.ann = MaterialHash(o.material)

-----------------------------------------------------------------------------
(* The reconcilers.                                                        *)

\* Client.Get: the object as the API server has it now.  The key leaves the
\* workqueue; an event during the reconcile queues it again.  A Get that fails,
\* other than with NotFound, puts the key back and changes nothing: no step here.
ReconcileGet(k) ==
    /\ k \in queue
    /\ rec[KindOf[k]] = Idle
    /\ rec' = [rec EXCEPT ![KindOf[k]] = [key |-> k, obj |-> cluster[k]]]
    /\ queue' = queue \ {k}
    /\ UNCHANGED <<workerVars, cluster, cache, count>>

\* The goroutine of k's Kind ends its reconcile of k.
Finish(k) ==
    /\ rec[KindOf[k]].key = k
    /\ rec' = [rec EXCEPT ![KindOf[k]] = Idle]
    /\ UNCHANGED <<repoSet, phase, batch, clone, remote, cluster, count>>

\* RenderExportPath failed: the reconciler returns the error and the key is
\* put back with a delay.
RenderError(k) ==
    /\ k \notin Renderable
    /\ queue' = queue \cup {k}
    /\ UNCHANGED pending

\* NotFound: the cache entry is dropped and the live file is to be archived.
ReconcileArchive(k) ==
    LET o == rec[KindOf[k]].obj IN
    /\ Finish(k)
    /\ ~Present(o)
    /\ cache' = [cache EXCEPT ![k] = None]
    /\ \/ k \in Renderable /\ EnqueueArchive(k) /\ UNCHANGED queue
       \/ RenderError(k)

\* Faulty variants: an annotation of any value, the annotation alone and the
\* cache alone make an event known.
KnownByAnyAnnotation(k, o) == o.ann # None \/ cache[k] = MaterialHash(o.material)
KnownByAnnotation(k, o) == AnnotationMatches(o)
KnownByCache(k, o) == cache[k] = MaterialHash(o.material)

\* The two loop breaks of handle.
Known(k, o) == AnnotationMatches(o) \/ cache[k] = MaterialHash(o.material)

\* handle: the hash is the one of the annotation or of the cache.
ReconcileIgnore(k) ==
    LET o == rec[KindOf[k]].obj IN
    /\ Finish(k)
    /\ Present(o)
    /\ Known(k, o)
    /\ UNCHANGED <<pending, cache, queue>>

\* Faulty variant: a path that cannot be rendered is tried again on the spot.
ReconcileExportInPlace(k) ==
    LET o == rec[KindOf[k]].obj IN
    /\ k \in Renderable
    /\ Finish(k)
    /\ Present(o)
    /\ ~Known(k, o)
    /\ cache' = [cache EXCEPT ![k] = MaterialHash(o.material)]
    /\ Enqueue(k, o.material)
    /\ UNCHANGED queue

\* handle: a new hash is cached first, then the path rendered and the
\* normalized YAML enqueued.
ReconcileExport(k) ==
    LET o == rec[KindOf[k]].obj IN
    /\ Finish(k)
    /\ Present(o)
    /\ ~Known(k, o)
    /\ cache' = [cache EXCEPT ![k] = MaterialHash(o.material)]
    /\ \/ k \in Renderable /\ Enqueue(k, o.material) /\ UNCHANGED queue
       \/ RenderError(k)

Reconcile(k) == ReconcileArchive(k) \/ ReconcileIgnore(k) \/ ReconcileExport(k)

-----------------------------------------------------------------------------
(* Users, and the watch that turns every change into an event.             *)

Happens(e) ==
    /\ count[e] < Limit[e]
    /\ count' = [count EXCEPT ![e] = @ + 1]

Event(k) == queue' = queue \cup {k}

\* Somebody creates the object or edits its material part; an edit leaves
\* the annotation of the last apply in place.
UserEdit(k, c) ==
    /\ Happens("edit")
    /\ cluster[k].material # c
    /\ cluster' = [cluster EXCEPT ![k].material = c]
    /\ Event(k)
    /\ UNCHANGED <<workerVars, cache, rec>>

UserDelete(k) ==
    /\ Happens("delete")
    /\ Present(cluster[k])
    /\ cluster' = [cluster EXCEPT ![k] = Absent]
    /\ Event(k)
    /\ UNCHANGED <<workerVars, cache, rec>>

\* A status update or a resync: an event without a change of material.
Touch(k) ==
    /\ Present(cluster[k])
    /\ k \notin queue
    /\ Event(k)
    /\ UNCHANGED <<workerVars, cluster, cache, rec, count>>

\* The initial list of the informers.
Listed == {k \in Keys : Present(cluster[k])}

\* Faulty variant: the cache survives, the queue does not.
RestartKeepsCache ==
    /\ Happens("restart")
    /\ WorkerLost
    /\ queue' = Listed
    /\ rec' = [kind \in Kinds |-> Idle]
    /\ UNCHANGED <<remote, cluster, cache>>

\* The process dies and is started again: an empty cache and an empty export
\* queue, and one event for every object of the initial list.
Restart ==
    /\ Happens("restart")
    /\ WorkerLost
    /\ cache' = [k \in Keys |-> None]
    /\ queue' = Listed
    /\ rec' = [kind \in Kinds |-> Idle]
    /\ UNCHANGED <<remote, cluster>>

-----------------------------------------------------------------------------
(* The batch worker, seen from here.                                       *)

Flush ==
    /\ FlushStep
    /\ UNCHANGED <<cluster, controllerVars, count>>

Fault ==
    /\ Happens("fault")
    /\ FaultStep
    /\ UNCHANGED <<cluster, controllerVars>>

Foreign ==
    /\ Happens("foreign")
    /\ \E k \in Keys, l, a \in File : ForeignCommit(k, l, a)
    /\ UNCHANGED <<cluster, controllerVars>>

-----------------------------------------------------------------------------
\* The controller starts.  An object applied from Git carries the annotation
\* and Git has its manifest; of the others Git knows nothing.
Init ==
    /\ NewBatchWorker
    /\ cluster \in
         {f \in [Keys -> Objects \cup {Absent}] :
             \A k \in Keys : IF k \in Applied THEN Present(f[k]) /\ AnnotationMatches(f[k])
                             ELSE f[k].ann = None}
    /\ remote = [live    |-> [k \in Keys |-> IF k \in Applied THEN cluster[k].material ELSE None],
                 archive |-> [k \in Keys |-> None]]
    /\ cache = [k \in Keys |-> None]
    /\ queue = Listed
    /\ rec = [kind \in Kinds |-> Idle]
    /\ count = [e \in Events |-> 0]

Next ==
    \/ \E k \in Keys :
        \/ ReconcileGet(k)
        \/ ReconcileArchive(k)
        \/ ReconcileIgnore(k)
        \/ ReconcileExport(k)
        \/ \E c \in Contents : UserEdit(k, c)
        \/ UserDelete(k)
        \/ Touch(k)
    \/ Restart
    \/ Flush
    \/ Fault
    \/ Foreign

Spec == Init /\ [][Next]_vars

\* The workqueue is first in, first out, so a queued key is reconciled even
\* while events for others keep coming; reconciles return; the flush goroutine
\* keeps going.
FairSpec ==
    /\ Spec
    /\ \A k \in Keys : SF_vars(ReconcileGet(k)) /\ WF_vars(Reconcile(k))
    /\ WF_vars(Flush)

-----------------------------------------------------------------------------
(* Properties.                                                             *)

\* The objects, the cache, the workqueue and the reconciles have their types.
TypeOK ==
    /\ WorkerTypeOK
    /\ cluster \in [Keys -> Objects \cup {Absent}]
    /\ cache \in [Keys -> Hashes \cup {None}]
    /\ queue \subseteq Keys
    /\ rec \in [Kinds -> Reconciles]
    /\ count \in [Events -> Nat]

\* There is a repository, no export has failed, none will because its path
\* cannot be archived, and nobody else commits.
Undisturbed ==
    /\ repoSet
    /\ Renderable \subseteq Archivable
    /\ count["fault"] = 0 /\ count["foreign"] = 0

\* A hash in the cache suppresses every later event with that hash, so what
\* is cached must be what Git has or is about to get: for every interleaving
\* of handle, of the flush, of users and of restarts.
CacheMeansExported ==
    Undisturbed =>
        \A k \in Renderable :
            cache[k] # None => Upcoming(k) # None /\ cache[k] = MaterialHash(Upcoming(k))

\* No event is waiting, no reconcile is running, the export queue is empty.
AtRest ==
    /\ queue \cap Renderable = {}
    /\ \A k \in Renderable : rec[KindOf[k]].key # k /\ pending[k] = NoOp /\ batch[k] = NoOp

Mirrored(k) == remote.live[k] = cluster[k].material

\* A restart forgets the deletions nobody has reconciled yet.
NoDeleteForgotten == count["delete"] = 0 \/ count["restart"] = 0

\* Once the controller is at rest Git has the object's manifest, or the
\* object carries the annotation of the manifest it was applied from.
RestMirrors ==
    Undisturbed /\ NoDeleteForgotten /\ AtRest =>
        \A k \in Renderable : AnnotationMatches(cluster[k]) \/ Mirrored(k)

\* When users stop, the live files of Git become and stay the objects of the
\* cluster: "only the final state is committed" (ADR-0010), and after a
\* restart too (ADR-0001).
EventuallyMirrored == <>[](repoSet => \A k \in Renderable : Mirrored(k))

\* What of EventuallyMirrored the code keeps: it holds as long as no export
\* fails, no deletion is forgotten by a restart and the object was not applied
\* from Git before (its annotation may hide an edit back).
MirroredUnlessDisturbed ==
    <>[](Undisturbed /\ NoDeleteForgotten => \A k \in Renderable \ Applied : Mirrored(k))

\* Events without a change, for ever, do not make the controller commit for
\* ever: the cache and the annotation break the loop, also after faults,
\* restarts and commits of others; and a worker without a repository drops
\* what it is given (handle, flush).
EventuallyQuiet == <>[](pending = EmptyBatch /\ phase = "idle")
=============================================================================
