--------------------- MODULE InventoryControllerProofs ---------------------
(***************************************************************************)
(* Proofs about the inventory-controller, for any set of objects, Kinds    *)
(* and manifests and any number of edits, deletions, faults, restarts and  *)
(* commits of others.                                                      *)
(***************************************************************************)
EXTENDS InventoryController, BatchWorkerProofs

-----------------------------------------------------------------------------
(* The steps, grouped by what they do to the worker.                       *)

\* Users and the watch.
UserStep == \E k \in Keys : (\E c \in Contents : UserEdit(k, c)) \/ UserDelete(k) \/ Touch(k)

\* The kinds of step the proofs tell apart.
LEMMA StepKinds ==
  ASSUME [Next]_vars
  PROVE  \/ \E k \in Keys : ReconcileGet(k) \/ Reconcile(k)
         \/ UserStep
         \/ Restart
         \/ Flush
         \/ Fault \/ Foreign
         \/ UNCHANGED vars
  BY DEF Next, Reconcile, UserStep

\* Restarts, flushes, faults and foreign commits are steps of the worker.
LEMMA WorkerSteps ==
  ASSUME Restart \/ Flush \/ Fault \/ Foreign
  PROVE  WorkerStep
  BY DEF Restart, Flush, Fault, Foreign, WorkerStep, Lost, Committed

\* A reconcile hands over at most one operation, for its own key.
LEMMA ReconcilePending ==
  ASSUME NEW k \in Keys, Reconcile(k)
  PROVE  \/ UNCHANGED pending
         \/ k \in Renderable /\ \E op \in Ops \cup {WriteOp(rec[KindOf[k]].obj.material)} :
              pending' = [pending EXCEPT ![k] = op]
  BY DEF Reconcile, ReconcileArchive, ReconcileIgnore, ReconcileExport, RenderError, Enqueue,
         EnqueueArchive, Ops

-----------------------------------------------------------------------------
(* Type correctness.                                                       *)

\* An object that is there has a content.
LEMMA ObjectTypes ==
  ASSUME NEW o \in Objects \cup {Absent}
  PROVE  /\ o.material \in Contents \cup {None}
         /\ o.ann \in Hashes \cup {None}
         /\ Present(o) => o.material \in Contents
         /\ ~Present(o) => o = Absent
  BY NoneAssumption DEF Objects, Absent, Present

\* The controller starts with its types.
LEMMA TypeInit == Init => TypeOK
<1> SUFFICES ASSUME Init PROVE TypeOK
  OBVIOUS
<1>1. cluster \in [Keys -> Objects \cup {Absent}]
  BY DEF Init
<1>2. remote \in Tree
  <2>1. \A k \in Keys : cluster[k].material \in File
    BY <1>1, ObjectTypes DEF File
  <2>2. None \in File
    BY DEF File
  <2> QED BY <2>1, <2>2 DEF Init, Tree
<1>3. Idle \in Reconciles
  BY DEF Idle, Reconciles
<1>4. count \in [Events -> Nat]
  BY DEF Init
<1>5. queue \subseteq Keys /\ cache \in [Keys -> Hashes \cup {None}] /\ rec \in [Kinds -> Reconciles]
  BY <1>3 DEF Init, Listed
<1>6. WorkerTypeOK
  BY <1>2, EmptyTypes DEF Init, WorkerTypeOK, NewBatchWorker, Phases
<1> QED BY <1>1, <1>4, <1>5, <1>6 DEF TypeOK

\* Every step keeps the types.
LEMMA TypeNext == TypeOK /\ [Next]_vars => TypeOK'
<1> SUFFICES ASSUME TypeOK, [Next]_vars PROVE TypeOK'
  OBVIOUS
<1> USE DEF TypeOK
<1>0. Idle \in Reconciles
  BY DEF Idle, Reconciles
<1>c. ASSUME NEW e \in Events, Happens(e) PROVE count' \in [Events -> Nat]
  BY <1>c DEF Happens
<1>1. ASSUME NEW k \in Keys, ReconcileGet(k) PROVE TypeOK'
  <2>1. [key |-> k, obj |-> cluster[k]] \in Reconciles
    BY DEF Reconciles
  <2>2. rec' \in [Kinds -> Reconciles] /\ queue' \subseteq Keys
    BY <1>1, <2>1, KindOfAssumption DEF ReconcileGet
  <2> QED BY <1>1, <2>2 DEF ReconcileGet, workerVars, WorkerTypeOK
<1>2. ASSUME NEW k \in Keys, Reconcile(k) PROVE TypeOK'
  <2> DEFINE o == rec[KindOf[k]].obj
  <2>1. o \in Objects \cup {Absent}
    BY KindOfAssumption DEF Reconciles
  <2>2. Finish(k)
    BY <1>2 DEF Reconcile, ReconcileArchive, ReconcileIgnore, ReconcileExport
  <2>3. rec' \in [Kinds -> Reconciles]
    BY <1>0, <2>2 DEF Finish
  <2>4. CASE ReconcileArchive(k)
    <3>1. pending' \in Batches
      BY <2>4 DEF ReconcileArchive, RenderError, EnqueueArchive, WorkerTypeOK, Batches, Ops
    <3>2. cache' \in [Keys -> Hashes \cup {None}] /\ queue' \subseteq Keys
      BY <2>4 DEF ReconcileArchive, RenderError
    <3> QED BY <2>2, <2>3, <3>1, <3>2 DEF Finish, WorkerTypeOK
  <2>5. CASE ReconcileIgnore(k)
    BY <2>2, <2>3, <2>5 DEF ReconcileIgnore, Finish, WorkerTypeOK
  <2>6. CASE ReconcileExport(k)
    <3>1. o.material \in Contents
      BY <2>1, <2>6, ObjectTypes DEF ReconcileExport
    <3>2. WriteOp(o.material) \in Ops /\ MaterialHash(o.material) \in Hashes
      BY <3>1 DEF Ops, Hashes
    <3>3. pending' \in Batches
      BY <2>6, <3>2 DEF ReconcileExport, RenderError, Enqueue, WorkerTypeOK, Batches
    <3>4. cache' \in [Keys -> Hashes \cup {None}] /\ queue' \subseteq Keys
      BY <2>6, <3>2 DEF ReconcileExport, RenderError
    <3> QED BY <2>2, <2>3, <3>3, <3>4 DEF Finish, WorkerTypeOK
  <2> QED BY <1>2, <2>4, <2>5, <2>6 DEF Reconcile
<1>3. CASE UserStep
  <2>1. PICK k \in Keys : (\E c \in Contents : UserEdit(k, c)) \/ UserDelete(k) \/ Touch(k)
    BY <1>3 DEF UserStep
  <2>2. cluster' \in [Keys -> Objects \cup {Absent}]
    <3>1. ASSUME NEW c \in Contents, UserEdit(k, c) PROVE cluster' \in [Keys -> Objects \cup {Absent}]
      <4>1. [cluster[k] EXCEPT !.material = c] \in Objects
        BY DEF Objects, Absent
      <4> QED BY <3>1, <4>1 DEF UserEdit
    <3> QED BY <2>1, <3>1 DEF UserDelete, Touch
  <2>3. count' \in [Events -> Nat]
    BY <1>c, <2>1 DEF UserEdit, UserDelete, Touch, Events
  <2>4. queue' \subseteq Keys /\ UNCHANGED <<workerVars, cache, rec>>
    BY <2>1 DEF UserEdit, UserDelete, Touch, Event
  <2> QED BY <2>2, <2>3, <2>4 DEF workerVars, WorkerTypeOK
<1>4. CASE Restart \/ Flush \/ Fault \/ Foreign
  <2>1. WorkerTypeOK'
    BY <1>4, WorkerSteps, WorkerTypeStep
  <2>2. count' \in [Events -> Nat]
    BY <1>4, <1>c DEF Restart, Flush, Fault, Foreign, Events
  <2>3. CASE Restart
    BY <1>0, <2>1, <2>2, <2>3 DEF Restart, Listed
  <2>4. CASE Flush \/ Fault \/ Foreign
    BY <2>1, <2>2, <2>4 DEF Flush, Fault, Foreign, controllerVars
  <2> QED BY <1>4, <2>3, <2>4
<1>5. CASE UNCHANGED vars
  BY <1>5 DEF vars, workerVars, controllerVars, WorkerTypeOK
<1> QED BY <1>1, <1>2, <1>3, <1>4, <1>5, StepKinds

\* Objects, cache, workqueue, reconciles and worker always have their types.
THEOREM TypeCorrect == Spec => []TypeOK
  BY TypeInit, TypeNext, PTL DEF Spec

-----------------------------------------------------------------------------
(* The tie between batch, clone and branch, and what is ever exported.     *)

\* Only keys with a path are queued for export.
RenderedOnly == \A k \in Keys : pending[k] # NoOp \/ batch[k] # NoOp => k \in Renderable

BaseInv == WorkerInv /\ RenderedOnly

\* A worker step hands operations of a key on, it does not invent any.
LEMMA WorkerOps ==
  ASSUME WorkerTypeOK, WorkerInv, WorkerStep, NEW k \in Keys,
         pending[k] = NoOp, batch[k] = NoOp
  PROVE  /\ pending'[k] = NoOp /\ batch'[k] = NoOp
         /\ FlushStep \/ FaultStep \/ Lost => remote'.live[k] = remote.live[k]
<1>0. EmptyBatch[k] = NoOp /\ After(NoOp, remote.live[k]) = remote.live[k]
  BY DEF EmptyBatch, After, NoOp
<1>1. CASE Fastforward
  <2>1. remote'.live[k] = remote.live[k]
    BY <1>0, <1>1, PushAppliesBatch, ApplyBatchLive DEF WorkerTypeOK
  <2>2. pending'[k] = NoOp /\ batch'[k] = NoOp
    BY <1>0, <1>1 DEF WorkerStep, FlushStep, FaultStep, FlushTake, FlushDrop, Clone, SkipCommit,
              Commit, Push, PushRejected, ArchiveError, Requeue, PutBack, FlushDone, PushReplyLost,
              ExportFault, Lost, WorkerLost, Committed, ForeignCommit
  <2> QED BY <2>1, <2>2
<1>2. CASE ~Fastforward
  BY <1>0, <1>2 DEF WorkerStep, FlushStep, FaultStep, FlushTake, FlushDrop, Clone, SkipCommit,
        Commit, Push, PushRejected, ArchiveError, Requeue, PutBack, FlushDone, PushReplyLost,
        ExportFault, Lost, WorkerLost, Committed, ForeignCommit
<1> QED BY <1>1, <1>2

\* A fresh worker holds nothing.
LEMMA BaseInit == Init => BaseInv
  BY DEF Init, NewBatchWorker, BaseInv, RenderedOnly, EmptyBatch, WorkerInv, IdleIsEmpty,
         CloneCurrent, CommitIsBatch

\* Every step keeps BaseInv.
LEMMA BaseNext == TypeOK /\ BaseInv /\ [Next]_vars => BaseInv'
<1> SUFFICES ASSUME TypeOK, BaseInv, [Next]_vars PROVE BaseInv'
  OBVIOUS
<1> USE DEF BaseInv
<1>1. CASE Restart \/ Flush \/ Fault \/ Foreign
  <2>1. WorkerStep /\ WorkerTypeOK
    BY <1>1, WorkerSteps DEF TypeOK
  <2> QED BY <2>1, WorkerInvStep, WorkerOps DEF RenderedOnly
<1>2. ASSUME NEW k \in Keys, Reconcile(k) PROVE BaseInv'
  <2>1. UNCHANGED <<phase, batch, clone, remote>>
    BY <1>2 DEF Reconcile, ReconcileArchive, ReconcileIgnore, ReconcileExport, Finish
  <2>2. \A j \in Keys : pending'[j] = pending[j] \/ (j = k /\ k \in Renderable)
    BY <1>2, ReconcilePending DEF TypeOK, WorkerTypeOK, Batches
  <2> QED BY <2>1, <2>2, QuietWorkerInv DEF RenderedOnly
<1>3. CASE UserStep \/ UNCHANGED vars \/ \E k \in Keys : ReconcileGet(k)
  <2>1. UNCHANGED <<pending, phase, batch, clone, remote>>
    BY <1>3 DEF UserStep, UserEdit, UserDelete, Touch, vars, workerVars, ReconcileGet
  <2> QED BY <2>1, QuietWorkerInv DEF RenderedOnly
<1> QED BY <1>1, <1>2, <1>3, StepKinds

-----------------------------------------------------------------------------
(* What is cached is exported.                                             *)

\* Until an export fails the flush is healthy, and a cached hash is the hash of
\* what Git holds or is about to get.
CacheInv ==
    Undisturbed =>
        /\ Healthy
        /\ \A k \in Renderable :
            cache[k] # None => Upcoming(k) # None /\ cache[k] = MaterialHash(Upcoming(k))

\* When every rendered path can be archived, no archive fails.
LEMMA NothingUnarchivable ==
  ASSUME BaseInv, Undisturbed
  PROVE  ~ArchiveFails(pending) /\ ~ArchiveFails(batch)
  BY DEF BaseInv, RenderedOnly, Undisturbed, ArchiveFails, ArchiveOp, NoOp

\* The cache starts empty.
LEMMA CacheInit == Init => CacheInv
  BY FreshIsHealthy, RenderableAssumption DEF Init, NewBatchWorker, CacheInv

\* Every step keeps CacheInv while nothing is disturbed.
LEMMA CacheNext == TypeOK /\ BaseInv /\ CacheInv /\ [Next]_vars => CacheInv'
<1> SUFFICES ASSUME TypeOK, BaseInv, CacheInv, [Next]_vars, Undisturbed'
             PROVE  /\ Healthy'
                    /\ \A k \in Renderable : cache'[k] # None =>
                          Upcoming(k)' # None /\ cache'[k] = MaterialHash(Upcoming(k)')
  BY DEF CacheInv, MaterialHash
<1> USE RenderableAssumption
<1>1. ASSUME NEW k \in Keys, Reconcile(k)
      PROVE  /\ Healthy'
             /\ \A j \in Renderable : cache'[j] # None =>
                  Upcoming(j)' # None /\ cache'[j] = MaterialHash(Upcoming(j)')
  <2> DEFINE o == rec[KindOf[k]].obj
  <2>1. UNCHANGED <<repoSet, phase, batch, clone, remote, count>>
    BY <1>1 DEF Reconcile, ReconcileArchive, ReconcileIgnore, ReconcileExport, Finish
  <2>2. Undisturbed
    BY <2>1 DEF Undisturbed
  <2>3. Healthy'
    BY <2>1, <2>2 DEF CacheInv, Healthy, ArchiveFails
  <2>4. ASSUME NEW j \in Renderable, j # k
        PROVE  cache'[j] = cache[j] /\ Upcoming(j)' = Upcoming(j)
    <3>1. pending'[j] = pending[j]
      BY <1>1, <2>4, ReconcilePending DEF TypeOK, WorkerTypeOK, Batches
    <3>2. cache'[j] = cache[j]
      BY <1>1, <2>4 DEF Reconcile, ReconcileArchive, ReconcileIgnore, ReconcileExport, TypeOK
    <3> QED BY <2>1, <3>1, <3>2 DEF Upcoming
  <2>5. ASSUME k \in Renderable, cache'[k] # None
        PROVE  Upcoming(k)' # None /\ cache'[k] = MaterialHash(Upcoming(k)')
    <3>1. CASE ReconcileArchive(k)
      BY <2>5, <3>1 DEF ReconcileArchive, TypeOK
    <3>2. CASE ReconcileIgnore(k)
      BY <2>1, <2>2, <2>5, <3>2 DEF ReconcileIgnore, CacheInv, Upcoming
    <3>3. CASE ReconcileExport(k)
      <4>1. pending' = [pending EXCEPT ![k] = WriteOp(o.material)]
        BY <2>5, <3>3 DEF ReconcileExport, RenderError, Enqueue
      <4>2. pending'[k] = WriteOp(o.material)
        BY <4>1 DEF TypeOK, WorkerTypeOK, Batches
      <4>3. Upcoming(k)' = o.material
        BY <4>2 DEF Upcoming, After, WriteOp
      <4>4. cache'[k] = MaterialHash(o.material) /\ o.material # None
        BY <3>3 DEF ReconcileExport, Present, TypeOK
      <4> QED BY <4>3, <4>4
    <3> QED BY <1>1, <3>1, <3>2, <3>3 DEF Reconcile
  <2> QED BY <2>2, <2>3, <2>4, <2>5 DEF CacheInv
<1>2. CASE UserStep \/ UNCHANGED vars \/ \E k \in Keys : ReconcileGet(k)
  <2>1. UNCHANGED <<repoSet, pending, phase, batch, clone, remote, cache>>
    BY <1>2 DEF UserStep, UserEdit, UserDelete, Touch, vars, workerVars, controllerVars, ReconcileGet
  <2>2. count'["fault"] = count["fault"] /\ count'["foreign"] = count["foreign"]
    BY <1>2 DEF UserStep, UserEdit, UserDelete, Touch, Happens, vars, ReconcileGet, TypeOK, Events
  <2>3. Undisturbed
    BY <2>1, <2>2 DEF Undisturbed
  <2> QED BY <2>1, <2>3 DEF CacheInv, Healthy, ArchiveFails, Upcoming
<1>3. CASE Restart
  <2>1. phase' = "idle" /\ batch' = EmptyBatch /\ clone' = NoClone /\ \A k \in Keys : cache'[k] = None
    BY <1>3 DEF Restart, WorkerLost
  <2>2. Healthy'
    <3>1. NoClone.moved = FALSE
      BY DEF NoClone
    <3> QED BY <2>1, <3>1 DEF Healthy, ArchiveFails, EmptyBatch, NoOp, ArchiveOp
  <2> QED BY <2>1, <2>2
<1>4. CASE Flush
  <2>1. FlushStep /\ UNCHANGED <<cache, count>>
    BY <1>4 DEF Flush, controllerVars
  <2>2. UNCHANGED repoSet
    BY <2>1 DEF FlushStep, FlushTake, FlushDrop, Clone, SkipCommit, Commit, Push, PushRejected,
                ArchiveError, Requeue
  <2>3. Undisturbed
    BY <2>1, <2>2 DEF Undisturbed
  <2>4. WorkerTypeOK /\ WorkerInv /\ Healthy /\ repoSet /\ ~ArchiveFails(pending)
    BY <2>3, NothingUnarchivable DEF TypeOK, BaseInv, CacheInv, Undisturbed
  <2>5. Healthy' /\ \A k \in Keys : Upcoming(k)' = Upcoming(k)
    BY <2>1, <2>4, FlushKeepsHealthy, FlushKeepsUpcoming
  <2> QED BY <2>1, <2>3, <2>5 DEF CacheInv
<1>5. CASE Fault \/ Foreign
  BY <1>5 DEF Fault, Foreign, Happens, Undisturbed, TypeOK, Events
<1> QED BY <1>1, <1>2, <1>3, <1>4, <1>5, StepKinds

\* Whatever the cache suppresses, Git has or is about to get, as long as no export
\* fails: for every interleaving of reconciles, flushes, users and restarts.
THEOREM CachedIsExported == Spec => []CacheMeansExported
<1>1. Spec => []TypeOK
  BY TypeCorrect
<1>2. Init => BaseInv /\ CacheInv
  BY BaseInit, CacheInit
<1>3. TypeOK /\ (BaseInv /\ CacheInv) /\ [Next]_vars => (BaseInv /\ CacheInv)'
  BY BaseNext, CacheNext
<1>4. CacheInv => CacheMeansExported
  BY DEF CacheInv, CacheMeansExported
<1> QED BY <1>1, <1>2, <1>3, <1>4, PTL DEF Spec

-----------------------------------------------------------------------------
(* At rest Git mirrors the cluster.                                        *)

\* While nobody has deleted anything, an object that is not there never was: the
\* controller and Git have never heard of it.
NeverThere ==
    count["delete"] = 0 /\ count["foreign"] = 0 =>
        \A k \in Keys : ~Present(cluster[k]) =>
            /\ remote.live[k] = None
            /\ pending[k] = NoOp /\ batch[k] = NoOp
            /\ k \notin queue /\ rec[KindOf[k]].key # k

\* An object without a pending event is the one its reconcile has read or, with
\* no reconcile under way, the one Git holds or is about to get, unless it
\* carries the annotation of the manifest it was applied from.
SettledInv ==
    Undisturbed /\ NoDeleteForgotten =>
        \A k \in Renderable \ queue :
            IF rec[KindOf[k]].key = k
            THEN rec[KindOf[k]].obj = cluster[k]
            ELSE AnnotationMatches(cluster[k]) \/ Upcoming(k) = cluster[k].material

\* An object that does not exist at the start has no file and no operation.
LEMMA NeverInit == Init => NeverThere
<1> SUFFICES ASSUME Init, NEW k \in Keys, ~Present(cluster[k])
             PROVE  /\ remote.live[k] = None
                    /\ pending[k] = NoOp /\ batch[k] = NoOp
                    /\ k \notin queue /\ rec[KindOf[k]].key # k
  BY DEF NeverThere
<1>1. k \notin Applied
  BY DEF Init
<1>2. remote.live[k] = None
  BY <1>1 DEF Init
<1>3. rec[KindOf[k]].key = None
  BY KindOfAssumption DEF Init, Idle
<1> QED BY <1>2, <1>3, NoneAssumption DEF Init, NewBatchWorker, EmptyBatch, Listed

\* Without a deletion or a foreign commit, objects never created leave no trace.
LEMMA NeverNext == TypeOK /\ BaseInv /\ NeverThere /\ [Next]_vars => NeverThere'
<1> SUFFICES ASSUME TypeOK, BaseInv, NeverThere, [Next]_vars,
                    count'["delete"] = 0, count'["foreign"] = 0,
                    NEW k \in Keys, ~Present(cluster'[k])
             PROVE  /\ remote'.live[k] = None
                    /\ pending'[k] = NoOp /\ batch'[k] = NoOp
                    /\ k \notin queue' /\ rec'[KindOf[k]].key # k
  BY DEF NeverThere, Present
<1>0. KindOf[k] \in Kinds
  BY KindOfAssumption
<1>c. ASSUME NEW e \in Events, Happens(e) PROVE e \notin {"delete", "foreign"}
  BY <1>c DEF Happens, TypeOK, Events
<1>d. count["delete"] = 0 /\ count["foreign"] = 0
  <2>1. \/ UNCHANGED count
        \/ Happens("edit") \/ Happens("delete") \/ Happens("restart") \/ Happens("fault") \/ Happens("foreign")
    BY StepKinds DEF ReconcileGet, Reconcile, ReconcileArchive, ReconcileIgnore, ReconcileExport,
         Finish, UserStep, UserEdit, UserDelete, Touch, Restart, Flush, Fault, Foreign, vars
  <2> QED BY <2>1 DEF Happens, TypeOK, Events
<1>a. ~Present(cluster[k])
  <2>1. CASE cluster'[k] = cluster[k]
    BY <2>1
  <2>2. ASSUME NEW j \in Keys, NEW c \in Contents, UserEdit(j, c) PROVE cluster'[k] = cluster[k]
    <3>1. cluster' = [cluster EXCEPT ![j].material = c]
      BY <2>2 DEF UserEdit
    <3>2. j # k
      BY <3>1, NoneAssumption DEF TypeOK, Present, Objects, Absent
    <3> QED BY <3>1, <3>2 DEF TypeOK
  <2>3. ASSUME NEW j \in Keys, UserDelete(j) PROVE FALSE
    BY <1>c, <2>3 DEF UserDelete, Events
  <2>4. \/ UNCHANGED cluster
        \/ \E j \in Keys : (\E c \in Contents : UserEdit(j, c)) \/ UserDelete(j)
    BY StepKinds DEF ReconcileGet, Reconcile, ReconcileArchive, ReconcileIgnore, ReconcileExport,
         Finish, UserStep, Touch, Restart, Flush, Fault, Foreign, vars
  <2> QED BY <2>1, <2>2, <2>3, <2>4
<1>b. /\ remote.live[k] = None
      /\ pending[k] = NoOp /\ batch[k] = NoOp
      /\ k \notin queue /\ rec[KindOf[k]].key # k
  BY <1>a, <1>d DEF NeverThere
<1>1. ASSUME NEW j \in Keys, ReconcileGet(j)
      PROVE  k \notin queue' /\ rec'[KindOf[k]].key # k /\ UNCHANGED workerVars
  BY <1>0, <1>b, <1>1 DEF ReconcileGet, TypeOK
<1>2. ASSUME NEW j \in Keys, Reconcile(j)
      PROVE  k \notin queue' /\ rec'[KindOf[k]].key # k /\ UNCHANGED <<batch, remote>> /\ pending'[k] = pending[k]
  <2>1. j # k /\ Finish(j)
    BY <1>b, <1>2 DEF Reconcile, ReconcileArchive, ReconcileIgnore, ReconcileExport, Finish
  <2>2. rec'[KindOf[k]].key # k
    BY <1>0, <1>b, <2>1, NoneAssumption DEF Finish, Idle, TypeOK
  <2>3. pending'[k] = pending[k]
    BY <1>2, <2>1, ReconcilePending DEF TypeOK, WorkerTypeOK, Batches
  <2>4. k \notin queue'
    BY <1>b, <1>2, <2>1 DEF Reconcile, ReconcileArchive, ReconcileIgnore, ReconcileExport, RenderError
  <2> QED BY <2>1, <2>2, <2>3, <2>4 DEF Finish
<1>3. CASE UserStep
  <2>1. PICK j \in Keys : (\E c \in Contents : UserEdit(j, c)) \/ UserDelete(j) \/ Touch(j)
    BY <1>3 DEF UserStep
  <2>2. UNCHANGED <<workerVars, rec>> /\ queue' = queue \cup {j}
    BY <2>1 DEF UserEdit, UserDelete, Touch, Event
  <2>3. j # k
    <3>1. ASSUME NEW c \in Contents, UserEdit(j, c) PROVE j # k
      BY <3>1, NoneAssumption DEF UserEdit, TypeOK, Present, Objects, Absent
    <3>2. ASSUME UserDelete(j) PROVE FALSE
      BY <1>c, <3>2 DEF UserDelete, Events
    <3> QED BY <1>a, <2>1, <3>1, <3>2 DEF Touch
  <2> QED BY <1>b, <2>2, <2>3 DEF workerVars
<1>4. CASE Restart \/ Flush \/ Fault \/ Foreign
  <2>1. WorkerStep /\ ~Foreign
    BY <1>4, <1>c, WorkerSteps DEF Foreign, Events
  <2>2. FlushStep \/ FaultStep \/ Lost
    BY <1>4, <2>1 DEF Restart, Flush, Fault, Lost
  <2>3. pending'[k] = NoOp /\ batch'[k] = NoOp /\ remote'.live[k] = remote.live[k]
    BY <1>b, <2>1, <2>2, WorkerOps DEF TypeOK, BaseInv
  <2>4. k \notin queue' /\ rec'[KindOf[k]].key # k
    BY <1>0, <1>4, <1>a, <1>b, NoneAssumption
       DEF Restart, Flush, Fault, Foreign, Listed, Idle, controllerVars
  <2> QED BY <1>b, <2>3, <2>4
<1>5. CASE UNCHANGED vars
  BY <1>5, <1>b DEF vars, workerVars, controllerVars
<1> QED BY <1>b, <1>1, <1>2, <1>3, <1>4, <1>5, StepKinds DEF workerVars

\* What is not in the first list of the watch agrees with Git.
LEMMA SettledInit == Init => SettledInv
<1> SUFFICES ASSUME Init, NEW k \in Renderable, k \notin queue
             PROVE  /\ rec[KindOf[k]].key # k
                    /\ Upcoming(k) = cluster[k].material
  BY DEF SettledInv
<1>0. k \in Keys /\ KindOf[k] \in Kinds
  BY RenderableAssumption, KindOfAssumption
<1>1. rec[KindOf[k]].key # k
  BY <1>0, NoneAssumption DEF Init, Idle
<1>2. cluster[k].material = None /\ k \notin Applied
  BY <1>0 DEF Init, Listed, Present
<1>3. pending[k] = NoOp /\ batch[k] = NoOp /\ remote.live[k] = None
  BY <1>0, <1>2 DEF Init, NewBatchWorker, EmptyBatch
<1> QED BY <1>1, <1>2, <1>3 DEF Upcoming, After, NoOp

\* Every step keeps SettledInv: a key leaves the workqueue only for a reconcile that settles it.
LEMMA SettledNext ==
  TypeOK /\ BaseInv /\ CacheInv /\ NeverThere /\ SettledInv /\ [Next]_vars => SettledInv'
<1> SUFFICES ASSUME TypeOK, BaseInv, CacheInv, NeverThere, SettledInv, [Next]_vars,
                    Undisturbed', NoDeleteForgotten',
                    NEW k \in Renderable, k \notin queue'
             PROVE  IF rec'[KindOf[k]].key = k
                    THEN rec'[KindOf[k]].obj = cluster'[k]
                    ELSE AnnotationMatches(cluster'[k]) \/ Upcoming(k)' = cluster'[k].material
  BY DEF SettledInv, AnnotationMatches, MaterialHash
<1> DEFINE own == rec[KindOf[k]]
           settled == AnnotationMatches(cluster[k]) \/ Upcoming(k) = cluster[k].material
<1>0. k \in Keys /\ KindOf[k] \in Kinds
  BY RenderableAssumption, KindOfAssumption
<1>u. ASSUME UNCHANGED repoSet, \A e \in Events : count[e] <= count'[e]
      PROVE  Undisturbed /\ NoDeleteForgotten
  BY <1>u DEF Undisturbed, NoDeleteForgotten, TypeOK, Events
<1>p. ASSUME Undisturbed, NoDeleteForgotten, k \notin queue
      PROVE  IF own.key = k THEN own.obj = cluster[k] ELSE settled
  BY <1>p DEF SettledInv
<1>1. ASSUME NEW j \in Keys, ReconcileGet(j)
      PROVE  IF rec'[KindOf[k]].key = k THEN rec'[KindOf[k]].obj = cluster'[k]
             ELSE AnnotationMatches(cluster'[k]) \/ Upcoming(k)' = cluster'[k].material
  <2>1. UNCHANGED <<workerVars, cluster, count>>
    BY <1>1 DEF ReconcileGet
  <2>2. Undisturbed /\ NoDeleteForgotten
    BY <1>u, <2>1 DEF workerVars, TypeOK
  <2>3. CASE j = k
    <3>1. rec'[KindOf[k]].obj = cluster[k] /\ rec'[KindOf[k]].key = k
      BY <1>0, <1>1, <2>3 DEF ReconcileGet, TypeOK
    <3> QED BY <2>1, <3>1
  <2>4. CASE j # k
    <3>1. k \notin queue
      BY <1>1, <2>4 DEF ReconcileGet
    <3>2. CASE KindOf[j] = KindOf[k]
      <4>1. own.key # k /\ rec'[KindOf[k]].key = j
        BY <1>0, <1>1, <3>2, NoneAssumption DEF ReconcileGet, Idle, TypeOK
      <4> QED BY <1>p, <2>1, <2>2, <2>4, <3>1, <4>1 DEF Upcoming, workerVars
    <3>3. CASE KindOf[j] # KindOf[k]
      <4>1. rec'[KindOf[k]] = own
        BY <1>0, <1>1, <3>3 DEF ReconcileGet, TypeOK
      <4> QED BY <1>p, <2>1, <2>2, <3>1, <4>1 DEF Upcoming, workerVars
    <3> QED BY <3>2, <3>3
  <2> QED BY <2>3, <2>4
<1>2. ASSUME NEW j \in Keys, Reconcile(j)
      PROVE  IF rec'[KindOf[k]].key = k THEN rec'[KindOf[k]].obj = cluster'[k]
             ELSE AnnotationMatches(cluster'[k]) \/ Upcoming(k)' = cluster'[k].material
  <2>1. Finish(j) /\ UNCHANGED <<repoSet, batch, remote, cluster, count>>
    BY <1>2 DEF Reconcile, ReconcileArchive, ReconcileIgnore, ReconcileExport, Finish
  <2>2. Undisturbed /\ NoDeleteForgotten
    BY <1>u, <2>1 DEF TypeOK
  <2>3. k \notin queue
    BY <1>2 DEF Reconcile, ReconcileArchive, ReconcileIgnore, ReconcileExport, RenderError
  <2>4. CASE j # k
    <3>1. pending'[k] = pending[k]
      BY <1>0, <1>2, <2>4, ReconcilePending DEF TypeOK, WorkerTypeOK, Batches
    <3>2. IF KindOf[j] = KindOf[k] THEN own.key # k /\ rec'[KindOf[k]].key # k
          ELSE rec'[KindOf[k]] = own
      BY <1>0, <2>1, <2>4, NoneAssumption DEF Finish, Idle, TypeOK
    <3> QED BY <1>p, <2>1, <2>2, <2>3, <3>1, <3>2 DEF Upcoming
  <2>5. CASE j = k
    <3>1. rec'[KindOf[k]].key # k
      BY <1>0, <2>1, <2>5, NoneAssumption DEF Finish, Idle, TypeOK
    <3>2. own.obj = cluster[k] /\ cluster[k] \in Objects \cup {Absent}
      BY <1>0, <1>p, <2>1, <2>2, <2>3, <2>5 DEF Finish, TypeOK
    <3>3. CASE ReconcileArchive(k)
      <4>1. cluster[k].material = None
        BY <3>2, <3>3 DEF ReconcileArchive, Present
      <4>2. pending'[k] = ArchiveOp
        BY <1>0, <3>3 DEF ReconcileArchive, RenderError, EnqueueArchive, TypeOK, WorkerTypeOK, Batches
      <4> QED BY <2>1, <3>1, <4>1, <4>2 DEF Upcoming, After, ArchiveOp
    <3>4. CASE ReconcileIgnore(k)
      <4>1. UNCHANGED pending /\ Present(cluster[k]) /\ Known(k, cluster[k])
        BY <3>2, <3>4 DEF ReconcileIgnore
      <4>2. cache[k] = MaterialHash(cluster[k].material) => Upcoming(k) = cluster[k].material
        <5> SUFFICES ASSUME cache[k] = MaterialHash(cluster[k].material)
                     PROVE  Upcoming(k) = cluster[k].material
          OBVIOUS
        <5>1. cluster[k].material \in Contents
          BY <3>2, <4>1, ObjectTypes
        <5>2. cache[k] # None
          BY <5>1, HashesAssumption DEF Hashes
        <5> QED BY <2>2, <5>2 DEF CacheInv, MaterialHash
      <4> QED BY <2>1, <3>1, <4>1, <4>2 DEF Known, Upcoming
    <3>5. CASE ReconcileExport(k)
      <4>1. pending'[k] = WriteOp(cluster[k].material)
        BY <1>0, <3>2, <3>5 DEF ReconcileExport, RenderError, Enqueue, TypeOK, WorkerTypeOK, Batches
      <4> QED BY <2>1, <3>1, <4>1 DEF Upcoming, After, WriteOp
    <3> QED BY <1>2, <2>5, <3>3, <3>4, <3>5 DEF Reconcile
  <2> QED BY <2>4, <2>5
<1>3. CASE UserStep
  <2>1. PICK j \in Keys : (\E c \in Contents : UserEdit(j, c)) \/ UserDelete(j) \/ Touch(j)
    BY <1>3 DEF UserStep
  <2>2. UNCHANGED <<workerVars, rec>> /\ queue' = queue \cup {j}
    BY <2>1 DEF UserEdit, UserDelete, Touch, Event
  <2>3. j # k /\ k \notin queue
    BY <2>2
  <2>4. cluster'[k] = cluster[k]
    BY <1>0, <2>1, <2>3 DEF UserEdit, UserDelete, Touch, TypeOK
  <2>5. \A e \in Events : count[e] <= count'[e]
    BY <2>1 DEF UserEdit, UserDelete, Touch, Happens, TypeOK, Events
  <2>6. Undisturbed /\ NoDeleteForgotten
    BY <1>u, <2>2, <2>5 DEF workerVars
  <2> QED BY <1>p, <2>2, <2>3, <2>4, <2>6 DEF Upcoming, workerVars
<1>4. CASE Restart
  <2>1. k \notin Listed /\ rec'[KindOf[k]].key # k /\ UNCHANGED <<remote, cluster>>
    BY <1>0, <1>4, NoneAssumption DEF Restart, Idle
  <2>2. count["delete"] = 0 /\ count["foreign"] = 0
    BY <1>4 DEF Restart, Happens, Undisturbed, NoDeleteForgotten, TypeOK, Events
  <2>3. ~Present(cluster[k]) /\ remote.live[k] = None
    BY <1>0, <2>1, <2>2 DEF Listed, NeverThere
  <2>4. pending'[k] = NoOp /\ batch'[k] = NoOp
    BY <1>0, <1>4 DEF Restart, WorkerLost, EmptyBatch
  <2> QED BY <2>1, <2>3, <2>4 DEF Upcoming, After, NoOp, Present
<1>5. CASE Flush
  <2>1. FlushStep /\ UNCHANGED <<cluster, queue, rec, count>>
    BY <1>5 DEF Flush, controllerVars
  <2>2. UNCHANGED repoSet
    BY <2>1 DEF FlushStep, FlushTake, FlushDrop, Clone, SkipCommit, Commit, Push, PushRejected,
                ArchiveError, Requeue
  <2>3. Undisturbed /\ NoDeleteForgotten
    BY <1>u, <2>1, <2>2 DEF TypeOK
  <2>4. WorkerTypeOK /\ WorkerInv /\ Healthy /\ repoSet
    BY <2>3 DEF TypeOK, BaseInv, CacheInv, Undisturbed
  <2>5. Upcoming(k)' = Upcoming(k)
    BY <1>0, <2>1, <2>4, FlushKeepsUpcoming
  <2> QED BY <1>p, <2>1, <2>3, <2>5
<1>6. CASE Fault \/ Foreign
  BY <1>6 DEF Fault, Foreign, Happens, Undisturbed, TypeOK, Events
<1>7. CASE UNCHANGED vars
  <2>1. UNCHANGED <<workerVars, cluster, queue, rec, count>>
    BY <1>7 DEF vars, controllerVars
  <2>2. Undisturbed /\ NoDeleteForgotten
    BY <1>u, <2>1 DEF workerVars, TypeOK
  <2> QED BY <1>p, <2>1, <2>2 DEF Upcoming, workerVars
<1> QED BY <1>1, <1>2, <1>3, <1>4, <1>5, <1>6, <1>7, StepKinds

\* Once no event waits, no reconcile runs and the export queue is empty, Git has
\* the manifest of every object and of no other, or the object carries the
\* annotation of the manifest it was applied from: no edit, deletion or restart
\* is missed, as long as no export fails.
THEOREM MirroredAtRest == Spec => []RestMirrors
<1>1. Spec => []TypeOK
  BY TypeCorrect
<1> DEFINE Inv == BaseInv /\ CacheInv /\ NeverThere /\ SettledInv
<1>2. Init => Inv
  BY BaseInit, CacheInit, NeverInit, SettledInit
<1>3. TypeOK /\ Inv /\ [Next]_vars => Inv'
  BY BaseNext, CacheNext, NeverNext, SettledNext
<1>4. Inv => RestMirrors
  <2> SUFFICES ASSUME SettledInv, Undisturbed, NoDeleteForgotten, AtRest, NEW k \in Renderable
               PROVE  AnnotationMatches(cluster[k]) \/ Mirrored(k)
    BY DEF RestMirrors
  <2>1. k \notin queue /\ rec[KindOf[k]].key # k /\ pending[k] = NoOp /\ batch[k] = NoOp
    BY DEF AtRest
  <2>2. Upcoming(k) = remote.live[k]
    BY <2>1 DEF Upcoming, After, NoOp
  <2> QED BY <2>1, <2>2 DEF SettledInv, Mirrored
<1> HIDE DEF Inv
<1> QED BY <1>1, <1>2, <1>3, <1>4, PTL DEF Spec
=============================================================================
