------------------------- MODULE ExportQueueProofs -------------------------
(***************************************************************************)
(* Proofs about the export queue, for any set of paths and contents, any   *)
(* number of operations, faults, restarts and commits of others.           *)
(***************************************************************************)
EXTENDS ExportQueue, BatchWorkerProofs

-----------------------------------------------------------------------------
(* Type correctness.                                                       *)

\* The queue starts with its types.
LEMMA TypeInit == Init => TypeOK
  BY EmptyTypes DEF Init, TypeOK, WorkerTypeOK, NewBatchWorker, Phases, NoIndex, Indexes

\* Enqueueing aside, every step is one of the worker or of those around it.
LEMMA StepKinds ==
  ASSUME [Next]_vars
  PROVE  \/ \E k \in Keys, op \in Ops : Accept(k, op)
         \/ WorkerStep
         \/ UNCHANGED vars
<1>1. CASE WorkerNext
  BY <1>1 DEF WorkerNext, Take, Drop, Prepare, Skip, Publish, PutBackBatch, WorkerStep, FlushStep
<1>2. CASE ReplyLost \/ Fault
  BY <1>2 DEF ReplyLost, Fault, WorkerStep, FaultStep
<1>3. CASE Restart \/ Foreign
  BY <1>3 DEF Restart, Foreign, WorkerStep, Lost, Committed
<1> QED BY <1>1, <1>2, <1>3 DEF Next

\* Every step keeps the types.
LEMMA TypeNext == TypeOK /\ [Next]_vars => TypeOK'
<1> SUFFICES ASSUME TypeOK, [Next]_vars PROVE TypeOK'
  OBVIOUS
<1> USE DEF TypeOK, Indexes, NoIndex
<1>1. ASSUME NEW k \in Keys, NEW op \in Ops, Accept(k, op) PROVE TypeOK'
  <2>1. pending' = [pending EXCEPT ![k] = op]
    BY <1>1 DEF Accept, Enqueue, EnqueueArchive
  <2>2. pending' \in Batches
    BY <2>1 DEF WorkerTypeOK, Batches
  <2>3. log' \in [Keys -> Seq(Ops)] /\ pendingAt' \in [Keys -> Nat]
    BY <1>1 DEF Accept
  <2>4. count' \in [Events -> Nat]
    BY <1>1 DEF Accept, Happens, Events
  <2> QED BY <1>1, <2>2, <2>3, <2>4 DEF Accept, WorkerTypeOK
<1>2. CASE UNCHANGED vars
  BY <1>2 DEF vars, workerVars, history, WorkerTypeOK
<1>3. ASSUME Publish \/ ReplyLost PROVE publishedAt' \in [Keys -> Nat]
  BY <1>3 DEF Publish, ReplyLost, Published
<1>4. ASSUME WorkerTypeOK', WorkerNext PROVE TypeOK'
  <2>1. CASE Take \/ Drop \/ Prepare \/ Skip
    BY <1>4, <2>1 DEF Take, Drop, Prepare, Skip, history
  <2>2. CASE Publish
    BY <1>3, <1>4, <2>2 DEF Publish
  <2>3. CASE PutBackBatch
    BY <1>4, <2>3 DEF PutBackBatch
  <2> QED BY <1>4, <2>1, <2>2, <2>3 DEF WorkerNext
<1>5. ASSUME WorkerTypeOK', ReplyLost \/ Fault \/ Restart \/ Foreign PROVE TypeOK'
  <2>1. count' \in [Events -> Nat]
    BY <1>5 DEF ReplyLost, Fault, Restart, Foreign, Happens, Events
  <2>2. CASE ReplyLost
    BY <1>3, <1>5, <2>1, <2>2 DEF ReplyLost
  <2>3. CASE Fault \/ Foreign
    BY <1>5, <2>1, <2>3 DEF Fault, Foreign, history
  <2>4. CASE Restart
    BY <1>5, <2>1, <2>4 DEF Restart
  <2> QED BY <1>5, <2>2, <2>3, <2>4
<1> QED
  <2>1. WorkerStep => WorkerTypeOK'
    BY WorkerTypeStep
  <2> QED BY <1>1, <1>2, <1>4, <1>5, <2>1, StepKinds DEF Next

\* The maps of the queue, the clone and the branch always have their types.
THEOREM TypeCorrect == Spec => []TypeOK
  BY TypeInit, TypeNext, PTL DEF Spec

-----------------------------------------------------------------------------
(* The queue, the flush and the branch keep the accepted operations in     *)
(* order, and a commit rests on the revision it was made from.             *)

\* The queue starts empty, so nothing is out of order.
LEMMA QueueInit == Init => QueueInv
  BY DEF Init, NewBatchWorker, EmptyBatch, NoIndex, QueueInv, Accounted, HeldAt,
         Ordered, WorkerInv, IdleIsEmpty, CloneCurrent, CommitIsBatch

\* Every step keeps the order of operations, faults and restarts included.
LEMMA QueueNext == TypeOK /\ QueueInv /\ [Next]_vars => QueueInv'
<1> SUFFICES ASSUME TypeOK, QueueInv, [Next]_vars PROVE QueueInv'
  OBVIOUS
<1> USE DEF QueueInv
<1>0. /\ log \in [Keys -> Seq(Ops)]
      /\ pending \in Batches
      /\ batch \in Batches
      /\ pendingAt \in [Keys -> Nat]
      /\ batchAt \in [Keys -> Nat]
      /\ publishedAt \in [Keys -> Nat]
  BY DEF TypeOK, WorkerTypeOK, Indexes
<1>e. /\ \A k \in Keys : EmptyBatch[k] = NoOp /\ NoIndex[k] = 0
  BY DEF EmptyBatch, NoIndex
<1>w. WorkerStep => WorkerInv'
  BY WorkerInvStep DEF TypeOK
<1>1. ASSUME NEW k \in Keys, NEW op \in Ops, Accept(k, op) PROVE QueueInv'
  <2>1. /\ pending' = [pending EXCEPT ![k] = op]
        /\ log' = [log EXCEPT ![k] = Append(log[k], op)]
        /\ pendingAt' = [pendingAt EXCEPT ![k] = Len(log[k]) + 1]
        /\ UNCHANGED <<phase, batch, clone, remote, batchAt, publishedAt>>
    BY <1>1 DEF Accept, Enqueue, EnqueueArchive
  <2>2. op # NoOp
    BY DEF Ops, WriteOp, ArchiveOp, NoOp
  <2>3. /\ Len(log'[k]) = Len(log[k]) + 1
        /\ log'[k][Len(log[k]) + 1] = op
        /\ \A i \in 1..Len(log[k]) : log'[k][i] = log[k][i]
    BY <1>0, <2>1
  <2>4. Accounted'
    <3> SUFFICES ASSUME NEW j \in Keys
                 PROVE  HeldAt(pending[j], pendingAt[j], j)' /\ HeldAt(batch[j], batchAt[j], j)'
      BY DEF Accounted
    <3>1. CASE j = k
      <4>1. HeldAt(batch[k], batchAt[k], k)'
        BY <1>0, <2>1, <2>3 DEF Accounted, HeldAt
      <4>2. pending'[k] = op /\ pendingAt'[k] = Len(log[k]) + 1
        BY <1>0, <2>1 DEF Batches
      <4> QED BY <1>0, <2>2, <2>3, <3>1, <4>1, <4>2 DEF HeldAt
    <3>2. CASE j # k
      <4>1. /\ pending'[j] = pending[j]
            /\ pendingAt'[j] = pendingAt[j]
            /\ log'[j] = log[j]
        BY <1>0, <2>1, <3>2 DEF Batches
      <4> QED BY <2>1, <4>1 DEF Accounted, HeldAt
    <3> QED BY <3>1, <3>2
  <2>5. Ordered'
    <3>1. \A j \in Keys : Len(log'[j]) \in Nat /\ Len(log[j]) \in Nat
                          /\ Len(log[j]) <= Len(log'[j])
      BY <1>0, <2>1, <2>3
    <3>2. batchAt[k] <= Len(log[k])
      BY <1>0, <3>1 DEF Accounted, HeldAt
    <3> QED BY <1>0, <2>1, <3>1, <3>2 DEF Ordered
  <2>6. WorkerInv'
    BY <2>1 DEF WorkerInv, IdleIsEmpty, CloneCurrent, CommitIsBatch
  <2> QED BY <2>4, <2>5, <2>6
<1>2. ASSUME Take PROVE Accounted' /\ Ordered'
  BY <1>0, <1>2, <1>e DEF Take, FlushTake, Accounted, HeldAt, Ordered
<1>3. ASSUME Drop PROVE Accounted' /\ Ordered'
  BY <1>0, <1>3, <1>e DEF Drop, FlushDrop, Accounted, HeldAt, Ordered
<1>4. ASSUME Prepare \/ Fault PROVE Accounted' /\ Ordered'
  <2>1. UNCHANGED <<pending, batch, log, pendingAt, batchAt, publishedAt>>
    BY <1>4 DEF Prepare, Fault, Clone, Commit, PushRejected, ArchiveError, ExportFault, history
  <2> QED BY <2>1 DEF Accounted, HeldAt, Ordered
<1>5. ASSUME Skip PROVE Accounted' /\ Ordered'
  BY <1>0, <1>5, <1>e DEF Skip, SkipCommit, FlushDone, Accounted, HeldAt, Ordered
<1>6. ASSUME Publish PROVE Accounted' /\ Ordered'
  <2>1. Accounted'
    BY <1>0, <1>6, <1>e DEF Publish, Push, FlushDone, Accounted, HeldAt
  <2>2. Ordered'
    <3> SUFFICES ASSUME NEW k \in Keys
                 PROVE  /\ publishedAt'[k] <= Len(log'[k])
                        /\ batchAt'[k] = 0
                        /\ pendingAt'[k] # 0 => publishedAt'[k] <= pendingAt'[k]
      BY <1>0, <1>6 DEF Publish, Ordered
    <3>1. /\ publishedAt'[k] = IF batchAt[k] = 0 THEN publishedAt[k] ELSE batchAt[k]
          /\ batchAt'[k] = 0
          /\ UNCHANGED <<log, pendingAt>>
      BY <1>6, <1>e DEF Publish, Published
    <3>2. batchAt[k] # 0 => batchAt[k] <= Len(log[k])
      BY <1>0 DEF Accounted, HeldAt
    <3> QED BY <1>0, <3>1, <3>2 DEF Ordered
  <2> QED BY <2>1, <2>2
<1>7. ASSUME PutBackBatch PROVE Accounted' /\ Ordered'
  <2>1. ASSUME NEW k \in Keys
        PROVE  /\ pending'[k] = IF batch[k] # NoOp THEN batch[k] ELSE pending[k]
               /\ pendingAt'[k] = IF batchAt[k] # 0 THEN batchAt[k] ELSE pendingAt[k]
               /\ batch'[k] = NoOp
               /\ batchAt'[k] = 0
               /\ UNCHANGED <<log, publishedAt>>
    BY <1>7, <1>e DEF PutBackBatch, Requeue, PutBack, FlushDone
  <2>2. Accounted'
    <3> SUFFICES ASSUME NEW k \in Keys
                 PROVE  HeldAt(pending[k], pendingAt[k], k)' /\ HeldAt(batch[k], batchAt[k], k)'
      BY DEF Accounted
    <3>1. /\ HeldAt(pending[k], pendingAt[k], k)
          /\ HeldAt(batch[k], batchAt[k], k)
      BY DEF Accounted
    <3>2. batch[k] = NoOp <=> batchAt[k] = 0
      BY <1>0, <3>1 DEF HeldAt
    <3> QED BY <2>1, <3>1, <3>2 DEF HeldAt
  <2>3. Ordered'
    BY <1>0, <1>7, <2>1 DEF PutBackBatch, Ordered
  <2> QED BY <2>2, <2>3
<1>8. ASSUME ReplyLost PROVE Accounted' /\ Ordered'
  <2>1. ASSUME NEW k \in Keys
        PROVE  publishedAt'[k] = IF batchAt[k] = 0 THEN publishedAt[k] ELSE batchAt[k]
    BY <1>8 DEF ReplyLost, Published
  <2>2. UNCHANGED <<log, pending, batch, pendingAt, batchAt>>
    BY <1>8 DEF ReplyLost, PushReplyLost
  <2>3. Accounted'
    BY <2>2 DEF Accounted, HeldAt
  <2>4. Ordered'
    <3>1. \A k \in Keys : batchAt[k] # 0 => batchAt[k] <= Len(log[k])
      BY <1>0 DEF Accounted, HeldAt
    <3> QED BY <1>0, <2>1, <2>2, <3>1 DEF Ordered
  <2> QED BY <2>3, <2>4
<1>9. ASSUME Restart PROVE Accounted' /\ Ordered'
  BY <1>0, <1>9, <1>e DEF Restart, WorkerLost, Accounted, HeldAt, Ordered
<1>10. ASSUME Foreign PROVE Accounted' /\ Ordered'
  <2>1. UNCHANGED <<pending, batch, log, pendingAt, batchAt, publishedAt>>
    BY <1>10 DEF Foreign, ForeignCommit, history
  <2> QED BY <2>1 DEF Accounted, HeldAt, Ordered
<1>11. CASE UNCHANGED vars
  <2>1. UNCHANGED <<pending, phase, batch, clone, remote, log, pendingAt, batchAt, publishedAt>>
    BY <1>11 DEF vars, workerVars, history
  <2> QED BY <2>1 DEF Accounted, HeldAt, Ordered, WorkerInv, IdleIsEmpty, CloneCurrent, CommitIsBatch
<1> QED BY <1>w, <1>1, <1>2, <1>3, <1>4, <1>5, <1>6, <1>7, <1>8, <1>9, <1>10, <1>11, StepKinds
        DEF Next, WorkerNext

\* Whatever fails, the queue and the running flush hold accepted operations
\* only, none older than what the branch already has for its path, and the
\* commit about to be pushed is exactly the batch applied to the head of the
\* branch, unless the remote is going to refuse it.
THEOREM QueueOrdered == Spec => []QueueInv
<1>1. Init => TypeOK /\ QueueInv
  BY TypeInit, QueueInit
<1>2. (TypeOK /\ QueueInv) /\ [Next]_vars => (TypeOK /\ QueueInv)'
  BY TypeNext, QueueNext
<1> QED BY <1>1, <1>2, PTL DEF Spec

-----------------------------------------------------------------------------
(* Refinement of AtomicExport.                                             *)

\* The export loop is the same operator on both sides of the mapping.
LEMMA SameApplyBatch ==
  ASSUME NEW t, NEW b
  PROVE  Abstract!ApplyBatch(t, b) = ApplyBatch(t, b)
  BY DEF Abstract!ApplyBatch, ApplyBatch, Abstract!Archives, Archives,
         Abstract!ArchiveOp, ArchiveOp

\* A push of the commit, answered or not, is one publication of the batch.
LEMMA PushIsPublish ==
  ASSUME TypeOK, QueueInv, Fastforward, publishedAt' = Published, UNCHANGED log
  PROVE  \E at \in Abstract!Indexes : Abstract!Publish(at)
<1>0. /\ batchAt \in [Keys -> Nat]
      /\ publishedAt \in [Keys -> Nat]
      /\ log \in [Keys -> Seq(Ops)]
      /\ batch \in Batches
  BY DEF TypeOK, WorkerTypeOK, Indexes
<1>1. ASSUME NEW k \in Keys
      PROVE  HeldAt(batch[k], batchAt[k], k)
  BY DEF QueueInv, Accounted
<1>2. ASSUME NEW k \in Keys, batchAt[k] # 0
      PROVE  /\ batchAt[k] \in 1..Len(log[k])
             /\ publishedAt[k] <= batchAt[k]
             /\ batch[k] = log[k][batchAt[k]]
  BY <1>1, <1>2 DEF HeldAt, QueueInv, Ordered
<1>3. ASSUME NEW k \in Keys, batchAt[k] = 0
      PROVE  batch[k] = NoOp
  BY <1>0, <1>1, <1>3 DEF HeldAt
<1>4. batch = [k \in Keys |-> IF batchAt[k] = 0 THEN NoOp ELSE log[k][batchAt[k]]]
  BY <1>0, <1>2, <1>3 DEF Batches
<1>5. remote' = ApplyBatch(remote, batch)
  BY PushAppliesBatch DEF QueueInv
<1>6. Abstract!NoOp = NoOp
  BY DEF Abstract!NoOp, NoOp
<1>7. Abstract!Publish(batchAt)
  BY <1>2, <1>4, <1>5, <1>6, SameApplyBatch DEF Abstract!Publish, Published
<1>8. batchAt \in Abstract!Indexes
  <2> SUFFICES ASSUME NEW k \in Keys PROVE \E j \in Keys : batchAt[k] \in 0..Len(log[j])
    BY <1>0 DEF Abstract!Indexes
  <2>1. batchAt[k] \in 0..Len(log[k])
    BY <1>0, <1>2
  <2> QED BY <2>1
<1> QED BY <1>7, <1>8

\* Every step of the worker and of its environment is a step of the abstract
\* export or leaves what it speaks of unchanged.
LEMMA StepRefines ==
  TypeOK /\ QueueInv /\ [Next]_vars => [Abstract!Next]_(Abstract!vars)
<1> SUFFICES ASSUME TypeOK, QueueInv, [Next]_vars
             PROVE  Abstract!Next \/ UNCHANGED <<remote, log, publishedAt>>
  BY DEF Abstract!vars
<1>1. ASSUME NEW k \in Keys, NEW op \in Ops, Accept(k, op)
      PROVE  Abstract!Next
  <2>1. op \in Abstract!Ops
    BY DEF Abstract!Ops, Ops, Abstract!WriteOp, WriteOp, Abstract!ArchiveOp, ArchiveOp
  <2>2. Abstract!Accept(k, op)
    BY <1>1 DEF Accept, Abstract!Accept
  <2> QED BY <2>1, <2>2 DEF Abstract!Next
<1>2. CASE Take \/ Drop \/ Skip \/ PutBackBatch
  BY <1>2 DEF Take, Drop, Skip, PutBackBatch, FlushTake, FlushDrop, SkipCommit, Requeue
<1>3. CASE Prepare \/ Fault
  BY <1>3 DEF Prepare, Fault, Clone, Commit, PushRejected, ArchiveError, ExportFault, history
<1>4. CASE Restart
  BY <1>4 DEF Restart
<1>5. CASE Publish
  BY <1>5, PushIsPublish DEF Publish, Push, Abstract!Next
<1>6. CASE ReplyLost
  BY <1>6, PushIsPublish DEF ReplyLost, PushReplyLost, Abstract!Next
<1>7. CASE Foreign
  <2>1. PICK k \in Keys, l \in File, a \in File : ForeignCommit(k, l, a)
    BY <1>7 DEF Foreign
  <2>2. Abstract!OtherCommit
    BY <1>7, <2>1 DEF Foreign, ForeignCommit, history, Abstract!OtherCommit, Abstract!File, File
  <2> QED BY <2>2 DEF Abstract!Next
<1>8. CASE UNCHANGED vars
  BY <1>8 DEF vars, workerVars, history
<1> QED BY <1>1, <1>2, <1>3, <1>4, <1>5, <1>6, <1>7, <1>8 DEF Next, WorkerNext

\* The initial states map to initial states of the abstract specification.
LEMMA InitRefines == Init => Abstract!Init
  BY DEF Init, NoIndex, Abstract!Init, Abstract!Tree, Tree, Abstract!File, File

\* The worker with its clones, refused pushes, lost replies and retries
\* implements the atomic, per-path ordered export.
THEOREM WorkerImplementsAtomicExport == Spec => ExportIsAtomic
<1>1. Spec => []TypeOK
  BY TypeCorrect
<1>2. Spec => []QueueInv
  BY QueueOrdered
<1>3. Init => Abstract!Init
  BY InitRefines
<1>4. TypeOK /\ QueueInv /\ [Next]_vars => [Abstract!Next]_(Abstract!vars)
  BY StepRefines
<1> QED BY <1>1, <1>2, <1>3, <1>4, PTL DEF Spec, ExportIsAtomic, Abstract!Spec

-----------------------------------------------------------------------------
(* Soft delete.                                                            *)

\* A push leaves the paths that are not in its batch alone, and what it takes
\* out of the live directory it puts into the archive.
LEMMA PushIsSoft ==
  ASSUME TypeOK, QueueInv, Fastforward, NEW k \in Keys
  PROVE  /\ batch[k] = NoOp =>
              /\ remote'.live[k] = remote.live[k]
              /\ remote'.archive[k] = remote.archive[k]
         /\ remote.live[k] # None /\ remote'.live[k] = None =>
              remote'.archive[k] = remote.live[k]
<1>1. remote' = ApplyBatch(remote, batch)
  BY PushAppliesBatch DEF QueueInv
<1>2. /\ remote'.live[k] = IF batch[k].kind = "write" THEN batch[k].content
                           ELSE IF Archives(remote, batch, k) THEN None
                           ELSE remote.live[k]
      /\ remote'.archive[k] = IF Archives(remote, batch, k) THEN remote.live[k]
                              ELSE remote.archive[k]
  BY <1>1 DEF ApplyBatch
<1>3. batch[k].kind = "write" => batch[k].content # None
  BY OpKinds, NoneAssumption DEF TypeOK, WorkerTypeOK, Batches
<1>4. batch[k] = NoOp => batch[k].kind # "write" /\ ~Archives(remote, batch, k)
  BY DEF NoOp, Archives, ArchiveOp
<1> QED BY <1>2, <1>3, <1>4

\* No push of the worker removes a manifest that it does not archive, nor
\* touches a path it was not asked to export.
THEOREM NothingLostByPush == Spec => SoftDelete
<1> DEFINE Soft ==
      count'["foreign"] = count["foreign"] =>
         \A k \in Keys :
            /\ batch[k] = NoOp =>
                 /\ remote'.live[k] = remote.live[k]
                 /\ remote'.archive[k] = remote.archive[k]
            /\ remote.live[k] # None /\ remote'.live[k] = None =>
                 remote'.archive[k] = remote.live[k]
<1>1. TypeOK /\ QueueInv /\ [Next]_vars => [Soft]_vars
  <2> SUFFICES ASSUME TypeOK, QueueInv, [Next]_vars PROVE Soft
    OBVIOUS
  <2>1. CASE Publish \/ ReplyLost
    BY <2>1, PushIsSoft DEF Publish, Push, ReplyLost, PushReplyLost
  <2>2. CASE Foreign
    BY <2>2 DEF Foreign, Happens, Events, TypeOK
  <2>3. CASE remote' = remote
    BY <2>3
  <2>4. CASE Take \/ Drop \/ Skip \/ PutBackBatch
    BY <2>3, <2>4 DEF Take, Drop, Skip, PutBackBatch, FlushTake, FlushDrop, SkipCommit, Requeue
  <2>5. CASE Prepare \/ Fault
    BY <2>3, <2>5 DEF Prepare, Fault, Clone, Commit, PushRejected, ArchiveError, ExportFault
  <2>6. CASE Restart \/ \E k \in Keys, op \in Ops : Accept(k, op)
    BY <2>3, <2>6 DEF Restart, Accept
  <2>7. CASE UNCHANGED vars
    BY <2>3, <2>7 DEF vars, workerVars
  <2> QED BY <2>1, <2>2, <2>4, <2>5, <2>6, <2>7 DEF Next, WorkerNext
<1> QED BY <1>1, TypeCorrect, QueueOrdered, PTL DEF Spec, SoftDelete

-----------------------------------------------------------------------------
(* The last operation wins.                                                *)

\* Until an export fails, the flush is healthy and what is to come for a path
\* is what the last operation asked for.
LastOpInv == Undisturbed => Healthy /\ \A k \in Keys : log[k] # <<>> => Upcoming(k) = Wanted(k)

\* An archive that is waiting was accepted, so it is a possible one.
LEMMA NoImpossibleArchive ==
  ASSUME TypeOK, QueueInv, Undisturbed
  PROVE  ~ArchiveFails(pending) /\ ~ArchiveFails(batch)
<1>1. ASSUME NEW k \in Keys, NEW op, NEW i, HeldAt(op, i, k), op = ArchiveOp, k \notin Archivable
      PROVE  FALSE
  <2>1. i \in 1..Len(log[k]) /\ log[k][i] = ArchiveOp
    BY <1>1 DEF HeldAt, NoOp, ArchiveOp
  <2>2. i \in DOMAIN log[k]
    BY <2>1 DEF TypeOK
  <2> QED BY <1>1, <2>1, <2>2 DEF Undisturbed
<1> QED BY <1>1 DEF ArchiveFails, QueueInv, Accounted

\* At the start no operation has been accepted.
LEMMA LastOpInit == Init => LastOpInv
  BY FreshIsHealthy DEF Init, NewBatchWorker, LastOpInv

\* Enqueueing decides what is to come for its path and for no other.
LEMMA AcceptDecides ==
  ASSUME TypeOK, LastOpInv, NEW k \in Keys, NEW op \in Ops, Accept(k, op)
  PROVE  LastOpInv'
<1>0. log \in [Keys -> Seq(Ops)] /\ pending \in [Keys -> Ops \cup {NoOp}]
  BY DEF TypeOK, WorkerTypeOK, Batches
<1>1. /\ pending' = [pending EXCEPT ![k] = op]
      /\ log' = [log EXCEPT ![k] = Append(log[k], op)]
      /\ UNCHANGED <<repoSet, phase, batch, clone, remote>>
  BY DEF Accept, Enqueue, EnqueueArchive
<1> SUFFICES ASSUME Undisturbed'
             PROVE  Healthy' /\ \A j \in Keys : log'[j] # <<>> => Upcoming(j)' = Wanted(j)'
  BY DEF LastOpInv
<1>2. Undisturbed
  <2>1. ASSUME NEW j \in Keys \ Archivable, NEW i \in DOMAIN log[j] PROVE log[j][i] # ArchiveOp
    <3>1. i \in DOMAIN log'[j] /\ log'[j][i] = log[j][i]
      BY <1>0, <1>1
    <3> QED BY <3>1 DEF Undisturbed
  <2>2. repoSet /\ \A e \in {"foreign", "fault", "restart"} : count[e] = 0
    BY <1>1 DEF Undisturbed, Accept, Happens, Events, TypeOK
  <2> QED BY <2>1, <2>2 DEF Undisturbed
<1>3. Healthy'
  BY <1>1, <1>2 DEF LastOpInv, Healthy, ArchiveFails
<1>4. Upcoming(k)' = Wanted(k)'
  <2>1. Wanted(k)' = op.content
    BY <1>0, <1>1 DEF Wanted
  <2>2. pending'[k] = op
    BY <1>0, <1>1
  <2>3. op.kind \in {"write", "archive"} /\ (op.kind = "archive" => op.content = None)
    BY OpKinds DEF Ops, WriteOp, ArchiveOp, NoOp
  <2> QED BY <2>1, <2>2, <2>3 DEF Upcoming, After
<1>5. ASSUME NEW j \in Keys, j # k, log'[j] # <<>> PROVE Upcoming(j)' = Wanted(j)'
  <2>1. log'[j] = log[j] /\ pending'[j] = pending[j]
    BY <1>0, <1>1, <1>5
  <2> QED BY <1>1, <1>2, <1>5, <2>1 DEF LastOpInv, Upcoming, Wanted
<1> QED BY <1>3, <1>4, <1>5

\* Every step keeps LastOpInv.
LEMMA LastOpNext == TypeOK /\ QueueInv /\ LastOpInv /\ [Next]_vars => LastOpInv'
<1> SUFFICES ASSUME TypeOK, QueueInv, LastOpInv, [Next]_vars PROVE LastOpInv'
  OBVIOUS
<1>1. CASE \E k \in Keys, op \in Ops : Accept(k, op)
  BY <1>1, AcceptDecides
<1>2. CASE WorkerNext
  <2> SUFFICES ASSUME Undisturbed'
               PROVE  Healthy' /\ \A k \in Keys : log'[k] # <<>> => Upcoming(k)' = Wanted(k)'
    BY DEF LastOpInv
  <2>1. FlushStep
    BY <1>2 DEF WorkerNext, Take, Drop, Prepare, Skip, Publish, PutBackBatch, FlushStep
  <2>2. UNCHANGED <<log, count>>
    BY <1>2 DEF WorkerNext, Take, Drop, Prepare, Skip, Publish, PutBackBatch, history
  <2>3. UNCHANGED repoSet
    BY <2>1 DEF FlushStep, FlushTake, FlushDrop, Clone, SkipCommit, Commit, Push, PushRejected,
                ArchiveError, Requeue
  <2>4. Undisturbed
    BY <2>2, <2>3 DEF Undisturbed
  <2>5. /\ WorkerTypeOK /\ WorkerInv /\ Healthy /\ repoSet /\ ~ArchiveFails(pending)
    BY <2>4, NoImpossibleArchive DEF TypeOK, QueueInv, LastOpInv, Undisturbed
  <2>6. Healthy'
    BY <2>1, <2>5, FlushKeepsHealthy
  <2>7. ASSUME NEW k \in Keys PROVE Upcoming(k)' = Upcoming(k) /\ Wanted(k)' = Wanted(k)
    BY <2>1, <2>2, <2>5, FlushKeepsUpcoming DEF Wanted
  <2> QED BY <2>2, <2>4, <2>6, <2>7 DEF LastOpInv
<1>3. CASE ReplyLost \/ Fault \/ Restart \/ Foreign
  <2>1. \E e \in {"foreign", "fault", "restart"} : count'[e] # 0
    BY <1>3 DEF ReplyLost, Fault, Restart, Foreign, Happens, Events, TypeOK
  <2> QED BY <2>1 DEF LastOpInv, Undisturbed
<1>4. CASE UNCHANGED vars
  BY <1>4 DEF vars, workerVars, history, LastOpInv, Undisturbed, Healthy, ArchiveFails, Upcoming, Wanted
<1> QED BY <1>1, <1>2, <1>3, <1>4 DEF Next

\* "debounce: last write wins", for any number of paths, operations and flushes:
\* until an export fails, queue, flush and branch together lead every path to
\* what the last accepted operation asked for.
THEOREM LastOperationWins == Spec => []LastOpWins
<1>1. Spec => []TypeOK
  BY TypeCorrect
<1>2. Spec => []QueueInv
  BY QueueOrdered
<1>3. Init => LastOpInv
  BY LastOpInit
<1>4. TypeOK /\ QueueInv /\ LastOpInv /\ [Next]_vars => LastOpInv'
  BY LastOpNext
<1>5. LastOpInv => LastOpWins
  BY DEF LastOpInv, LastOpWins
<1> QED BY <1>1, <1>2, <1>3, <1>4, <1>5, PTL DEF Spec
=============================================================================
