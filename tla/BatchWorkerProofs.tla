------------------------- MODULE BatchWorkerProofs -------------------------
(***************************************************************************)
(* Facts about the batch worker that hold in every environment, for any    *)
(* set of paths and contents: what its operators return, and what its      *)
(* steps preserve.                                                         *)
(***************************************************************************)
EXTENDS BatchWorker, TLAPS

-----------------------------------------------------------------------------
(* The operators on trees and batches.                                     *)

\* The empty map and the cleared clone are what they should be.
LEMMA EmptyTypes == EmptyBatch \in Batches /\ EmptyTree \in Tree /\ NoClone \in Clones
  BY DEF EmptyBatch, Batches, EmptyTree, Tree, File, NoClone, Clones

\* An entry of the map is absent, an archive or a write of a content.
LEMMA OpKinds ==
  ASSUME NEW op \in Ops \cup {NoOp}
  PROVE  /\ op.kind \in {"none", "archive", "write"}
         /\ op.kind = "none" <=> op = NoOp
         /\ op.kind = "archive" <=> op = ArchiveOp
         /\ op.kind = "write" => op.content \in Contents /\ op = WriteOp(op.content)
<1>1. CASE op = NoOp
  BY <1>1 DEF NoOp, ArchiveOp
<1>2. CASE op = ArchiveOp
  BY <1>2 DEF NoOp, ArchiveOp
<1>3. CASE \E c \in Contents : op = WriteOp(c)
  <2>1. PICK c \in Contents : op = WriteOp(c)
    BY <1>3
  <2>2. op.kind = "write" /\ op.content = c
    BY <2>1 DEF WriteOp
  <2> QED BY <2>1, <2>2 DEF NoOp, ArchiveOp
<1> QED BY <1>1, <1>2, <1>3 DEF Ops

\* The export loop does to every live file what its operation says.
LEMMA ApplyBatchLive ==
  ASSUME NEW t \in Tree, NEW b \in Batches, NEW k \in Keys
  PROVE  ApplyBatch(t, b).live[k] = After(b[k], t.live[k])
<1>1. b[k] \in Ops \cup {NoOp}
  BY DEF Batches
<1>2. ApplyBatch(t, b).live[k] = IF b[k].kind = "write" THEN b[k].content
                                 ELSE IF Archives(t, b, k) THEN None
                                 ELSE t.live[k]
  BY DEF ApplyBatch
<1> QED BY <1>1, <1>2, OpKinds DEF After, Archives

\* A live file is written, taken away or left as it is.
LEMMA AfterType ==
  ASSUME NEW op \in Ops \cup {NoOp}, NEW f \in File
  PROVE  After(op, f) \in File
  BY OpKinds DEF After, File

\* The export loop turns a tree into a tree: a written file has the content
\* of its operation, an archived one the content of the live file.
LEMMA ApplyBatchType ==
  ASSUME NEW t \in Tree, NEW b \in Batches
  PROVE  ApplyBatch(t, b) \in Tree
<1>1. ASSUME NEW k \in Keys
      PROVE  /\ ApplyBatch(t, b).live[k] \in File
             /\ ApplyBatch(t, b).archive[k] \in File
  <2>1. t.live[k] \in File /\ t.archive[k] \in File
    BY DEF Tree
  <2>2. ApplyBatch(t, b).live[k] \in File
    BY <2>1, ApplyBatchLive, AfterType DEF Batches
  <2> QED BY <2>1, <2>2 DEF ApplyBatch
<1> QED BY <1>1 DEF ApplyBatch, Tree

\* Putting a failed batch back yields a batch.
LEMMA PutBackType ==
  ASSUME NEW p \in Batches, NEW b \in Batches
  PROVE  PutBack(p, b) \in Batches
  BY DEF PutBack, Batches

-----------------------------------------------------------------------------
(* The steps of the worker.                                                *)

\* Another process takes the place of the worker; the branch stays.
Lost == WorkerLost /\ UNCHANGED remote

\* Somebody else commits.
Committed == \E k \in Keys, l, a \in File : ForeignCommit(k, l, a)

\* All that happens to the worker, enqueueing aside.
WorkerStep == FlushStep \/ FaultStep \/ Lost \/ Committed

\* The worker's variables keep their types.
LEMMA WorkerTypeStep == WorkerTypeOK /\ WorkerStep => WorkerTypeOK'
<1> SUFFICES ASSUME WorkerTypeOK, WorkerStep PROVE WorkerTypeOK'
  OBVIOUS
<1> USE EmptyTypes DEF WorkerTypeOK
<1>1. CASE FlushTake
  BY <1>1 DEF FlushTake, Phases
<1>2. CASE FlushDrop
  BY <1>2 DEF FlushDrop
<1>3. CASE Clone
  BY <1>3 DEF Clone, Clones, Phases
<1>4. CASE SkipCommit
  BY <1>4 DEF SkipCommit, FlushDone, Phases
<1>5. CASE Commit
  <2>1. ApplyBatch(clone.base, batch) \in Tree
    BY ApplyBatchType DEF Clones
  <2> QED BY <1>5, <2>1 DEF Commit, Clones, Phases
<1>6. CASE Push
  BY <1>6 DEF Push, Fastforward, FlushDone, Clones, Phases
<1>7. CASE PushRejected \/ ArchiveError \/ ExportFault
  BY <1>7 DEF PushRejected, ArchiveError, ExportFault, Phases
<1>8. CASE Requeue
  BY <1>8, PutBackType DEF Requeue, FlushDone, Phases
<1>9. CASE PushReplyLost
  BY <1>9 DEF PushReplyLost, Fastforward, Clones, Phases
<1>10. CASE Lost
  BY <1>10 DEF Lost, WorkerLost, Phases
<1>11. CASE Committed
  <2>1. PICK k \in Keys, l \in File, a \in File : ForeignCommit(k, l, a)
    BY <1>11 DEF Committed
  <2>2. remote' \in Tree
    BY <2>1 DEF ForeignCommit, Tree
  <2>3. clone' \in Clones
    BY <2>1 DEF ForeignCommit, Clones
  <2> QED BY <2>1, <2>2, <2>3 DEF ForeignCommit
<1> QED BY <1>1, <1>2, <1>3, <1>4, <1>5, <1>6, <1>7, <1>8, <1>9, <1>10, <1>11
        DEF WorkerStep, FlushStep, FaultStep

\* No step of the worker breaks the tie between batch, clone and branch.
LEMMA WorkerInvStep == WorkerTypeOK /\ WorkerInv /\ WorkerStep => WorkerInv'
<1> SUFFICES ASSUME WorkerTypeOK, WorkerInv, WorkerStep PROVE WorkerInv'
  OBVIOUS
<1> USE DEF WorkerInv, IdleIsEmpty, CloneCurrent, CommitIsBatch
<1>1. CASE FlushTake
  BY <1>1 DEF FlushTake
<1>2. CASE FlushDrop
  BY <1>2 DEF FlushDrop
<1>3. CASE Clone
  BY <1>3 DEF Clone
<1>4. CASE SkipCommit \/ Push \/ Requeue
  BY <1>4 DEF SkipCommit, Push, Requeue, FlushDone
<1>5. CASE Commit
  <2>1. /\ clone'.base = clone.base
        /\ clone'.moved = clone.moved
        /\ clone'.tree = ApplyBatch(clone.base, batch)
    BY <1>5 DEF Commit, WorkerTypeOK, Clones
  <2> QED BY <1>5, <2>1 DEF Commit
<1>6. CASE PushRejected \/ ArchiveError \/ ExportFault \/ PushReplyLost
  BY <1>6 DEF PushRejected, ArchiveError, ExportFault, PushReplyLost
<1>7. CASE Lost
  BY <1>7 DEF Lost, WorkerLost
<1>8. CASE Committed
  <2>1. PICK k \in Keys, l \in File, a \in File : ForeignCommit(k, l, a)
    BY <1>8 DEF Committed
  <2>2. UNCHANGED <<phase, batch>>
    BY <2>1 DEF ForeignCommit
  <2>3. CASE phase \in {"cloned", "committed"}
    <3>1. /\ clone'.base = clone.base
          /\ clone'.tree = clone.tree
          /\ clone'.moved
      BY <2>1, <2>3 DEF ForeignCommit, WorkerTypeOK, Clones
    <3> QED BY <2>2, <2>3, <3>1
  <2>4. CASE phase \notin {"cloned", "committed"}
    BY <2>1, <2>2, <2>4 DEF ForeignCommit
  <2> QED BY <2>3, <2>4
<1> QED BY <1>1, <1>2, <1>3, <1>4, <1>5, <1>6, <1>7, <1>8 DEF WorkerStep, FlushStep, FaultStep

\* Nor does a step that leaves the flush and the branch alone.
LEMMA QuietWorkerInv ==
  ASSUME WorkerInv, UNCHANGED <<phase, batch, clone, remote>>
  PROVE  WorkerInv'
  BY DEF WorkerInv, IdleIsEmpty, CloneCurrent, CommitIsBatch

\* An accepted push is the batch applied to the head of the branch.
LEMMA PushAppliesBatch ==
  ASSUME WorkerInv, Fastforward
  PROVE  remote' = ApplyBatch(remote, batch)
  BY DEF WorkerInv, CloneCurrent, CommitIsBatch, Fastforward

\* No export has failed: the flush is not on its way back to the queue, the
\* branch has not left the clone, and every archive of the batch is possible.
Healthy == phase # "failed" /\ ~clone.moved /\ ~ArchiveFails(batch)

\* A worker that has just been started is healthy.
LEMMA FreshIsHealthy ==
  ASSUME phase = "idle", batch = EmptyBatch, clone = NoClone
  PROVE  Healthy
<1>1. NoClone.moved = FALSE
  BY DEF NoClone
<1> QED BY <1>1 DEF Healthy, ArchiveFails, EmptyBatch, NoOp, ArchiveOp

\* What Git is going to hold for a path is settled when the operation is
\* enqueued: taking the batch, cloning, committing, skipping and pushing only
\* carry it there, as long as no export fails.
LEMMA FlushKeepsUpcoming ==
  ASSUME WorkerTypeOK, WorkerInv, Healthy, repoSet, FlushStep, NEW k \in Keys
  PROVE  Upcoming(k)' = Upcoming(k)
<1> USE DEF Upcoming
<1>0. /\ pending[k] \in Ops \cup {NoOp}
      /\ batch[k] \in Ops \cup {NoOp}
      /\ \A f : After(NoOp, f) = f
      /\ EmptyBatch[k] = NoOp
  BY DEF WorkerTypeOK, Batches, After, NoOp, EmptyBatch
<1>1. CASE FlushTake
  <2>1. batch[k] = NoOp
    BY <1>0, <1>1 DEF FlushTake, WorkerInv, IdleIsEmpty
  <2>2. batch'[k] = pending[k] /\ pending'[k] = NoOp /\ remote' = remote
    BY <1>0, <1>1 DEF FlushTake
  <2> QED BY <1>0, <2>1, <2>2
<1>2. CASE Clone \/ Commit
  BY <1>2 DEF Clone, Commit
<1>3. CASE SkipCommit
  <2>1. ApplyBatch(remote, batch) = remote
    BY <1>3 DEF SkipCommit, WorkerInv, CloneCurrent, Healthy
  <2>2. After(batch[k], remote.live[k]) = remote.live[k]
    BY <2>1, ApplyBatchLive DEF WorkerTypeOK
  <2>3. batch'[k] = NoOp /\ pending' = pending /\ remote' = remote
    BY <1>0, <1>3 DEF SkipCommit, FlushDone
  <2> QED BY <1>0, <2>2, <2>3
<1>4. CASE Push
  <2>1. remote' = ApplyBatch(remote, batch)
    BY <1>4, PushAppliesBatch DEF Push
  <2>2. remote'.live[k] = After(batch[k], remote.live[k])
    BY <2>1, ApplyBatchLive DEF WorkerTypeOK
  <2>3. batch'[k] = NoOp /\ pending' = pending
    BY <1>0, <1>4 DEF Push, FlushDone
  <2> QED BY <1>0, <2>2, <2>3
<1>5. CASE FlushDrop \/ PushRejected \/ ArchiveError \/ Requeue
  BY <1>5 DEF FlushDrop, PushRejected, ArchiveError, Requeue, Healthy
<1> QED BY <1>1, <1>2, <1>3, <1>4, <1>5 DEF FlushStep

\* A flush that has not failed does not fail by itself, if no path waits whose
\* archiving is impossible.
LEMMA FlushKeepsHealthy ==
  ASSUME WorkerTypeOK, WorkerInv, Healthy, repoSet, ~ArchiveFails(pending), FlushStep
  PROVE  Healthy'
<1> USE DEF Healthy
<1>1. CASE FlushTake
  BY <1>1 DEF FlushTake, ArchiveFails
<1>2. CASE Clone
  BY <1>2 DEF Clone, ArchiveFails
<1>3. CASE Commit
  <2>1. clone'.moved = clone.moved
    BY <1>3 DEF Commit, WorkerTypeOK, Clones
  <2> QED BY <1>3, <2>1 DEF Commit, ArchiveFails
<1>4. CASE SkipCommit \/ Push
  <2>0. NoClone.moved = FALSE
    BY DEF NoClone
  <2>1. phase' = "idle" /\ batch' = EmptyBatch /\ ~clone'.moved
    BY <1>4, <2>0 DEF SkipCommit, Push, FlushDone
  <2>2. ~ArchiveFails(batch)'
    BY <2>1 DEF ArchiveFails, EmptyBatch, NoOp, ArchiveOp
  <2> QED BY <2>1, <2>2
<1>5. CASE FlushDrop \/ PushRejected \/ ArchiveError \/ Requeue
  BY <1>5 DEF FlushDrop, PushRejected, ArchiveError, Requeue
<1> QED BY <1>1, <1>2, <1>3, <1>4, <1>5 DEF FlushStep
=============================================================================
