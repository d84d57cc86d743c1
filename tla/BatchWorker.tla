---------------------------- MODULE BatchWorker ----------------------------
(***************************************************************************)
(* internal/git/worker.go: the debounced export queue and the worker that  *)
(* clones the repository, applies the taken batch, commits and pushes.     *)
(*                                                                         *)
(* The mutex of BatchWorker covers a single map operation at a time, so    *)
(* the reconcilers (Enqueue, EnqueueArchive), the flush goroutine and the  *)
(* other committers of the repository interleave between any two of the    *)
(* actions below.  The temporary clone is private to the flush, so writing *)
(* its files, staging them and committing is one step.                     *)
(***************************************************************************)
EXTENDS GitTree

VARIABLES
    repoSet,   \* BatchWorker.cfg: is GIT_REPO_URL set?
    pending,   \* BatchWorker.pending
    phase,     \* where the flush goroutine is
    batch,     \* the map a flush took over, EmptyBatch between flushes
    clone,     \* its temporary clone
    remote     \* the inventory at the head of the remote branch

workerVars == <<repoSet, pending, phase, batch, clone, remote>>

Phases == {"idle", "taken", "cloned", "committed", "failed"}

\* base is the revision cloned, tree the worktree, and moved says that the
\* remote branch has left base: a push of tree is then not a fast-forward.
Clones == [base : Tree, tree : Tree, moved : BOOLEAN]

NoClone == [base |-> EmptyTree, tree |-> EmptyTree, moved |-> FALSE]

WorkerTypeOK ==
    /\ repoSet \in BOOLEAN
    /\ pending \in Batches
    /\ phase \in Phases
    /\ batch \in Batches
    /\ clone \in Clones
    /\ remote \in Tree

\* NewBatchWorker, with whatever configuration the process was given.
NewBatchWorker ==
    /\ repoSet \in BOOLEAN
    /\ pending = EmptyBatch
    /\ phase = "idle"
    /\ batch = EmptyBatch
    /\ clone = NoClone

-----------------------------------------------------------------------------
(* The queue, as the reconcilers use it.                                   *)

\* Faulty variant: what is already queued stays.
EnqueueFirstWins(k, c) ==
    pending' = [pending EXCEPT ![k] = IF @ = NoOp THEN WriteOp(c) ELSE @]

\* Enqueue
Enqueue(k, c) == pending' = [pending EXCEPT ![k] = WriteOp(c)]

\* Faulty variant: the kind is left at its zero value, opWrite.
EnqueueArchiveNoKind(k) ==
    pending' = [pending EXCEPT ![k] = [kind |-> "write", content |-> None]]

\* EnqueueArchive
EnqueueArchive(k) == pending' = [pending EXCEPT ![k] = ArchiveOp]

-----------------------------------------------------------------------------
(* flush and exportBatch.                                                  *)

\* Faulty variant: the queue is not emptied.
FlushTakeKeeps ==
    /\ phase = "idle"
    /\ pending # EmptyBatch
    /\ repoSet
    /\ batch' = pending
    /\ phase' = "taken"
    /\ UNCHANGED <<repoSet, pending, clone, remote>>

\* The flush takes the map and leaves an empty one.
FlushTake ==
    /\ phase = "idle"
    /\ pending # EmptyBatch
    /\ repoSet
    /\ batch' = pending
    /\ pending' = EmptyBatch
    /\ phase' = "taken"
    /\ UNCHANGED <<repoSet, clone, remote>>

\* Without GIT_REPO_URL the batch is dropped.
FlushDrop ==
    /\ phase = "idle"
    /\ pending # EmptyBatch
    /\ ~repoSet
    /\ pending' = EmptyBatch
    /\ UNCHANGED <<repoSet, phase, batch, clone, remote>>

\* git.PlainCloneContext
Clone ==
    /\ phase = "taken"
    /\ clone' = [base |-> remote, tree |-> remote, moved |-> FALSE]
    /\ phase' = "cloned"
    /\ UNCHANGED <<repoSet, pending, batch, remote>>

\* exportBatch returned: the flush is over and its clone is removed.
FlushDone ==
    /\ phase' = "idle"
    /\ batch' = EmptyBatch
    /\ clone' = NoClone

\* The batch changes no file of the clone: nothing is committed.
SkipCommit ==
    /\ phase = "cloned"
    /\ ~ArchiveFails(batch)
    /\ ApplyBatch(clone.base, batch) = clone.base
    /\ FlushDone
    /\ UNCHANGED <<repoSet, pending, remote>>

\* The files are written and archived, staged and committed.
Commit ==
    /\ phase = "cloned"
    /\ ~ArchiveFails(batch)
    /\ ApplyBatch(clone.base, batch) # clone.base
    /\ clone' = [clone EXCEPT !.tree = ApplyBatch(clone.base, batch)]
    /\ phase' = "committed"
    /\ UNCHANGED <<repoSet, pending, batch, remote>>

\* Faulty variant: a forced push.
FastforwardForced ==
    /\ phase = "committed"
    /\ remote' = clone.tree

\* repo.PushContext: the remote accepts a fast-forward only.
Fastforward ==
    /\ phase = "committed"
    /\ ~clone.moved
    /\ remote' = clone.tree

Push ==
    /\ Fastforward
    /\ FlushDone
    /\ UNCHANGED <<repoSet, pending>>

\* The remote took the push, the answer was lost: exportBatch sees an error.
PushReplyLost ==
    /\ Fastforward
    /\ phase' = "failed"
    /\ clone' = [clone EXCEPT !.moved = TRUE]
    /\ UNCHANGED <<repoSet, pending, batch>>

\* Another commit reached the branch since the clone.
PushRejected ==
    /\ phase = "committed"
    /\ clone.moved
    /\ phase' = "failed"
    /\ UNCHANGED <<repoSet, pending, batch, clone, remote>>

\* archiveInventoryFileInClone returned the error of ArchiveRelativePath.
ArchiveError ==
    /\ phase = "cloned"
    /\ ArchiveFails(batch)
    /\ phase' = "failed"
    /\ UNCHANGED <<repoSet, pending, batch, clone, remote>>

\* Any other error return of exportBatch: disk, network, authentication.
ExportFault ==
    /\ phase \in {"taken", "cloned", "committed"}
    /\ phase' = "failed"
    /\ UNCHANGED <<repoSet, pending, batch, clone, remote>>

\* The error branch of flush: the batch goes back into the queue.
Requeue ==
    /\ phase = "failed"
    /\ pending' = PutBack(pending, batch)
    /\ FlushDone
    /\ UNCHANGED <<repoSet, remote>>

\* What the flush goroutine does by itself, faults left out.
FlushStep ==
    \/ FlushTake
    \/ FlushDrop
    \/ Clone
    \/ SkipCommit
    \/ Commit
    \/ Push
    \/ PushRejected
    \/ ArchiveError
    \/ Requeue

FaultStep == PushReplyLost \/ ExportFault

-----------------------------------------------------------------------------
(* The rest of the world.                                                  *)

\* The process ends (ctx.Done or a crash) and a new one starts empty, with
\* the configuration its environment has by then.
WorkerLost ==
    /\ repoSet' \in BOOLEAN
    /\ pending' = EmptyBatch
    /\ phase' = "idle"
    /\ batch' = EmptyBatch
    /\ clone' = NoClone

\* Somebody else pushes a commit that gives k the live file l and the
\* archived file a.  A clone made before is out of date from now on.
ForeignCommit(k, l, a) ==
    /\ <<l, a>> # <<remote.live[k], remote.archive[k]>>
    /\ remote' = [live    |-> [remote.live EXCEPT ![k] = l],
                  archive |-> [remote.archive EXCEPT ![k] = a]]
    /\ clone' = IF phase \in {"cloned", "committed"} THEN [clone EXCEPT !.moved = TRUE]
                ELSE clone
    /\ UNCHANGED <<repoSet, pending, phase, batch>>

-----------------------------------------------------------------------------
(* What holds of the worker whatever its environment does.                 *)

\* A flush leaves nothing behind.
IdleIsEmpty == phase = "idle" => batch = EmptyBatch /\ clone = NoClone

\* A clone the remote would accept a push from is one of its head.
CloneCurrent ==
    phase \in {"cloned", "committed"} /\ ~clone.moved => clone.base = remote

\* The commit to be pushed is the batch applied to the revision cloned.
CommitIsBatch == phase = "committed" => clone.tree = ApplyBatch(clone.base, batch)

WorkerInv == IdleIsEmpty /\ CloneCurrent /\ CommitIsBatch

\* What the operation op makes of the live file f.
After(op, f) ==
    CASE op.kind = "write"   -> op.content
      [] op.kind = "archive" -> None
      [] op.kind = "none"    -> f

\* What Git will hold for k once the worker has caught up, other committers
\* aside: the newest operation decides.
Upcoming(k) == After(pending[k], After(batch[k], remote.live[k]))
=============================================================================
