---------------------------- MODULE ExportQueue ----------------------------
(***************************************************************************)
(* The batch worker in its environment: reconcilers enqueue operations at  *)
(* any moment, other people commit to the same branch, calls to Git fail,  *)
(* and the process is restarted.  History variables remember, for every    *)
(* path, the operations accepted and which of them the queue, the flush    *)
(* and the branch hold.                                                    *)
(***************************************************************************)
EXTENDS BatchWorker, Naturals, Sequences

CONSTANTS
    Limit   \* bounds on what the environment does

\* Operations accepted, commits of others, failed calls, restarts.
Events == {"accept", "foreign", "fault", "restart"}

ASSUME LimitAssumption == Limit \in [Events -> Nat]

VARIABLES
    log,          \* log[k]: the operations accepted for k
    pendingAt,    \* pendingAt[k]: index in log[k] of pending[k], or 0
    batchAt,      \* batchAt[k]: index in log[k] of batch[k], or 0
    publishedAt,  \* publishedAt[k]: index of the operation last pushed, or 0
    count         \* how often each of Events has happened

history == <<log, pendingAt, batchAt, publishedAt>>
vars == <<workerVars, history, count>>

NoIndex == [k \in Keys |-> 0]

Init ==
    /\ NewBatchWorker
    /\ remote \in {t \in Tree : t.archive = EmptyTree.archive}
    /\ log = [k \in Keys |-> <<>>]
    /\ pendingAt = NoIndex
    /\ batchAt = NoIndex
    /\ publishedAt = NoIndex
    /\ count = [e \in Events |-> 0]

Happens(e) ==
    /\ count[e] < Limit[e]
    /\ count' = [count EXCEPT ![e] = @ + 1]

-----------------------------------------------------------------------------
(* The steps of the worker, with what they do to the history.              *)

\* A reconciler hands over an operation.
Accept(k, op) ==
    /\ Happens("accept")
    /\ \/ \E c \in Contents : op = WriteOp(c) /\ Enqueue(k, c)
       \/ op = ArchiveOp /\ EnqueueArchive(k)
    /\ log' = [log EXCEPT ![k] = Append(@, op)]
    /\ pendingAt' = [pendingAt EXCEPT ![k] = Len(log[k]) + 1]
    /\ UNCHANGED <<repoSet, phase, batch, clone, remote, batchAt, publishedAt>>

Take ==
    /\ FlushTake
    /\ batchAt' = pendingAt
    /\ pendingAt' = NoIndex
    /\ UNCHANGED <<log, publishedAt, count>>

Drop ==
    /\ FlushDrop
    /\ pendingAt' = NoIndex
    /\ UNCHANGED <<log, batchAt, publishedAt, count>>

\* The steps of exportBatch that neither end the flush nor reach the remote.
Prepare ==
    /\ Clone \/ Commit \/ PushRejected \/ ArchiveError
    /\ UNCHANGED <<history, count>>

Skip ==
    /\ SkipCommit
    /\ batchAt' = NoIndex
    /\ UNCHANGED <<log, pendingAt, publishedAt, count>>

Published == [k \in Keys |-> IF batchAt[k] = 0 THEN publishedAt[k] ELSE batchAt[k]]

Publish ==
    /\ Push
    /\ publishedAt' = Published
    /\ batchAt' = NoIndex
    /\ UNCHANGED <<log, pendingAt, count>>

PutBackBatch ==
    /\ Requeue
    /\ pendingAt' = [k \in Keys |-> IF batchAt[k] # 0 THEN batchAt[k] ELSE pendingAt[k]]
    /\ batchAt' = NoIndex
    /\ UNCHANGED <<log, publishedAt, count>>

-----------------------------------------------------------------------------
(* What may go wrong, a bounded number of times.                           *)

ReplyLost ==
    /\ Happens("fault")
    /\ PushReplyLost
    /\ publishedAt' = Published
    /\ UNCHANGED <<log, pendingAt, batchAt>>

Fault ==
    /\ Happens("fault")
    /\ ExportFault
    /\ UNCHANGED history

Restart ==
    /\ Happens("restart")
    /\ WorkerLost
    /\ pendingAt' = NoIndex
    /\ batchAt' = NoIndex
    /\ UNCHANGED <<remote, log, publishedAt>>

Foreign ==
    /\ Happens("foreign")
    /\ \E k \in Keys, l, a \in File : ForeignCommit(k, l, a)
    /\ UNCHANGED history

WorkerNext == Take \/ Drop \/ Prepare \/ Skip \/ Publish \/ PutBackBatch

Next ==
    \/ \E k \in Keys, op \in Ops : Accept(k, op)
    \/ WorkerNext
    \/ ReplyLost
    \/ Fault
    \/ Restart
    \/ Foreign

Spec == Init /\ [][Next]_vars

-----------------------------------------------------------------------------
(* Properties.                                                             *)

Indexes == [Keys -> Nat]

\* The maps, the clone, the branch and the history have their types.
TypeOK ==
    /\ WorkerTypeOK
    /\ log \in [Keys -> Seq(Ops)]
    /\ pendingAt \in Indexes
    /\ batchAt \in Indexes
    /\ publishedAt \in Indexes
    /\ count \in [Events -> Nat]

\* op, held for k by the queue or by the flush, is the accepted operation of
\* index i; index 0 goes with no operation.
HeldAt(op, i, k) ==
    IF op = NoOp THEN i = 0 ELSE i \in 1..Len(log[k]) /\ log[k][i] = op

\* The queue and the running flush hold accepted operations.
Accounted ==
    \A k \in Keys : HeldAt(pending[k], pendingAt[k], k) /\ HeldAt(batch[k], batchAt[k], k)

\* Per path the branch is not ahead of the flush, nor the flush of the queue.
Ordered ==
    \A k \in Keys :
        /\ publishedAt[k] <= Len(log[k])
        /\ batchAt[k] # 0 => publishedAt[k] <= batchAt[k]
        /\ pendingAt[k] # 0 => publishedAt[k] <= pendingAt[k] /\ batchAt[k] <= pendingAt[k]

\* Why a push publishes the accepted operations in order: what the queue and
\* the flush hold is accounted for, ordered behind what the branch has, and
\* the commit rests on the branch (flush, exportBatch).  Inductive with TypeOK.
QueueInv == Accounted /\ Ordered /\ WorkerInv

\* The branch moves by one atomic batch of accepted operations at a time,
\* and never back to an operation older than the one published before for
\* the same path: a clone gone stale, a lost push reply, a retry and a
\* restart included (flush, exportBatch).
Abstract == INSTANCE AtomicExport WITH published <- publishedAt
ExportIsAtomic == Abstract!Spec

\* A push of the worker touches only the paths of its batch, and a live
\* file it removes is found in the archive with the content the branch had
\* (archiveInventoryFileInClone; the push is refused once the clone is old).
SoftDelete ==
    [][count'["foreign"] = count["foreign"] =>
         \A k \in Keys :
            /\ batch[k] = NoOp =>
                 /\ remote'.live[k] = remote.live[k]
                 /\ remote'.archive[k] = remote.archive[k]
            /\ remote.live[k] # None /\ remote'.live[k] = None =>
                 remote'.archive[k] = remote.live[k]]_vars

\* The content the last accepted operation asks for.
Wanted(k) == log[k][Len(log[k])].content

\* There is a repository and no export has failed: no call, no refused push,
\* no path that cannot be archived, and the process is still the first one.
Undisturbed ==
    /\ repoSet
    /\ \A e \in {"foreign", "fault", "restart"} : count[e] = 0
    /\ \A k \in Keys \ Archivable : \A i \in DOMAIN log[k] : log[k][i] # ArchiveOp

\* "debounce: last write wins" (Enqueue): whatever the interleaving of enqueues
\* and flushes, what the queue, the running flush and the branch together lead
\* to for a path is what the last accepted operation asked for, as long as no
\* export fails (then flush puts the older operation back over it).
LastOpWins == Undisturbed => \A k \in Keys : log[k] # <<>> => Upcoming(k) = Wanted(k)
=============================================================================
