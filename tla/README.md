# accord: TLA+ models, checks and proofs

accord keeps the Argo CD objects of a cluster (`Application`, `ApplicationSet`)
and a Git repository in step, in both directions. This directory models the two
components that carry that logic, each by itself and both together, the pure
functions they agree through and the processes they run in; it model-checks them
with TLC and proves the safety of each of them, and of both together, with TLAPS.

## The system

| part | state | operations | interacts through |
|---|---|---|---|
| reconcilers, `internal/inventory` | `HashCache`, the workqueue of controller-runtime | `Reconcile` (both kinds), `handle` | read objects from the API server, `Enqueue`/`EnqueueArchive` |
| batch worker, `internal/git` | `pending` map, the batch and clone of a running flush | `Enqueue`, `EnqueueArchive`, `flush`, `exportBatch` | clone and push of the Git branch |
| webhook handler, `internal/sync` | per request: context, path lists, results | `ServeHTTP`, `ParseGitHubPushPaths`, `ApplyInventoryYAML`, delete | GitHub deliveries, raw files at a commit, server-side apply and delete |
| `cmd/*`, `internal/bootstrap`, `internal/config` | environment, leader lease | the `main` functions, `NewManager`, the configuration loaders | kubelet, leader election |
| API server, Git remote, GitHub, users | objects, branch, deliveries | edits, commits, deliveries | external: modelled as the code above uses them |

What is hard here: reconcilers, flush, other committers and users interleave; a
flush clones, commits and pushes with the lock released; the queue and the cache
are lost with the process; the cache and the annotation decide what is ignored;
deliveries are concurrent, unordered, lost or repeated; a request's context is
cancelled when GitHub hangs up; every export comes back as a webhook and every
apply as a watch event, and only two hashes (annotation and cache) tell such an echo
from a change. `PROJECT.json` lists the hazards at their lines.

What makes each part correct:

- batch worker: whole batches only, operations per path in order, nobody else's
  commit overwritten, nothing deleted that is not archived, the last operation
  wins, retries end;
- reconcilers: what the cache suppresses is on its way to Git; at rest Git mirrors
  the cluster; edits survive a restart; events without a change cause no commits;
- webhook: objects come only from signed pushes and only at their own path; the
  cluster agrees with `main` or the response says where it does not; a request whose
  body has been read is answered;
- both together: the echoes die out, every commit has a cause (somebody's edit, or
  fields of other managers that come round once), what a person asked for last is what
  cluster and Git end up with;
- pure functions: a path names one object, an echo settles although other managers own
  fields of the object, of a file the first document counts, a commit message accounts
  for its batch;
- processes: one exporter among the elected, nothing runs misconfigured, a failed
  leader is replaced.

## Modules

- `GitTree`: the inventory files of a revision (live and archived), export
  operations, `ApplyBatch` (the loop of `exportBatch`) and `PutBack` (the loop of
  `flush` after an error). A key is one object, its cache entry, its live path and
  its archive path: with the default path template these correspond one to one.
- `BatchWorker`: `pending`, the flush in phases (idle, taken, cloned, committed,
  failed), its clone and the remote branch. A clone holds the revision it was made
  from; `moved` says that the branch has left it, so the remote refuses the push.
- `ExportQueue`: the worker in its environment, with history variables: the log of
  accepted operations per path and the indexes that queue, flush and branch hold.
- `AtomicExport`: the abstract specification. The branch changes only by a foreign
  commit or, in one step, by one accepted operation for each of a set of paths,
  none older than the one published before for its path.
- `BatchWorkerProofs`: lemmas about the steps of the worker, shared by the next two.
- `ExportQueueProofs`, `InventoryControllerProofs`, `SyncOperatorProofs`,
  `SyncOrderProofs`, `AccordProofs`, `FormatsProofs`, `DeploymentProofs`: theorems about
  the modules they are named after (`SyncOrderProofs` is about `SyncOperator` with
  ordered deliveries).
- `InventoryController`: API server, `HashCache`, workqueue and one reconcile per
  kind, in front of `BatchWorker`. A reconcile is a read and, later, a decision.
  The normalized manifest is a content, its SHA-256 an injective `MaterialHash`,
  and the annotation `accord.io/sync-content-hash` a field of the object that is not
  part of its material.
- `SyncOperator`: repository revisions by path, push events as GitHub builds them,
  handlers that receive, gate, fetch, validate, apply, delete and respond. A path is
  its place in the sorted order, so a request keeps the sets of paths its two loops
  still have to process and comes next to the least of them. The
  status wording of responses is reduced to ignored, error, applied and deleted;
  `reported` remembers for which objects the last result was an error. A
  server-side apply leaves the file or the file with fields of other managers:
  `Merged[d][c]` is the set of what an apply of `c` over `d` may leave, with the
  annotation of `c`. A request is `reading` until its body has arrived (`BodyArrives`),
  which takes as long as the sender likes, or has been cut off (`BodyCut`). An object is
  gone as soon as it is deleted.
- `InventoryPaths`: `RenderExportPath`, `ExportObjectCacheKey`, `ArchiveRelativePath`
  and `ParseInventoryExportPath`. A string is a sequence of its dot-separated labels,
  enough to tell suffixes and names apart. `SyncOperator` and `Accord` parse and
  render with it.
- `Accord`: `InventoryController` and an instance of `SyncOperator` that share the
  cluster and the repository. A push that moves the branch is announced, with the
  lists GitHub computes from the two revisions; a webhook that changes an object
  puts it into the workqueue. People edit and delete in the cluster and in Git;
  `wanted` is what they asked for last, `hasty` says that somebody did not wait,
  `asked` counts how often a manifest of each object was asked for and `left` how often
  an apply left fields of others on it. `OneSided` says that people have changed the
  cluster only, or Git only.
- `Manifests`: objects as functions from field paths to values; normalization, hash,
  the annotated server-side apply over what other managers own, the loop break, and
  the first YAML document of a file.
- `CommitMessage`: `commitBody` and `commitMessageForBatch` as numbers and sets of paths,
  a path being its place in the sorted batch.
- `Formats`: `InventoryPaths`, `Manifests` and `CommitMessage` over sets of inputs, with
  reference definitions.
- `Deployment`: the `main` functions as sequences of steps, configuration checks,
  what waits for leader election, and processes that fail, restart and are replaced.
- `MC*`: values of the constants for TLC.

Definitions described as a faulty variant are what the code would do with a
particular mistake; `PROJECT.json` pairs each property with the variant it catches.

## Runs

Passing:

| run | question | bounds |
|---|---|---|
| `export_safety` | `TypeOK`, `QueueInv`, `LastOpWins` (until an export fails), refinement `ExportIsAtomic`, `SoftDelete` | 2 paths, 2 contents (symmetric), any live files at the start, 2 operations, 1 foreign commit, 1 fault, 1 restart, one path not archivable |
| `inventory_mirror` | `TypeOK`, `CacheMeansExported`, `RestMirrors` | one Application applied from Git, one ApplicationSet, 3 edits, 1 deletion, 1 restart |
| `inventory_live` | `MirroredUnlessDisturbed` beside a key that cannot be rendered, `EventuallyQuiet` | 2 Applications, 1 creation, deletion, fault, restart and foreign commit, unlimited touches |
| `sync_ordered` | `TypeOK`, `MainReflected` | 2 objects of one name, an archived path, 2 pushes of up to 2 commits of one file, 1 fault, 1 cancellation |
| `sync_hostile` | `AppliedFromGit`, `EveryRequestAnswered` | 2 handlers, a push of up to 2 files, either object at either path, 1 each of forged, repeated, lost, failed, cancelled, restarted |
| `accord_converge` | `AccordTypeOK`, `EveryWriteHasCause`, `OthersLeftOnce`, `RestInSync`, `UnhurriedChangesSurvive`, `EchoesDieOut` | 1 object that was applied from Git, 3 changes on either side (at most 2 edits, 1 deletion, 2 in Git), 1 failed export or restart |
| `formats` | `PathsNameObjects`, `ObjectsKeptApart`, `EchoSettles`, `FirstDocumentOnly`, `MessageAccounts` | 36 objects, 4 templates, files of 5 lines, every batch of up to 12 paths, every combination of fields of others |
| `startup` | `OneExporter`, `RunsAsConfigured`, `EventuallyLed` | 2 pods of any programs, 2 troubles, a `Duration` of 8 bits |

In all runs of the worker `GIT_REPO_URL` is set or not, and may change at a restart.

Why the bounds are enough: an overtaking, an overwriting or a loss on one path
takes two operations and one event between them (the proofs below cover any
number); a third edit in `inventory_mirror` shows the state after recovery; a
second path shows that batches are atomic and that paths do
not disturb each other; two versions of an object tell a stale one from the current
one, and since one of them has a field more than the other, an apply of the one over the
other may keep that field. In `accord_converge` objects do not interact (`ObjectsKeptApart`), so one is
enough, and an echo goes through all four stations within three changes. Two pods
are enough for `startup` because exclusion and shared leases concern pairs. Twelve
paths are two beyond the ten a message lists. Touches and reconciles are unbounded.
The `Duration` is scaled down because TLC has 32-bit integers: some seconds fit, some
wrap to a negative interval and some to a short one, as with 64 bits.

Disagreements with the documents (`findings`, expected violations):

- `inventory_fault`: after a failed flush the old operation overwrites a newer one
  (`worker.go:128`, against "last write wins", `worker.go:74`), and the hash cache
  suppresses the newer one for good.
- `sync_overtake`: of two overlapping deliveries the older one may be applied last
  (architecture.md 8.2: main matches the cluster one to one).
- `accord_stale`: an edit in the cluster, one in Git and a return to the first, made
  one after the other at rest. The apply from Git leaves the cache alone, so the
  return is taken for an echo and never reaches Git. (Without fields of others, which would
  only hide this.)
- `accord_undone`: a file is removed in Git and added again while the first webhook
  is under way. The archive operation that the deletion caused moves the new file
  away, and the webhook of that commit deletes the object.

Further behaviour that other bounds, inputs or properties of the same modules show:

- a restart between a deletion and its flush leaves the live file in Git for ever
  (ADR-0001 promises no loss): `inventory_fault` with one deletion and one restart
  instead of the fault;
- an edit of an object applied from Git, taken back before the flush, is committed
  (ADR-0010): `inventory_fault` with `Applied` set and no fault. With the
  sync-operator running (`Accord`) that commit is applied, so the two sides agree
  again, on the version that was taken back;
- a file added or changed and then removed within one push is reported as an error
  and its object stays (ADR-0012): `sync_ordered` without the exception for reported
  errors;
- a commit in Git that is applied over an object with a field of another manager comes
  back: the annotation is the hash of the file and not of the object, so the echo is
  exported, two writes for one edit (ADR-0006: such an echo is blocked).
  `EveryWriteHasCause` and `OthersLeftOnce` say how far this goes;
- the webhook of an export undoes a newer edit in the cluster (ADR-0010: the final state
  is committed): `accord_undone` with two edits and no change in Git;
- `deletionGracePeriodSeconds` and `ownerReferences`, which the API server writes or
  keeps, and Argo CD's `operation` and annotations are not stripped (`normalize.go:33`;
  architecture.md 10.1 has what the system injects removed). They are exported like
  fields of other managers, and settle like them (`EchoSettles`);
- the body of a commit message lists up to ten paths of each kind and then "... and n
  more": eleven lines from eleven paths on, up to 22 (`worker.go:239`, `:281`;
  git-policy.md 2: "up to 10 lines max"). `MessageAccounts` is about the ten paths;
- after a restart the controller exports fields of others anew. When the file is being
  removed in Git meanwhile, that brings it back; `UnhurriedChangesSurvive` excepts it
  (`NoneLeftOver`);
- an archive operation replaces an older archived file of the same object
  (`os.Remove(dest)`, `worker.go:317`; ADR-0009 keeps the archive): `SoftDelete` is about
  live files;
- a push that fails half-way, and lost or repeated deliveries, leave the cluster
  behind `main`: `AppliedFromGit` and `EveryRequestAnswered` allow it;
- an object whose name ends in `.yml` is exported to a path that
  `ParseInventoryExportPath` reads as the object without that ending (ADR-0012 takes
  paths to name objects exactly); `PathsNameObjects` excepts these names and shows
  that there are no others. For the same reason `x.yml` renamed to `x.yaml` in one
  push is applied and then deleted;
- a recreated object has a live and an archived file (ADR-0011); pushes to any branch
  are applied (architecture.md 8.2);
- a comment before the first `---` hides the document after it: the file is an error;
- the nanoseconds of `BATCH_INTERVAL_SECONDS` overflow above 9223372036 seconds;
- without `--leader-elect`, the default, every replica exports. The default interval is
  10 seconds in the code and 30 in configuration-strategy.md.

Deadlock checking is off where the bounds let everything come to rest (no object
left, no operation left, all pods running, an input picked).

## Fairness

- `ExportQueue`, `InventoryController`: weak fairness of the flush. The ticker of
  `Start` fires until the process ends, and clone and push return. Faults are not
  fair, and bounded.
- Reconciles: strong fairness of starting the reconcile of a queued key, because
  the workqueue is first in, first out while events for other keys keep coming;
  weak fairness of ending it.
- `SyncOperator`: weak fairness of each handler once it has the body: its calls are
  bounded by the context's five minutes and the HTTP client's two. The arrival of the
  body is not fair: `io.ReadAll` (`webhook.go:63`) comes before that context and the
  server sets no read deadline, so a slow sender holds its handler for as long as it
  likes. A restart ends requests without an answer; `EveryRequestAnswered` says so.
- `Accord`: weak fairness of `Progress`, all steps of both programs and the deliveries of
  GitHub together: as long as one of them can be taken, one is. That is less than
  each program by itself gives. Deliveries keep their order and do not overlap in its runs, because
  `sync_overtake` shows what happens otherwise.
- `Deployment`: weak fairness of the steps of a process and of its restart by the
  kubelet, and of the expiry of a lease nobody renews. Troubles are bounded. That a
  leader stops before its lease can be taken (renew deadline below lease duration) is
  the guarantee of controller-runtime and is assumed.

A branch that other people commit to without pause can make every push fail; the
bound on foreign commits excludes that.

## Proofs

All theorems hold for every set of objects, paths, contents and requests and for every
bound. Each is a safety property of a `Spec` (without fairness); each invariant was
checked by TLC before it was proved.

Assumptions, all named in the modules that declare the constants and evaluated by TLC:
the bounds are naturals; `None` is not a content, key, hash or manifest, `Nobody` no
pod, and the result for a path that is not parsed no key (they stand for nil values and
error returns); paths are numbered in the order of `sort.Strings`; names of objects are
non-empty sequences of labels, neither the empty string nor a dot, as Kubernetes has
them; an apply leaves a manifest of the same object, and exactly the file where there was
no object or the object was that file already (`MergedAssumption`). For `Accord`: the files of the repository are the live
and the archived files of the objects, each once (`PathOrderAssumption`); a live path is
parsed to its object and an archive path to none (`NamesAssumption`, which is what
`PathsAgree` proves of the two functions for names that do not end in `.yml`); and
objects have the default template, with which every path is rendered and can be archived
(`TemplateAssumption`).

The worker (`BatchWorkerProofs`). `WorkerInv` ties batch, clone and branch: a clone that
has not `moved` is the branch (`CloneCurrent`), a commit is the batch applied to the
clone (`CommitIsBatch`), an idle flush holds nothing. Its lemmas say what a push does
to a path (`PushAppliesBatch`), and that no step of a healthy flush changes what is
to come for a path (`Upcoming`: the branch, then the batch, then the queue).

The export path (`ExportQueueProofs`):

1. `TypeCorrect`: `Spec => []TypeOK`, by one lemma per operator and one step per action.
2. `QueueOrdered`: `Spec => []QueueInv`, inductive together with `TypeOK`. A push
   publishes in order only because what queue and flush hold is a logged operation
   (`Accounted`), indexes are ordered branch <= flush <= queue (`Ordered`), and
   `WorkerInv`. A restart, a lost answer and a put-back preserve all of them. Note that
   `Ordered` survives the overwriting put-back: the retry goes back to an older accepted
   operation, never behind the branch.
3. `WorkerImplementsAtomicExport`: `Spec => ExportIsAtomic`. `PushIsPublish` turns a
   push, answered or not, into one abstract publication with `batchAt` as witness;
   every other step is an acceptance, a foreign commit or a stutter.
4. `NothingLostByPush`: `Spec => SoftDelete`, from the same invariant.
5. `LastOperationWins`: `Spec => []LastOpWins`. Inductive with the flush being healthy:
   accepting an operation decides what is to come, and no other step changes that.

The reconcilers (`InventoryControllerProofs`), in layers, each inductive given the ones
before it:

1. `TypeCorrect`: `Spec => []TypeOK`.
2. `CachedIsExported`: `Spec => []CacheMeansExported`. `BaseInv` adds to `WorkerInv` that
   only keys with a path are ever queued, so that, when every such path can be archived
   (`Undisturbed`), no archive fails; `CacheInv` is the property with a healthy flush.
   An export sets cache and queue in one step, an archive clears both, a flush changes
   neither what is to come nor the cache, a restart empties the cache.
3. `MirroredAtRest`: `Spec => []RestMirrors`. `SettledInv` says where each object is:
   in the workqueue, read by its reconcile and unchanged since, or settled (annotation,
   or on its way to Git). An ignored event is settled because of `CacheInv`. A restart
   lists only the objects that exist, so an object that does not must be unknown
   everywhere: `NeverThere`, which holds until something is deleted, hence
   `NoDeleteForgotten`.

The webhook (`SyncOperatorProofs`): `TypeCorrect` and `OnlyGitIsApplied`
(`Spec => []AppliedFromGit`), for any number of handlers and with forged, repeated, lost,
cancelled and failed requests. `RequestInv` (`Sound` for each handler): a request that is
not refused carries the tree of an announced push, and the file it has fetched is the one
of its current path there. Pushes are never taken back (`PushesGrow`), and a patch passes
the identity check, so the object it leaves is a pushed one at its own path. The current
path is the least of a set of numbers; that there is one is `LeastNumber`, from the
well-foundedness of the naturals.

The webhook, in order (`SyncOrderProofs`): `ClusterFollowsMain` is
`ASSUME Orderly PROVE Spec => []MainReflected`. `Orderly` is a condition on the constants:
deliveries do not overlap, none is lost or repeated or cut off by a restart, pushes go to
`main`, and an object has one path; `sync_ordered` satisfies it and `sync_overtake` shows
that without it the property is false. Faults, cancellations and forged requests are not
excluded.
`ListsAccount` shows that the two lists `ParseGitHubPushPaths` makes of a push of any
number of commits account for every file that differs between its two ends, however the
commits add, change, remove and restore it. `HistoryInv` chains the pushes. `OrderInv`:
for some n the first n pushes are delivered, the request that is served is the n-th, and
every object whose path is not still on its lists is settled for the revision after n.

Both together (`AccordProofs`), for any number of objects, handlers, changes, failed
exports and restarts. `AccordSteps` shows that every step of the composition is one of
the inventory-controller next to an announcement, or one of a request that leaves the
controller alone; `RequestSteps` says what a request can do. `AccordBase` is what both
need: types, the controller's `BaseInv`, that whatever is read, queued, committed or
pushed for an object is a manifest of that object (`OwnInv`), that a push lists the files
its revision has or lacks (`PushesInv`), and that a request serves an announced push
(`RequestInv`).

1. `AccordTypeCorrect`: `AccordSpec => []AccordTypeOK`.
2. `NoLoop`: `AccordSpec => []EveryWriteHasCause`, with webhooks overlapping or in order. The
   property is not inductive: a write is pushed long after it was asked for. `PaidFor`
   adds to the writes done those that are on their way, at four stations: in the cluster
   and not read yet, read by a reconcile, in the queue, in the batch. Each step moves a
   write on, drops it or merges two; only an edit, a fault, a restart and an
   apply that leaves fields of others add one. Any other apply adds none, because the
   object it leaves carries the annotation of its content; those that do are in `left`.
   A restart can make every object look unread, but empties queue and batch, so it costs
   one write for each object at most. The bound is for each object by itself: of the sum
   over all objects it would be false, since one restart exports several again.
3. `InSyncAtRest`: `AccordSpec => []RestInSync`, with webhooks in order. `OrderInv` and
   `LatestInv` (one request at a time; the last push that lists a file has its present
   content) give that a request that is not followed by another for its object leaves
   what Git has. When people change the cluster only, the controller's own `CacheInv`,
   `NeverThere` and `SettledInv` survive the composition (`SettledStill`), and
   `AnnotationInv` says that an annotation which silences an object is the hash of its
   file in Git once nothing is outstanding for it. When they change Git only, `GitInv`
   says that an object is what an apply of its file may leave (`Reflected`), or agrees with
   Git, or the sync-operator will be told, or it is
   waiting for its first export (`FirstExport`), which neither cache nor annotation can
   swallow. `accord_stale` is what goes wrong between the two cases.

Formats (`FormatsProofs`): `PathsAgree`, `ObjectsApart`, `EchoEnds`,
`FirstDocumentApplied` and `MessagesAccount` for any names, templates, manifests, fields,
files and batches.
`DefaultPath` computes the rendered path; its four segments are told apart from the
five of an archive path, and the extension that was added is the one that is cut off.
`Normalized` and `AppliedFields` give domain and values of a normalized and of an applied
object; the export of an applied object declares every field the next apply will find,
so `SecondApplyRecognised`. Documents and messages are about places in a file and in a
batch; what would be an induction over them is an argument about the least or the
greatest place (`LeastNumber`, `GreatestNumber`): the first line of the text and the
first with content, the first path a body leaves out (`BodyAccounts`).

Processes (`DeploymentProofs`): `OneExporterAtATime` from `LeaderHoldsLease` (whoever
leads by election holds the lease of its program) and `ConfigurationHolds` from
`ConfigInv` (past its first step a process has an accepted configuration; a panic is one
of a worker with an interval that is not positive) and `WrapFits` (an interval below
half the range is not changed by the conversion).

Only model-checked:

- liveness: `EveryRequestAnswered`, `MirroredUnlessDisturbed`, `EventuallyQuiet`,
  `EchoesDieOut`, `EventuallyLed` (fairness is beyond the prover);
- `OthersLeftOnce` and `UnhurriedChangesSurvive`;
- the disagreements above, which are counterexamples.

## Not modelled

The API types and generated code, release watcher and log collector (documents only),
the `Reconcile` of `mirror-upgrader` (empty), `configmapmaterial` (legacy apart from
its annotation key), scheme registration, TLS, certificates and metrics options, YAML
and JSON syntax, HMAC arithmetic (a signature is valid or not), wording of messages.
Finalizers: an object that has some stays, with a deletion timestamp, until they are
removed; here it is gone at once. A failed `Get` of a reconcile, which only requeues.
In `Accord`, failing webhook calls and lost or overlapping deliveries: `SyncOperator`
has them, and convergence cannot be expected of them.

## Plan

1. Done: the export path, the inventory-controller and the sync-operator, each with
   its environment, and the proofs above.
2. Done: both programs together, the pure functions, configuration and processes.
3. Done: the safety of the worker, the reconcilers, the webhook, the formats and the
   processes is proved.
4. Done: both programs together, with fields of other managers on the objects, are
   proved to write nothing without a cause and to agree at rest. Left: liveness, and proofs
   of `OthersLeftOnce` and `UnhurriedChangesSurvive`.
