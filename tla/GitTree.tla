------------------------------ MODULE GitTree ------------------------------
(***************************************************************************)
(* The data the Git side of accord works on: the inventory files of a      *)
(* revision and the export operations of internal/git/worker.go.           *)
(*                                                                         *)
(* A key stands for one watched object (kind, namespace, name).  With the  *)
(* default EXPORT_PATH_TEMPLATE the cache key and the export path of an    *)
(* object are both injective functions of that triple, so the same key     *)
(* names the object, its cache entry, its live file inventory/... and its  *)
(* archived file inventory/archive/... .  A content is the normalized YAML *)
(* of one object.                                                          *)
(***************************************************************************)

CONSTANTS
    Keys,        \* the watched objects
    Contents,    \* the normalized manifests
    Archivable,  \* the keys whose export path starts with "inventory/"
    None         \* no file, no object, no hash

ASSUME NoneAssumption == None \notin Contents /\ None \notin Keys
ASSUME ArchivableAssumption == Archivable \subseteq Keys

File == Contents \cup {None}

\* The inventory part of a revision: the live files and the archived ones.
Tree == [live : [Keys -> File], archive : [Keys -> File]]

EmptyTree == [live |-> [k \in Keys |-> None], archive |-> [k \in Keys |-> None]]

-----------------------------------------------------------------------------
(* pendingExport: what is to be done with one path.                        *)

WriteOp(c) == [kind |-> "write", content |-> c]

ArchiveOp == [kind |-> "archive", content |-> None]

\* The path is not in the map.
NoOp == [kind |-> "none", content |-> None]

Ops == {WriteOp(c) : c \in Contents} \cup {ArchiveOp}

\* map[string]pendingExport
Batches == [Keys -> Ops \cup {NoOp}]

EmptyBatch == [k \in Keys |-> NoOp]

\* The live file is renamed; with no live file there is nothing to move.
Archives(t, b, k) == b[k] = ArchiveOp /\ t.live[k] # None

\* Faulty variant: the live file is removed, not renamed.
ApplyBatchHardDelete(t, b) ==
    [live    |-> [k \in Keys |-> IF b[k].kind = "write" THEN b[k].content
                                 ELSE IF Archives(t, b, k) THEN None
                                 ELSE t.live[k]],
     archive |-> t.archive]

\* The loop of exportBatch: every path of the batch is written or archived.
\* The paths are distinct, so the iteration order of the map is immaterial.
ApplyBatch(t, b) ==
    [live    |-> [k \in Keys |-> IF b[k].kind = "write" THEN b[k].content
                                 ELSE IF Archives(t, b, k) THEN None
                                 ELSE t.live[k]],
     archive |-> [k \in Keys |-> IF Archives(t, b, k) THEN t.live[k]
                                 ELSE t.archive[k]]]

\* ArchiveRelativePath refuses a path outside inventory/, and that error
\* ends the loop: no path of the batch is exported.
ArchiveFails(b) == \E k \in Keys : b[k] = ArchiveOp /\ k \notin Archivable

\* The loop of flush after an error: every path of the failed batch is put
\* back, over whatever was enqueued for it meanwhile.
PutBack(pend, b) == [k \in Keys |-> IF b[k] # NoOp THEN b[k] ELSE pend[k]]
=============================================================================
