--------------------------- MODULE MCExportQueue ---------------------------
(* Small instances of the export queue for TLC.                            *)
EXTENDS ExportQueue, TLC

CONSTANT MaxOps   \* bound on the operations accepted

\* Nothing goes wrong and nobody else commits.
Calm == [e \in Events |-> IF e = "accept" THEN MaxOps ELSE 0]

\* One failure of each kind, in any order.
Troubled == [e \in Events |-> IF e = "accept" THEN MaxOps ELSE 1]

\* Contents are only compared, so they may be renamed.
Renaming == Permutations(Contents)
=============================================================================
