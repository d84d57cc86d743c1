SPECIFICATION Spec
CONSTANTS
    Keys = {k1, k2}
    Contents = {a, b}
    Archivable = {k1}
    None = None
    MaxOps = 2
    Limit <- Troubled
INVARIANT LastOpWins
INVARIANT TypeOK
INVARIANT QueueInv
PROPERTY ExportIsAtomic
PROPERTY SoftDelete
CHECK_DEADLOCK FALSE
SYMMETRY Renaming
