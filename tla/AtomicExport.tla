---------------------------- MODULE AtomicExport ----------------------------
(***************************************************************************)
(* What the export queue of the inventory-controller promises, without its *)
(* map, its clone and its retries.  Operations are accepted, one log per   *)
(* path.  The branch changes in two ways only: somebody else commits, or   *)
(* in ONE step a set of paths each receives an accepted operation that is  *)
(* not older than the last one published for that path.                    *)
(*                                                                         *)
(* An accepted operation may never be published (a restart loses it, a     *)
(* later one replaces it), and the same one may be published twice.        *)
(***************************************************************************)
EXTENDS GitTree, Naturals, Sequences

VARIABLES
    remote,      \* the inventory at the head of the branch
    log,         \* per path, the operations accepted so far
    published    \* per path, the index of the operation last published, or 0

vars == <<remote, log, published>>

Init ==
    /\ remote \in Tree
    /\ log = [k \in Keys |-> <<>>]
    /\ published = [k \in Keys |-> 0]

Accept(k, op) ==
    /\ UNCHANGED <<remote, published>>
    /\ log' = [log EXCEPT ![k] = Append(@, op)]

\* at[k] is the index of the operation published for k, 0 for none.
Publish(at) ==
    /\ UNCHANGED log
    /\ \A k \in Keys : at[k] # 0 => at[k] \in 1..Len(log[k]) /\ published[k] <= at[k]
    /\ published' = [k \in Keys |-> IF at[k] = 0 THEN published[k] ELSE at[k]]
    /\ remote' = ApplyBatch(remote, [k \in Keys |-> IF at[k] = 0 THEN NoOp ELSE log[k][at[k]]])

\* Another committer changes the files of one object.
OtherCommit ==
    /\ UNCHANGED <<log, published>>
    /\ \E k \in Keys, l, a \in File :
           remote' = [live    |-> [remote.live EXCEPT ![k] = l],
                      archive |-> [remote.archive EXCEPT ![k] = a]]

\* The indexes a publication may choose from.
Indexes == [Keys -> UNION {0..Len(log[k]) : k \in Keys}]

Next ==
    \/ \E k \in Keys, op \in Ops : Accept(k, op)
    \/ \E at \in Indexes : Publish(at)
    \/ OtherCommit

Spec == Init /\ [][Next]_vars
=============================================================================
