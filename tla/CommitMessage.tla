---------------------------- MODULE CommitMessage ----------------------------
(***************************************************************************)
(* The message of an export commit, internal/git/worker.go: how many paths *)
(* the subject counts and which of them the body lists.  Wording is left   *)
(* out: a message is its numbers, its headings and its lines.  The paths of *)
(* a batch are sorted (sortedKeysBatch), and a path is its place there.    *)
(***************************************************************************)
EXTENDS Naturals, FiniteSets

\* max of commitBody
MaxListed == 10

\* The index of p in the loop over the sorted paths S.
Index(S, p) == Cardinality({q \in S : q < p})

\* A body is the paths it lists and the number in "... and n more", 0 for none.
\* Faulty variant: the loop stops one path late.
commitBodyStopsLate(S) ==
    [listed |-> {p \in S : Index(S, p) <= MaxListed},
     more |-> IF Cardinality(S) > MaxListed THEN Cardinality(S) - MaxListed ELSE 0]

\* commitBody
commitBody(S) ==
    [listed |-> {p \in S : Index(S, p) < MaxListed},
     more |-> IF Cardinality(S) > MaxListed THEN Cardinality(S) - MaxListed ELSE 0]

\* commitMessageForBatch, for the kinds of the sorted paths.  A single archived
\* path is named in the subject instead of counted.
commitMessageForBatch(kind) ==
    LET writes == {p \in DOMAIN kind : kind[p] = "write"}
        archives == {p \in DOMAIN kind : kind[p] = "archive"}
        Message(form, named) ==
            [form |-> form, named |-> named,
             synced |-> Cardinality(writes), archived |-> Cardinality(archives),
             write |-> commitBody(writes), archive |-> commitBody(archives)]
    IN  CASE writes # {} /\ archives = {} -> Message("sync", {})
          [] writes = {} /\ Cardinality(archives) = 1 -> Message("archive", archives)
          [] writes = {} /\ Cardinality(archives) > 1 -> Message("archive", {})
          [] OTHER -> Message("both", {})
=============================================================================
