--------------------------- MODULE MCSyncOperator ---------------------------
(* Small instances of the sync-operator for TLC.                           *)
EXTENDS SyncOperator

CONSTANTS MaxPushes

k1 == [kind |-> "Application", namespace |-> <<"argocd">>, name |-> <<"web">>]
k2 == [kind |-> "ApplicationSet", namespace |-> <<"argocd">>, name |-> <<"web">>]

Objects1 == {k1}
Objects2 == {k1, k2}

\* The live file of k1, that of k2, which has the same name, and the archived
\* file of k1.
TwoObjects ==
    <<<<<<"inventory">>, <<"applications">>, <<"argocd">>, <<"web", "yaml">>>>,
      <<<<"inventory">>, <<"applicationsets">>, <<"argocd">>, <<"web", "yaml">>>>,
      <<<<"inventory">>, <<"archive">>, <<"applications">>, <<"argocd">>, <<"web", "yaml">>>>>>
OneObject == <<TwoObjects[1]>>
LiveFiles == <<TwoObjects[1], TwoObjects[2]>>

\* A manifest has the fields of body.
M(k, body) == [id |-> k, body |-> body]

\* Versions of the first object, and one of the second; any of them may
\* be found at any path.
TwoVersions == {M(k1, {"x"}), M(k1, {"x", "y"})}
MixedUp == {M(k1, {"x"}), M(k2, {"x"})}

\* An apply keeps any of the fields the file does not have.
KeepsFields ==
    [d \in Manifests \cup {None} |-> [c \in Manifests |->
        {c} \cup {m \in Manifests : /\ d # None /\ m.id = c.id
                                    /\ c.body \subseteq m.body /\ m.body \subseteq c.body \cup d.body}]]

\* An apply leaves the file: no field is only the object's.
Replaces == [d \in Manifests \cup {None} |-> [c \in Manifests |-> {c}]]

Only(e, n) == [f \in Events |-> IF f = "push" THEN MaxPushes ELSE IF f \in e THEN n ELSE 0]

Calm == Only({}, 0)
Failing == Only({"fault", "cancel"}, 1)
Hostile == Only(Events, 1)
=============================================================================
