------------------------------ MODULE MCAccord ------------------------------
(* Small instances of the two-way sync for TLC.                            *)
EXTENDS Accord

CONSTANTS MaxEdits, MaxDeletes, MaxGitEdits, MaxFaults, MaxRestarts

app == [kind |-> "Application", namespace |-> <<"argocd">>, name |-> <<"web">>]

OneKey == {app}

\* Its live file and its archived one.
Paths ==
    <<<<<<"inventory">>, <<"applications">>, <<"argocd">>, <<"web", "yaml">>>>,
      <<<<"inventory">>, <<"archive">>, <<"applications">>, <<"argocd">>, <<"web", "yaml">>>>>>

KindOfKey == [k \in Keys |-> k.kind]

\* A manifest with the fields of body.
M(body) == [id |-> app, body |-> body]

TwoVersions == {M({"x"}), M({"x", "y"})}

\* An apply keeps any of the fields the file does not have.
KeepsFields ==
    [d \in Contents \cup {None} |-> [c \in Contents |->
        {c} \cup {m \in Contents : /\ d # None
                                   /\ c.body \subseteq m.body /\ m.body \subseteq c.body \cup d.body}]]

\* An apply leaves the file: no field is only the object's.
Replaces == [d \in Contents \cup {None} |-> [c \in Contents |-> {c}]]

Bounds ==
    [e \in Events |->
        CASE e = "edit"    -> MaxEdits
          [] e = "delete"  -> MaxDeletes
          [] e = "fault"   -> MaxFaults
          [] e = "restart" -> MaxRestarts
          [] e = "foreign" -> MaxGitEdits]
=============================================================================
