----------------------------- MODULE MCFormats -----------------------------
(* Inputs of Formats.                                                      *)
EXTENDS Formats, TLC

Labels1 == {"ns", "archive", "applications", "a", "b", "yaml", "yml"}

\* Names with and without dots, and the words the paths are made of.
Objects1 ==
    [kind: ArgoKinds, namespace: {<<"ns">>, <<"archive">>, <<"applications">>},
     name: {<<"a">>, <<"a", "b">>, <<"a", "yaml">>, <<"a", "yml">>, <<"yml">>, <<"archive">>}]

Templates1 ==
    {DefaultTemplate,
     <<<<"inventory">>, <<"{{.Namespace}}">>, <<"{{.Name}}", "yaml">>>>,
     <<<<"inventory">>, <<"{{.PluralKind}}">>, <<"{{.Name}}", "yml">>>>,
     <<<<"inventory">>, <<"{{.Cluster}}">>, <<"{{.Name}}", "yaml">>>>}

\* Every way to give the fields of f a value of its own set, or none.
Fields(f) == UNION {[D -> UNION {f[x] : x \in DOMAIN f}] : D \in SUBSET DOMAIN f}
Typed(f) == {o \in Fields(f) : \A x \in DOMAIN o : o[x] \in f[x]}

Note == Annotation("note")
Spec1 == <<"spec", "source">>
Finalizers == <<"metadata", "finalizers">>
StatusField == <<"status", "health">>
ResourceVersion == <<"metadata", "resourceVersion">>
GracePeriod == <<"metadata", "deletionGracePeriodSeconds">>
Operation == <<"operation", "sync">>

\* A map of annotations is empty or has entries.
WellFormed(o) == Annotations \in DOMAIN o => \A f \in DOMAIN o : f # Annotations => ~Within(Annotations, f)

GitManifests1 ==
    {o \in Typed(Spec1 :> {"x", "y"} @@ Annotations :> {EmptyMap, Null} @@ Note :> {"x"}
                 @@ SyncContentHash :> {"stale"} @@ LastApplied :> {"x"} @@ StatusField :> {"x"}) :
        WellFormed(o)}

\* What others write: people, and the system, which writes more than is stripped.
OtherFields1 ==
    Typed(Spec1 :> {"x"} @@ Finalizers :> {"x"} @@ Note :> {"y"} @@ StatusField :> {"y"}
          @@ LastApplied :> {"y"} @@ ResourceVersion :> {"7"} @@ GracePeriod :> {"30"}
          @@ Operation :> {"y"})

FileLines1 == {Separator, Blank, Comment, "x", "y"}
=============================================================================
