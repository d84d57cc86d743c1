--------------------------- MODULE InventoryPaths ---------------------------
(***************************************************************************)
(* The names accord gives one object: its export path, its archive path,   *)
(* its cache key, and the object the sync-operator reads off a path.       *)
(* Everything the two programs agree on without talking to each other.     *)
(*                                                                         *)
(* A string is cut at its dots: a label sequence such as <<"a", "yaml">>   *)
(* is "a.yaml", <<"">> is the empty string and <<"", "">> is ".".  A path  *)
(* is the sequence of its segments.  Paths arrive trimmed and clean, as    *)
(* Git has them.                                                           *)
(***************************************************************************)
EXTENDS Sequences, Naturals, SequencesExt

ArgoKinds == {"Application", "ApplicationSet"}

\* ArgoPluralKind and ArgoKindFromPlural
ArgoPluralKind(kind) == IF kind = "Application" THEN "applications" ELSE "applicationsets"

ArgoKindFromPlural(plural) == IF plural = "applications" THEN "Application" ELSE "ApplicationSet"

PluralKinds == {ArgoPluralKind(kind) : kind \in ArgoKinds}

-----------------------------------------------------------------------------
(* RenderExportPath.                                                       *)

\* defaultExportPathTemplate
DefaultTemplate ==
    <<<<"inventory">>, <<"{{.PluralKind}}">>, <<"{{.Namespace}}">>, <<"{{.Name}}", "yaml">>>>

\* A field exportPathData does not have: the template parses, and fails when
\* it is executed.
UnknownField == "{{.Cluster}}"

\* The path of an error return.
NoPath == <<>>

\* What a token of a template stands for, and a segment of one.
Value(token, k) ==
    CASE token = "{{.PluralKind}}" -> <<ArgoPluralKind(k.kind)>>
      [] token = "{{.Namespace}}"  -> k.namespace
      [] token = "{{.Name}}"       -> k.name
      [] OTHER                     -> <<token>>

Segment(s, k) == FlattenSeq([j \in DOMAIN s |-> Value(s[j], k)])

\* RenderExportPath, for the object k.
RenderExportPath(tmpl, k) ==
    IF \E i \in DOMAIN tmpl : UnknownField \in ToSet(tmpl[i]) THEN NoPath
    ELSE [i \in DOMAIN tmpl |-> Segment(tmpl[i], k)]

\* Faulty variant: the plural kind is left out.
CacheKeyWithoutKind(k) == <<k.namespace, k.name>>

\* ExportObjectCacheKey
ExportObjectCacheKey(k) == <<<<ArgoPluralKind(k.kind)>>, k.namespace, k.name>>

-----------------------------------------------------------------------------
(* ArchiveRelativePath and ParseInventoryExportPath.                       *)

UnderInventory(p) == Len(p) > 1 /\ p[1] = <<"inventory">>

\* Faulty variant: the archive is a namespace of its kind.
ArchiveBesideLive(p) ==
    IF UnderInventory(p) THEN <<p[1], p[2], <<"archive">>>> \o SubSeq(p, Len(p), Len(p)) ELSE NoPath

\* ArchiveRelativePath
ArchiveRelativePath(p) ==
    IF UnderInventory(p) THEN <<p[1], <<"archive">>>> \o Tail(p) ELSE NoPath

HasSuffix(s, ext) == Len(s) > 1 /\ Last(s) = ext

TrimSuffix(s, ext) == IF HasSuffix(s, ext) THEN Front(s) ELSE s

\* resourceNameFromInventoryPath, the name in the subject of an archive commit.
resourceNameFromInventoryPath(p) == TrimSuffix(Last(p), "yaml")

\* ParsedInventoryPath{}, which goes with false.
NotParsed == [kind |-> "", namespace |-> <<"">>, name |-> <<"">>]

\* ParseInventoryExportPath, with ArgoKindFromPlural of what it returns: both
\* extensions are accepted and both are cut off, ".yaml" first.
ParseInventoryExportPath(p) ==
    LET blank == {<<"">>, <<"", "">>}
        Stem == TrimSuffix(TrimSuffix(p[4], "yaml"), "yml")
    IN  IF /\ Len(p) = 4
           /\ p[1] = <<"inventory">>
           /\ p[2] \in {<<plural>> : plural \in PluralKinds}
           /\ HasSuffix(p[4], "yaml") \/ HasSuffix(p[4], "yml")
           /\ Stem \notin blank
           /\ p[3] \notin blank
        THEN [kind |-> ArgoKindFromPlural(p[2][1]), namespace |-> p[3], name |-> Stem]
        ELSE NotParsed
=============================================================================
