------------------------------ MODULE Manifests ------------------------------
(***************************************************************************)
(* internal/inventory/normalize.go and the apply of internal/sync/apply.go *)
(* on the content of an object: what normalization strips, what the hash   *)
(* is taken of, and what a server-side apply leaves in the cluster.        *)
(*                                                                         *)
(* An object is a function from field paths to values; a path that is not  *)
(* in its domain is absent.  A map without entries is a field of its own,  *)
(* with the value EmptyMap, and so is a key whose value is null.           *)
(***************************************************************************)
EXTENDS Sequences, Naturals, Functions

Annotations == <<"metadata", "annotations">>
Annotation(key) == Append(Annotations, key)

\* accord.io/sync-content-hash and lastAppliedAnnotation
SyncContentHash == Annotation("accord.io/sync-content-hash")
LastApplied == Annotation("kubectl.kubernetes.io/last-applied-configuration")

EmptyMap == "{}"
Null == "null"

stripMetadataKeys ==
    {"uid", "resourceVersion", "creationTimestamp", "deletionTimestamp", "generation",
     "managedFields", "selfLink"}

Within(path, field) == Len(path) <= Len(field) /\ SubSeq(field, 1, Len(path)) = path

Drop(o, S) == Restrict(o, DOMAIN o \ S)

\* The fields of o, and those of p that o does not have.
Over(o, p) == [f \in DOMAIN o \cup DOMAIN p |-> IF f \in DOMAIN o THEN o[f] ELSE p[f]]

\* Faulty variant: the sync annotation is part of the material.
NormalizeKeepsSyncHash(o) ==
    Drop(o, {f \in DOMAIN o : \/ Within(<<"status">>, f)
                              \/ \E k \in stripMetadataKeys : Within(<<"metadata", k>>, f)
                              \/ f = LastApplied})

\* normalizeKubernetesObject.  Emptied maps go with their last entry; an
\* empty map of annotations is dropped, a null is no map and stays.
normalizeKubernetesObject(o) ==
    Drop(o, {f \in DOMAIN o :
                \/ Within(<<"status">>, f)
                \/ \E k \in stripMetadataKeys : Within(<<"metadata", k>>, f)
                \/ f \in {LastApplied, SyncContentHash}
                \/ f = Annotations /\ o[f] = EmptyMap})

\* MaterialHashFromNormalizedYAML and the hash of NormalizedYAMLAndMaterialHash:
\* SHA-256 of the canonical JSON, taken to be collision free.
Hash(o) == <<"sha256", normalizeKubernetesObject(o)>>

\* The manifest ApplyInventoryYAML sends: SetAnnotations replaces the map.
Annotated(g) == Over([f \in {SyncContentHash} |-> Hash(g)], Drop(g, {Annotations}))

\* The object after a forced server-side apply of g over what other managers
\* own: the fields of g, and theirs that g does not name.
ServerSideApply(others, g) == Over(Annotated(g), Drop(others, {Annotations}))

\* The annotation check of handle.
LoopBreak(o) == SyncContentHash \in DOMAIN o /\ o[SyncContentHash] = Hash(o)

-----------------------------------------------------------------------------
(* FirstYAMLDocument on the lines of a file.  A line is a separator, blank, *)
(* a comment, or content.                                                  *)

Separator == "---"
Blank == ""
Comment == "#"

IsContent(line) == line \notin {Separator, Blank, Comment}

\* strings.TrimSpace: the text begins with line i.
TextStarts(lines, i) ==
    i \in DOMAIN lines /\ lines[i] # Blank /\ \A j \in 1..i - 1 : lines[j] = Blank

\* Faulty variant: a separator in the first line ends the first document.
FirstDocumentEndsEarly(lines) ==
    {i \in DOMAIN lines :
        \E s \in 1..i : TextStarts(lines, s) /\ \A j \in s..i : lines[j] # Separator}

\* FirstYAMLDocument, as the places of its lines in the file: the text is cut
\* where a newline is followed by a separator, so a separator in the first line
\* cuts nothing.
FirstYAMLDocument(lines) ==
    {i \in DOMAIN lines :
        \E s \in 1..i : TextStarts(lines, s) /\ \A j \in s + 1..i : lines[j] # Separator}
=============================================================================
