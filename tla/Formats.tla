------------------------------- MODULE Formats -------------------------------
(***************************************************************************)
(* The pure functions the two programs agree through, each against a       *)
(* reference definition, over every input of the constants.  A behaviour   *)
(* picks one input and stops.                                              *)
(***************************************************************************)
EXTENDS InventoryPaths, Manifests, CommitMessage, FiniteSets

CONSTANTS
    Labels,         \* what the names of objects consist of, cut at their dots
    Objects,        \* objects: kind, namespace and name
    Templates,      \* values of EXPORT_PATH_TEMPLATE under inventory/
    GitManifests,   \* objects as a file in Git may hold them
    OtherFields,    \* what others have put on the object
    FileLines,      \* the lines a file is made of
    MaxLines,       \* bound: lines of a file
    MaxPaths        \* bound: paths of a batch

\* A name of Kubernetes, cut at its dots: neither empty nor ".".
ObjectNames == Seq(Labels) \ {<<>>, <<"">>, <<"", "">>}

ObjectKeys == [kind: ArgoKinds, namespace: ObjectNames, name: ObjectNames]

ASSUME ObjectsAssumption == \A k \in Objects : k \in ObjectKeys
ASSUME TemplatesAssumption == \A t \in Templates : Len(t) \in Nat /\ DOMAIN t = 1..Len(t)

VARIABLE input

Unpicked == [of |-> "nothing"]

Init == input = Unpicked

PickObject ==
    \E k \in Objects, t \in Templates :
        input' = [of |-> "object", object |-> k, template |-> t]

PickPair ==
    \E k, l \in Objects :
        k # l /\ input' = [of |-> "pair", one |-> k, other |-> l]

PickManifest ==
    \E g \in GitManifests, others \in OtherFields :
        input' = [of |-> "manifest", manifest |-> g, others |-> others]

PickFile ==
    \E n \in 0..MaxLines : \E lines \in [1..n -> FileLines] :
        input' = [of |-> "file", lines |-> lines]

PickBatch ==
    \E n \in 1..MaxPaths : \E kind \in [1..n -> {"write", "archive"}] :
        input' = [of |-> "batch", kind |-> kind]

Next ==
    /\ input = Unpicked
    /\ PickObject \/ PickPair \/ PickManifest \/ PickFile \/ PickBatch

Spec == Init /\ [][Next]_input

-----------------------------------------------------------------------------
(* Paths.                                                                  *)

\* The path the inventory-controller writes under the default template names,
\* for the sync-operator, exactly the object it was rendered for, unless the
\* name ends in ".yml", which ParseInventoryExportPath cuts off as well.  The
\* archive path of an object names no object under any template, so the commit
\* that archives a file never applies it again.
PathsNameObjects ==
    input.of = "object" =>
        LET k == input.object
            p == RenderExportPath(DefaultTemplate, k)
            archive == ArchiveRelativePath(RenderExportPath(input.template, k))
        IN  /\ ~HasSuffix(k.name, "yml") => ParseInventoryExportPath(p) = k
            /\ ParseInventoryExportPath(archive) = NotParsed
            /\ resourceNameFromInventoryPath(p) = k.name

\* Two objects never share a file, an archived file or a cache entry, nor does
\* one's archived file take the place of the other's live one: an export or an
\* archive of one object leaves every other alone.
ObjectsKeptApart ==
    input.of = "pair" =>
        LET Live(k) == RenderExportPath(DefaultTemplate, k)
            Names(k) == {Live(k), ArchiveRelativePath(Live(k))}
        IN  /\ Names(input.one) \cap Names(input.other) = {}
            /\ Cardinality(Names(input.one)) = 2
            /\ ExportObjectCacheKey(input.one) # ExportObjectCacheKey(input.other)

-----------------------------------------------------------------------------
(* Content.                                                                *)

\* The echo of a Git edit dies out after at most one export: whatever other
\* managers own, either the reconciler recognises the applied object by its
\* annotation, or it exports the object once, and the apply of that export is
\* recognised.  The export declares everything the cluster has.
EchoSettles ==
    input.of = "manifest" =>
        LET live == ServerSideApply(input.others, input.manifest)
            exported == normalizeKubernetesObject(live)
        IN  \/ LoopBreak(live)
            \/ LoopBreak(ServerSideApply(input.others, exported))

\* Of a file with several documents at most the first that has content is
\* applied, whole and with nothing of the next; it is missed exactly when a
\* separator that is not the first line of the file comes before it.
FirstDocumentOnly ==
    input.of = "file" =>
        LET lines == input.lines
            content == {i \in DOMAIN lines : IsContent(lines[i])}
            start == CHOOSE i \in content : \A j \in content : i <= j
            first == {i \in content : \A j \in start..i : lines[j] # Separator}
            missed == \E i \in 1..start - 1 :
                         lines[i] = Separator /\ \E j \in 1..i - 1 : lines[j] # Blank
            found == content \cap FirstYAMLDocument(lines)
        IN  found = IF content = {} \/ missed THEN {} ELSE first

-----------------------------------------------------------------------------
(* Commit messages.                                                        *)

\* A commit message accounts for every path of its batch, at ten, at eleven and
\* for a single archived path too: the paths of a kind a body lists are at most
\* ten and sort before the paths it leaves out, these are as many as its last line says,
\* the subject counts both kinds, and the path it names is the one archived.  The
\* limit is of paths and for each kind: with the line that counts the rest a body
\* lists the files in up to 22 lines, where git-policy section 2 allows ten.
MessageAccounts ==
    input.of = "batch" =>
        LET Paths(k) == {p \in DOMAIN input.kind : input.kind[p] = k}
            Accounts(body, S) ==
                /\ Cardinality(body.listed) <= MaxListed
                /\ Cardinality(body.listed) + body.more = Cardinality(S)
                /\ \A p \in body.listed, q \in S \ body.listed : p < q
            message == commitMessageForBatch(input.kind)
        IN  /\ Accounts(message.write, Paths("write"))
            /\ Accounts(message.archive, Paths("archive"))
            /\ message.synced + message.archived = Cardinality(DOMAIN input.kind)
            /\ message.form = "sync" <=> Paths("archive") = {}
            /\ message.named # {} => message.named = DOMAIN input.kind /\ message.archived = 1
=============================================================================
