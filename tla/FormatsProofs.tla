--------------------------- MODULE FormatsProofs ---------------------------
(***************************************************************************)
(* Proofs about the formats the two programs agree through, for every      *)
(* object, template and manifest.                                          *)
(***************************************************************************)
EXTENDS Formats, SequenceTheorems, FiniteSetTheorems, NaturalsInduction, TLAPS

-----------------------------------------------------------------------------
(* Paths.                                                                  *)

\* FlattenSeq on one sequence.
LEMMA FlattenOne ==
  ASSUME NEW s, Len(s) = 1
  PROVE  FlattenSeq(s) = s[1]
<1> DEFINE f == [i \in 1..1 |-> s[1]]
           def(g) == g = [i \in 1..Len(s) |-> IF i = 1 THEN s[i] ELSE g[i - 1] \o s[i]]
           flatten == CHOOSE g : def(g)
<1>1. def(f)
  OBVIOUS
<1>2. def(flatten)
  BY <1>1
<1>3. flatten[1] = s[1]
  BY <1>2
<1> QED BY <1>3 DEF FlattenSeq

\* FlattenSeq on two sequences.
LEMMA FlattenTwo ==
  ASSUME NEW s, Len(s) = 2
  PROVE  FlattenSeq(s) = s[1] \o s[2]
<1> DEFINE f == [i \in 1..2 |-> IF i = 1 THEN s[1] ELSE s[1] \o s[2]]
           def(g) == g = [i \in 1..Len(s) |-> IF i = 1 THEN s[i] ELSE g[i - 1] \o s[i]]
           flatten == CHOOSE g : def(g)
<1>1. def(f)
  OBVIOUS
<1>2. def(flatten)
  BY <1>1
<1>3. FlattenSeq(s) = flatten[2]
  BY DEF FlattenSeq
<1> HIDE DEF flatten
<1>4. flatten = [i \in 1..2 |-> IF i = 1 THEN s[i] ELSE flatten[i - 1] \o s[i]]
  BY <1>2
<1>5. flatten[1] = s[1]
  BY <1>4
<1>6. flatten[2] = flatten[2 - 1] \o s[2]
  BY <1>4
<1>7. 2 - 1 = 1
  OBVIOUS
<1>8. flatten[2 - 1] = s[1]
  BY <1>5, <1>7, Zenon
<1> QED BY <1>3, <1>6, <1>8, Zenon

\* RenderExportPath with the default template.
LEMMA DefaultPath ==
  ASSUME NEW k \in ObjectKeys
  PROVE  RenderExportPath(DefaultTemplate, k) =
            <<<<"inventory">>, <<ArgoPluralKind(k.kind)>>, k.namespace, k.name \o <<"yaml">>>>
<1> DEFINE tmpl == DefaultTemplate
<1>1. /\ DOMAIN tmpl = 1..4
      /\ tmpl[1] = <<"inventory">> /\ tmpl[2] = <<"{{.PluralKind}}">>
      /\ tmpl[3] = <<"{{.Namespace}}">> /\ tmpl[4] = <<"{{.Name}}", "yaml">>
  <2> DEFINE a == <<"inventory">>
             b == <<"{{.PluralKind}}">>
             c == <<"{{.Namespace}}">>
             d == <<"{{.Name}}", "yaml">>
  <2>1. tmpl = <<a, b, c, d>>
    BY DEF DefaultTemplate
  <2> HIDE DEF a, b, c, d, tmpl
  <2>2. DOMAIN tmpl = 1..4 /\ tmpl[1] = a /\ tmpl[2] = b /\ tmpl[3] = c /\ tmpl[4] = d
    BY <2>1
  <2> QED BY <2>2 DEF a, b, c, d
<1>2. \A i \in DOMAIN tmpl : UnknownField \notin ToSet(tmpl[i])
  <2>1. \A x : ToSet(<<x>>) = {x}
    BY DEF ToSet
  <2>2. \A x, y : ToSet(<<x, y>>) = {x, y}
    BY DEF ToSet
  <2> HIDE DEF tmpl
  <2>3. /\ ToSet(tmpl[1]) = {"inventory"} /\ ToSet(tmpl[2]) = {"{{.PluralKind}}"}
        /\ ToSet(tmpl[3]) = {"{{.Namespace}}"} /\ ToSet(tmpl[4]) = {"{{.Name}}", "yaml"}
    BY <1>1, <2>1, <2>2, Zenon
  <2>4. \A i \in 1..4 : i = 1 \/ i = 2 \/ i = 3 \/ i = 4
    OBVIOUS
  <2>5. \A i \in 1..4 : ToSet(tmpl[i]) \in {{"inventory"}, {"{{.PluralKind}}"}, {"{{.Namespace}}"}, {"{{.Name}}", "yaml"}}
    BY <2>3, <2>4, Zenon
  <2>6. UnknownField \notin {"inventory", "{{.PluralKind}}", "{{.Namespace}}", "{{.Name}}", "yaml"}
    BY DEF UnknownField
  <2> QED BY <1>1, <2>5, <2>6, Zenon
<1>3. ASSUME NEW token PROVE Segment(<<token>>, k) = Value(token, k)
  <2> DEFINE s == [j \in DOMAIN <<token>> |-> Value(<<token>>[j], k)]
  <2>1. Len(s) = 1 /\ s[1] = Value(token, k)
    OBVIOUS
  <2> HIDE DEF s
  <2>2. FlattenSeq(s) = Value(token, k)
    BY <2>1, FlattenOne
  <2> QED BY <2>2 DEF Segment, s
<1>4. Segment(<<"{{.Name}}", "yaml">>, k) = k.name \o <<"yaml">>
  <2> DEFINE t == <<"{{.Name}}", "yaml">>
             s == [j \in DOMAIN t |-> Value(t[j], k)]
  <2>1. DOMAIN t = 1..2 /\ t[1] = "{{.Name}}" /\ t[2] = "yaml"
    OBVIOUS
  <2> HIDE DEF t
  <2>2. s = [j \in 1..2 |-> Value(t[j], k)]
    BY <2>1
  <2>3. Len(s) = 2 /\ s[1] = Value("{{.Name}}", k) /\ s[2] = Value("yaml", k)
    <3>1. Len(s) = 2
      BY <2>2
    <3>2. s[1] = Value(t[1], k) /\ s[2] = Value(t[2], k)
      BY <2>2
    <3> QED BY <2>1, <3>1, <3>2, Zenon
  <2> HIDE DEF s
  <2>4. FlattenSeq(s) = k.name \o <<"yaml">>
    BY <2>3, FlattenTwo DEF Value
  <2> QED BY <2>4 DEF Segment, s, t
<1>5. /\ Value("inventory", k) = <<"inventory">>
      /\ Value("{{.PluralKind}}", k) = <<ArgoPluralKind(k.kind)>>
      /\ Value("{{.Namespace}}", k) = k.namespace
  BY DEF Value
<1> HIDE DEF tmpl
<1>6. RenderExportPath(tmpl, k) = [i \in 1..4 |-> Segment(tmpl[i], k)]
  BY <1>1, <1>2 DEF RenderExportPath
<1>7. RenderExportPath(tmpl, k) = <<Segment(tmpl[1], k), Segment(tmpl[2], k), Segment(tmpl[3], k), Segment(tmpl[4], k)>>
  BY <1>6
<1> QED BY <1>1, <1>3, <1>4, <1>5, <1>7 DEF tmpl

\* A name with its extension, and without.
LEMMA Extension ==
  ASSUME NEW n \in ObjectNames
  PROVE  /\ HasSuffix(n \o <<"yaml">>, "yaml")
         /\ TrimSuffix(n \o <<"yaml">>, "yaml") = n
<1>1. n \in Seq(Labels) /\ n # <<>>
  BY DEF ObjectNames
<1>2. n \in Seq(Labels \cup {"yaml"}) /\ Len(n) \in Nat \ {0}
  BY <1>1
<1> DEFINE s == n \o <<"yaml">>
<1>3. /\ s \in Seq(Labels \cup {"yaml"}) /\ Len(s) = Len(n) + 1 /\ s[Len(s)] = "yaml"
      /\ \A i \in 1..Len(n) : s[i] = n[i]
  <2>1. <<"yaml">> \in Seq(Labels \cup {"yaml"}) /\ Len(<<"yaml">>) = 1 /\ <<"yaml">>[1] = "yaml"
    OBVIOUS
  <2> QED BY <1>2, <2>1
<1> HIDE DEF s
<1>4. Front(s) = n
  <2>1. Front(s) = [i \in 1..Len(n) |-> s[i]]
    BY <1>2, <1>3 DEF Front
  <2> QED BY <1>2, <1>3, <2>1
<1> QED BY <1>2, <1>3, <1>4 DEF HasSuffix, TrimSuffix, Last, s

\* A kind and its plural determine each other.
LEMMA Plurals ==
  ASSUME NEW kind \in ArgoKinds
  PROVE  ArgoPluralKind(kind) \in PluralKinds /\ ArgoKindFromPlural(ArgoPluralKind(kind)) = kind
  BY DEF ArgoKinds, PluralKinds, ArgoPluralKind, ArgoKindFromPlural

\* The sync-operator reads off the path of an object that very object.
LEMMA PathNamesObject ==
  ASSUME NEW k \in ObjectKeys
  PROVE  LET p == RenderExportPath(DefaultTemplate, k) IN
         /\ ~HasSuffix(k.name, "yml") => ParseInventoryExportPath(p) = k
         /\ resourceNameFromInventoryPath(p) = k.name
<1> DEFINE p == <<<<"inventory">>, <<ArgoPluralKind(k.kind)>>, k.namespace, k.name \o <<"yaml">>>>
<1>1. RenderExportPath(DefaultTemplate, k) = p
  BY DefaultPath
<1>2. /\ Len(p) = 4 /\ p[1] = <<"inventory">> /\ p[2] = <<ArgoPluralKind(k.kind)>>
      /\ p[3] = k.namespace /\ p[4] = k.name \o <<"yaml">>
  OBVIOUS
<1>3. k.kind \in ArgoKinds /\ k.namespace \in ObjectNames /\ k.name \in ObjectNames
  BY DEF ObjectKeys
<1>4. HasSuffix(p[4], "yaml") /\ TrimSuffix(p[4], "yaml") = k.name
  BY <1>2, <1>3, Extension
<1> HIDE DEF p
<1>5. resourceNameFromInventoryPath(p) = k.name
  BY <1>2, <1>4 DEF resourceNameFromInventoryPath, Last
<1>6. ASSUME ~HasSuffix(k.name, "yml") PROVE ParseInventoryExportPath(p) = k
  <2>1. TrimSuffix(TrimSuffix(p[4], "yaml"), "yml") = k.name
    BY <1>4, <1>6 DEF TrimSuffix
  <2>2. p[2] \in {<<plural>> : plural \in PluralKinds} /\ ArgoKindFromPlural(p[2][1]) = k.kind
    BY <1>2, <1>3, Plurals
  <2>3. k.name \notin {<<"">>, <<"", "">>} /\ p[3] \notin {<<"">>, <<"", "">>}
    BY <1>2, <1>3 DEF ObjectNames
  <2>4. ParseInventoryExportPath(p) = [kind |-> k.kind, namespace |-> k.namespace, name |-> k.name]
    BY <1>2, <1>4, <2>1, <2>2, <2>3 DEF ParseInventoryExportPath
  <2> QED BY <2>4 DEF ObjectKeys
<1> QED BY <1>1, <1>5, <1>6

\* An archive path has a segment more than the path it is made of, and names no
\* object.
LEMMA ArchivedPath ==
  ASSUME NEW n \in Nat, NEW p, p = [i \in 1..n |-> p[i]], UnderInventory(p)
  PROVE  LET q == ArchiveRelativePath(p) IN
         /\ Len(q) = n + 1 /\ q[1] = p[1] /\ q[2] = <<"archive">>
         /\ \A i \in 3..n + 1 : q[i] = p[i - 1]
<1> DEFINE S == {p[i] : i \in 1..n} \cup {<<"archive">>}
           q == ArchiveRelativePath(p)
<1>1. Len(p) = n /\ n > 1 /\ p \in Seq(S)
  BY DEF UnderInventory
<1>2. Tail(p) \in Seq(S) /\ Len(Tail(p)) = n - 1 /\ \A i \in 1..n - 1 : Tail(p)[i] = p[i + 1]
  BY <1>1
<1> DEFINE h == <<p[1], <<"archive">>>>
<1>3. h \in Seq(S) /\ Len(h) = 2 /\ h[1] = p[1] /\ h[2] = <<"archive">>
  BY <1>1
<1>4. q = h \o Tail(p)
  BY DEF ArchiveRelativePath
<1> DEFINE t == Tail(p)
<1> HIDE DEF S, q, h, t
<1>5. t \in Seq(S) /\ Len(t) = n - 1 /\ \A i \in 1..n - 1 : t[i] = p[i + 1]
  BY <1>2 DEF t
<1>6. Len(q) = Len(h) + Len(t) /\ \A i \in 1..Len(h) + Len(t) : q[i] = IF i <= Len(h) THEN h[i] ELSE t[i - Len(h)]
  BY <1>3, <1>4, <1>5, ConcatProperties DEF t
<1>7. Len(q) = n + 1 /\ q[1] = h[1] /\ q[2] = h[2]
  BY <1>1, <1>3, <1>5, <1>6
<1>8. ASSUME NEW i \in 3..n + 1 PROVE q[i] = p[i - 1]
  <2>1. q[i] = t[i - 2]
    BY <1>1, <1>3, <1>5, <1>6
  <2>2. i - 2 \in 1..n - 1 /\ (i - 2) + 1 = i - 1
    BY <1>1
  <2>3. t[i - 2] = p[(i - 2) + 1]
    BY <1>5, <2>2, Zenon
  <2> QED BY <2>1, <2>2, <2>3, Zenon
<1> QED BY <1>3, <1>7, <1>8 DEF q

\* The archive path of a rendered path is not parsed.
LEMMA ArchiveNamesNothing ==
  ASSUME NEW k, NEW t, Len(t) \in Nat, DOMAIN t = 1..Len(t)
  PROVE  ParseInventoryExportPath(ArchiveRelativePath(RenderExportPath(t, k))) = NotParsed
<1> DEFINE p == RenderExportPath(t, k)
           q == ArchiveRelativePath(p)
<1>1. CASE UnderInventory(p)
  <2>1. \E n \in Nat : p = [i \in 1..n |-> p[i]]
    <3>1. CASE p = NoPath
      BY <3>1 DEF NoPath
    <3>2. CASE p = [i \in DOMAIN t |-> Segment(t[i], k)]
      <4> HIDE DEF p
      <4> QED BY <3>2
    <3> QED BY <3>1, <3>2 DEF RenderExportPath
  <2> HIDE DEF p
  <2>2. q[2] = <<"archive">>
    BY <1>1, <2>1, ArchivedPath
  <2>3. q[2] \notin {<<plural>> : plural \in PluralKinds}
    BY <2>2 DEF PluralKinds, ArgoKinds, ArgoPluralKind
  <2> HIDE DEF q
  <2>4. ParseInventoryExportPath(q) = NotParsed
    BY <2>3 DEF ParseInventoryExportPath
  <2> QED BY <2>4 DEF q, p
<1>2. CASE ~UnderInventory(p)
  <2>1. q = <<>> 
    BY <1>2 DEF ArchiveRelativePath, NoPath
  <2>2. Len(q) # 4
    BY <2>1
  <2> HIDE DEF q
  <2>3. ParseInventoryExportPath(q) = NotParsed
    BY <2>2 DEF ParseInventoryExportPath
  <2> QED BY <2>3 DEF q
<1> QED BY <1>1, <1>2

-----------------------------------------------------------------------------
(* The inputs a behaviour picks are those of the constants.                *)

Picked ==
    /\ input.of = "object" => input.object \in Objects /\ input.template \in Templates
    /\ input.of = "pair" => input.one \in Objects /\ input.other \in Objects /\ input.one # input.other
    /\ input.of = "file" => \E n \in Nat : DOMAIN input.lines = 1..n
    /\ input.of = "batch" => \E n \in Nat \ {0} : input.kind \in [1..n -> {"write", "archive"}]

\* The picked input stays one of the constants.
LEMMA InputsPicked == Spec => []Picked
<1>1. Init => Picked
  BY DEF Init, Unpicked, Picked
<1>2. Picked /\ [Next]_input => Picked'
  <2> SUFFICES ASSUME Picked, [Next]_input PROVE Picked'
    OBVIOUS
  <2>1. CASE PickObject
    BY <2>1 DEF PickObject, Picked
  <2>2. CASE PickPair
    BY <2>2 DEF PickPair, Picked
  <2>3. CASE PickManifest
    BY <2>3 DEF PickManifest, Picked
  <2>4. CASE PickFile
    BY <2>4 DEF PickFile, Picked
  <2>5. CASE PickBatch
    BY <2>5 DEF PickBatch, Picked
  <2>6. CASE UNCHANGED input
    BY <2>6 DEF Picked
  <2> QED BY <2>1, <2>2, <2>3, <2>4, <2>5, <2>6 DEF Next
<1> QED BY <1>1, <1>2, PTL DEF Spec

\* The path an object is exported under names that object for the sync-operator,
\* and its archive path names none, whatever the names of Kubernetes are and for
\* every template (RenderExportPath, ParseInventoryExportPath).
THEOREM PathsAgree == Spec => []PathsNameObjects
<1>1. Picked => PathsNameObjects
  <2> SUFFICES ASSUME Picked, input.of = "object" PROVE PathsNameObjects
    BY DEF PathsNameObjects
  <2>1. input.object \in ObjectKeys
    BY ObjectsAssumption DEF Picked
  <2>2. Len(input.template) \in Nat /\ DOMAIN input.template = 1..Len(input.template)
    BY TemplatesAssumption DEF Picked
  <2>3. ParseInventoryExportPath(ArchiveRelativePath(RenderExportPath(input.template, input.object))) = NotParsed
    BY <2>2, ArchiveNamesNothing
  <2> QED BY <2>1, <2>3, PathNamesObject DEF PathsNameObjects
<1> QED BY <1>1, InputsPicked, PTL

\* The live path of an object and its archive path, segment by segment.
LEMMA DefaultPaths ==
  ASSUME NEW k \in ObjectKeys
  PROVE  LET p == RenderExportPath(DefaultTemplate, k)
             a == ArchiveRelativePath(p)
         IN  /\ Len(p) = 4 /\ p[2] = <<ArgoPluralKind(k.kind)>> /\ p[3] = k.namespace /\ p[4] = k.name \o <<"yaml">>
             /\ Len(a) = 5 /\ a[3] = p[2] /\ a[4] = p[3] /\ a[5] = p[4]
<1> DEFINE p == RenderExportPath(DefaultTemplate, k)
           a == ArchiveRelativePath(p)
<1>1. p = <<<<"inventory">>, <<ArgoPluralKind(k.kind)>>, k.namespace, k.name \o <<"yaml">>>>
  BY DefaultPath
<1>2. Len(p) = 4 /\ p[1] = <<"inventory">> /\ p = [i \in 1..4 |-> p[i]]
  <2> HIDE DEF p
  <2> QED BY <1>1
<1>3. p[2] = <<ArgoPluralKind(k.kind)>> /\ p[3] = k.namespace /\ p[4] = k.name \o <<"yaml">>
  <2> HIDE DEF p
  <2> QED BY <1>1
<1> HIDE DEF p
<1>4. UnderInventory(p)
  BY <1>2 DEF UnderInventory
<1>5. Len(a) = 4 + 1 /\ \A i \in 3..4 + 1 : a[i] = p[i - 1]
  BY ONLY <1>2, <1>4, ArchivedPath, 4 \in Nat, Zenon
<1> HIDE DEF a
<1>6. /\ Len(a) = 5 /\ 3 \in 3..4 + 1 /\ 4 \in 3..4 + 1 /\ 5 \in 3..4 + 1
      /\ 3 - 1 = 2 /\ 4 - 1 = 3 /\ 5 - 1 = 4
  BY <1>5
<1>7. a[3] = p[3 - 1] /\ a[4] = p[4 - 1] /\ a[5] = p[5 - 1]
  BY <1>5, <1>6, Zenon
<1>8. a[3] = p[2] /\ a[4] = p[3] /\ a[5] = p[4]
  BY <1>6, <1>7, Zenon
<1>9. Len(p) = 4 /\ Len(a) = 5
  BY <1>2, <1>6
<1> QED BY <1>3, <1>8, <1>9 DEF p, a

\* Two objects under the default template: their files, their archived files and
\* their cache entries are different.
LEMMA Apart ==
  ASSUME NEW k \in ObjectKeys, NEW l \in ObjectKeys,
         NEW p, p = RenderExportPath(DefaultTemplate, k),
         NEW q, q = RenderExportPath(DefaultTemplate, l)
  PROVE  /\ p # ArchiveRelativePath(q)
         /\ p = q \/ ArchiveRelativePath(p) = ArchiveRelativePath(q)
                  \/ ExportObjectCacheKey(k) = ExportObjectCacheKey(l) => k = l
<1>1. /\ k = [kind |-> k.kind, namespace |-> k.namespace, name |-> k.name]
      /\ l = [kind |-> l.kind, namespace |-> l.namespace, name |-> l.name]
      /\ k.kind \in ArgoKinds /\ k.name \in ObjectNames
      /\ l.kind \in ArgoKinds /\ l.name \in ObjectNames
  BY DEF ObjectKeys
<1> DEFINE ap == ArchiveRelativePath(p)
           aq == ArchiveRelativePath(q)
<1>2. /\ Len(p) = 4 /\ p[2] = <<ArgoPluralKind(k.kind)>> /\ p[3] = k.namespace /\ p[4] = k.name \o <<"yaml">>
      /\ Len(ap) = 5 /\ ap[3] = p[2] /\ ap[4] = p[3] /\ ap[5] = p[4]
  BY DefaultPaths, Zenon
<1>3. /\ Len(q) = 4 /\ q[2] = <<ArgoPluralKind(l.kind)>> /\ q[3] = l.namespace /\ q[4] = l.name \o <<"yaml">>
      /\ Len(aq) = 5 /\ aq[3] = q[2] /\ aq[4] = q[3] /\ aq[5] = q[4]
  BY DefaultPaths, Zenon
<1> HIDE DEF ap, aq
<1>4. Len(p) # Len(aq)
  BY <1>2, <1>3
<1>5. p # aq
  BY <1>4, Zenon
<1>6. ASSUME p = q PROVE p[2] = q[2] /\ p[3] = q[3] /\ p[4] = q[4]
  BY <1>6, Zenon
<1>7. ASSUME ap = aq PROVE p[2] = q[2] /\ p[3] = q[3] /\ p[4] = q[4]
  BY <1>2, <1>3, <1>7, Zenon
<1>8. ASSUME p[2] = q[2], p[3] = q[3], p[4] = q[4] PROVE k = l
  <2>1. k.name = l.name
    BY <1>1, <1>2, <1>3, <1>8, Extension, Zenon
  <2>2. ArgoPluralKind(k.kind) = ArgoPluralKind(l.kind)
    <3>1. <<ArgoPluralKind(k.kind)>> = <<ArgoPluralKind(l.kind)>>
      BY <1>2, <1>3, <1>8, Zenon
    <3> QED BY ONLY <3>1
  <2>3. k.kind = l.kind
    BY <1>1, <2>2, Plurals
  <2> QED BY <1>1, <1>2, <1>3, <1>8, <2>1, <2>3, Zenon
<1>9. ASSUME ExportObjectCacheKey(k) = ExportObjectCacheKey(l) PROVE k = l
  <2>1. k.name = l.name /\ k.namespace = l.namespace /\ ArgoPluralKind(k.kind) = ArgoPluralKind(l.kind)
    BY <1>9 DEF ExportObjectCacheKey
  <2>2. k.kind = l.kind
    BY <1>1, <2>1, Plurals
  <2> QED BY <1>1, <2>1, <2>2, Zenon
<1> QED BY <1>5, <1>6, <1>7, <1>8, <1>9, Zenon DEF ap, aq

\* No two objects of Kubernetes meet in a file, in an archived file or in a cache
\* entry, however they are called (RenderExportPath, ArchiveRelativePath and
\* ExportObjectCacheKey).
THEOREM ObjectsApart == Spec => []ObjectsKeptApart
<1>1. Picked => ObjectsKeptApart
  <2> SUFFICES ASSUME Picked, input.of = "pair" PROVE ObjectsKeptApart
    BY DEF ObjectsKeptApart
  <2> DEFINE k == input.one
             l == input.other
             p == RenderExportPath(DefaultTemplate, k)
             q == RenderExportPath(DefaultTemplate, l)
  <2>1. k \in ObjectKeys /\ l \in ObjectKeys /\ k # l
    BY ObjectsAssumption DEF Picked
  <2>2. p # ArchiveRelativePath(q) /\ q # ArchiveRelativePath(p) /\ p # ArchiveRelativePath(p)
    BY <2>1, Apart
  <2>3. /\ p # q /\ ArchiveRelativePath(p) # ArchiveRelativePath(q)
        /\ ExportObjectCacheKey(k) # ExportObjectCacheKey(l)
    BY <2>1, Apart
  <2>4. Cardinality({p, ArchiveRelativePath(p)}) = 2
    <3> DEFINE a == ArchiveRelativePath(p)
    <3> HIDE DEF p, a
    <3>1. IsFiniteSet({a}) /\ Cardinality({a}) = 1
      BY FS_Singleton
    <3>2. Cardinality({a} \cup {p}) = 2
      BY <2>2, <3>1, FS_AddElement DEF a
    <3>3. {a} \cup {p} = {p, a}
      OBVIOUS
    <3> QED BY <3>2, <3>3 DEF a
  <2>5. {p, ArchiveRelativePath(p)} \cap {q, ArchiveRelativePath(q)} = {}
    BY <2>2, <2>3, Zenon
  <2> HIDE DEF p, q, k, l
  <2> QED BY <2>3, <2>4, <2>5 DEF ObjectsKeptApart, p, q, k, l
<1> QED BY <1>1, InputsPicked, PTL

-----------------------------------------------------------------------------
(* Content.                                                                *)

\* What normalization takes off every object.
Stripped(f) ==
    \/ Within(<<"status">>, f)
    \/ \E k \in stripMetadataKeys : Within(<<"metadata", k>>, f)
    \/ f \in {LastApplied, SyncContentHash}

\* What normalization leaves of an object: its domain and its values.
LEMMA Normalized ==
  ASSUME NEW o
  PROVE  normalizeKubernetesObject(o) =
           [f \in {f \in DOMAIN o : ~Stripped(f) /\ ~(f = Annotations /\ o[f] = EmptyMap)} |-> o[f]]
<1> DEFINE S == {f \in DOMAIN o : \/ Within(<<"status">>, f)
                                  \/ \E k \in stripMetadataKeys : Within(<<"metadata", k>>, f)
                                  \/ f \in {LastApplied, SyncContentHash}
                                  \/ f = Annotations /\ o[f] = EmptyMap}
           T == {f \in DOMAIN o : ~Stripped(f) /\ ~(f = Annotations /\ o[f] = EmptyMap)}
<1>1. DOMAIN o \ S = T
  BY Zenon DEF Stripped
<1>2. normalizeKubernetesObject(o) = [f \in DOMAIN o \ S |-> o[f]]
  BY Zenon DEF normalizeKubernetesObject, Drop, Restrict
<1> HIDE DEF S, T
<1>3. normalizeKubernetesObject(o) = [f \in T |-> o[f]]
  BY <1>1, <1>2, Zenon
<1> QED BY <1>3 DEF T

\* What an object becomes in the cluster when g is applied.
LEMMA AppliedFields ==
  ASSUME NEW others, NEW g
  PROVE  LET live == ServerSideApply(others, g) IN
         /\ DOMAIN live = {SyncContentHash} \cup (DOMAIN g \ {Annotations}) \cup (DOMAIN others \ {Annotations})
         /\ live[SyncContentHash] = Hash(g)
         /\ \A f \in DOMAIN g : f \notin {SyncContentHash, Annotations} => live[f] = g[f]
<1> DEFINE h == Hash(g)
           A == DOMAIN g \ {Annotations}
           B == DOMAIN others \ {Annotations}
           a == [f \in {SyncContentHash} \cup A |-> IF f \in {SyncContentHash} THEN [x \in {SyncContentHash} |-> h][f] ELSE [x \in A |-> g[x]][f]]
           live == ServerSideApply(others, g)
<1>1. Annotated(g) = a
  BY Zenon DEF Annotated, Drop, Restrict, Over
<1>2. live = [f \in DOMAIN a \cup B |-> IF f \in DOMAIN a THEN a[f] ELSE [x \in B |-> others[x]][f]]
  BY <1>1, Zenon DEF ServerSideApply, Drop, Restrict, Over
<1> HIDE DEF h, A, B, live
<1>3. /\ DOMAIN live = {SyncContentHash} \cup A \cup B
      /\ live[SyncContentHash] = h
      /\ \A f \in A : f # SyncContentHash => live[f] = g[f]
  BY <1>2
<1> QED BY <1>3, Zenon DEF h, A, B, live

\* The export of an applied object is the material of the next apply: whoever else
\* owns fields, the second apply adds none that the first export does not declare.
LEMMA SecondApplyRecognised ==
  ASSUME NEW others, NEW g
  PROVE  LoopBreak(ServerSideApply(others, normalizeKubernetesObject(ServerSideApply(others, g))))
<1> DEFINE live == ServerSideApply(others, g)
           exported == normalizeKubernetesObject(live)
           second == ServerSideApply(others, exported)
<1>1. Stripped(SyncContentHash)
  BY Zenon DEF Stripped
<1>2. DOMAIN live = {SyncContentHash} \cup (DOMAIN g \ {Annotations}) \cup (DOMAIN others \ {Annotations})
  BY AppliedFields, Zenon
<1>3. /\ DOMAIN second = {SyncContentHash} \cup (DOMAIN exported \ {Annotations}) \cup (DOMAIN others \ {Annotations})
      /\ second[SyncContentHash] = Hash(exported)
      /\ \A f \in DOMAIN exported : f \notin {SyncContentHash, Annotations} => second[f] = exported[f]
  BY AppliedFields, Zenon
<1>4. exported = [f \in {f \in DOMAIN live : ~Stripped(f) /\ ~(f = Annotations /\ live[f] = EmptyMap)} |-> live[f]]
  BY Normalized, Zenon
<1>5. normalizeKubernetesObject(exported) =
        [f \in {f \in DOMAIN exported : ~Stripped(f) /\ ~(f = Annotations /\ exported[f] = EmptyMap)} |-> exported[f]]
  BY Normalized, Zenon
<1>6. normalizeKubernetesObject(second) =
        [f \in {f \in DOMAIN second : ~Stripped(f) /\ ~(f = Annotations /\ second[f] = EmptyMap)} |-> second[f]]
  BY Normalized, Zenon
<1> DEFINE kept == {f \in DOMAIN second : ~Stripped(f) /\ ~(f = Annotations /\ second[f] = EmptyMap)}
           again == {f \in DOMAIN exported : ~Stripped(f) /\ ~(f = Annotations /\ exported[f] = EmptyMap)}
<1> HIDE DEF live, exported, second
<1>7. Annotations # SyncContentHash
  BY DEF Annotations, SyncContentHash, Annotation
<1>8. Annotations \notin DOMAIN live
  BY <1>2, <1>7
<1>9. /\ \A f \in DOMAIN exported : f \in DOMAIN live /\ ~Stripped(f)
      /\ \A f \in DOMAIN live : ~Stripped(f) => f \in DOMAIN exported
  BY <1>4, <1>8
<1>10. Annotations \notin DOMAIN second /\ Annotations \notin DOMAIN exported
  BY <1>3, <1>7, <1>8, <1>9
<1>11. kept = DOMAIN exported
  BY <1>1, <1>2, <1>3, <1>9, <1>10
<1>12. again = DOMAIN exported
  BY <1>9, <1>10
<1>13. \A f \in DOMAIN exported : second[f] = exported[f]
  BY <1>1, <1>3, <1>9, <1>10
<1> HIDE DEF kept, again
<1>14. normalizeKubernetesObject(second) = normalizeKubernetesObject(exported)
  BY <1>5, <1>6, <1>11, <1>12, <1>13 DEF kept, again
<1>15. SyncContentHash \in DOMAIN second /\ second[SyncContentHash] = Hash(second)
  BY <1>3, <1>14, Zenon DEF Hash
<1> QED BY <1>15, Zenon DEF LoopBreak, live, exported, second

\* A Git edit is exported at most once: for every manifest and whatever other
\* managers own, the apply of an export is recognised by its annotation (the
\* annotation check of handle, after ApplyInventoryYAML).
THEOREM EchoEnds == Spec => []EchoSettles
<1>1. EchoSettles
  BY SecondApplyRecognised DEF EchoSettles
<1> QED BY <1>1, PTL

-----------------------------------------------------------------------------
(* Files of several documents.                                             *)

\* A set of numbers has a least element.
LEMMA LeastNumber ==
  ASSUME NEW S \in SUBSET Nat, S # {}
  PROVE  \E x \in S : \A y \in S : x <= y
<1> DEFINE R == OpToRel(<, Nat)
<1>1. IsWellFoundedOn(R, Nat)
  BY NatLessThanWellFounded
<1>2. \A x, y \in Nat : y < x => <<y, x>> \in R
  BY DEF OpToRel
<1> HIDE DEF R
<1>3. PICK x \in S : \A y \in S : ~(<<y, x>> \in R)
  BY <1>1, WFMin
<1>4. \A y \in S : x <= y
  <2> TAKE y \in S
  <2>1. ~(y < x)
    BY <1>2, <1>3
  <2> QED BY <2>1
<1> QED BY <1>4

\* Of a file of any length at most the first document with content is applied,
\* whole and with nothing of the next, and it is missed exactly when a separator
\* follows the first line of the text and precedes it (FirstYAMLDocument).
THEOREM FirstDocumentApplied == Spec => []FirstDocumentOnly
<1>1. Picked => FirstDocumentOnly
  <2> SUFFICES ASSUME Picked, input.of = "file" PROVE FirstDocumentOnly
    BY DEF FirstDocumentOnly
  <2> DEFINE lines == input.lines
             content == {i \in DOMAIN lines : IsContent(lines[i])}
             start == CHOOSE i \in content : \A j \in content : i <= j
             first == {i \in content : \A j \in start..i : lines[j] # Separator}
             missed == \E i \in 1..start - 1 :
                          lines[i] = Separator /\ \E j \in 1..i - 1 : lines[j] # Blank
             found == content \cap FirstYAMLDocument(lines)
  <2>1. PICK n \in Nat : DOMAIN lines = 1..n
    BY DEF Picked
  <2>2. SUFFICES found = IF content = {} \/ missed THEN {} ELSE first
    BY Zenon DEF FirstDocumentOnly
  <2>3. CASE content = {}
    BY <2>3
  <2>4. CASE content # {}
    <3>1. content \in SUBSET Nat
      BY <2>1
    <3>2. start \in content /\ \A j \in content : start <= j
      <4> HIDE DEF content
      <4> QED BY <2>4, <3>1, LeastNumber
    <3> HIDE DEF start
    <3> DEFINE text == {i \in DOMAIN lines : lines[i] # Blank}
    <3>3. text \in SUBSET Nat /\ start \in text
      BY <2>1, <3>2 DEF IsContent
    <3>4. PICK s \in text : \A j \in text : s <= j
      <4> HIDE DEF text
      <4> QED BY <3>3, LeastNumber
    <3>5. s \in 1..n /\ start \in 1..n /\ s <= start /\ lines[s] # Blank /\ IsContent(lines[start])
      BY <2>1, <3>2, <3>3, <3>4
    <3>6. \A j \in 1..n : lines[j] # Blank => s <= j
      BY <2>1, <3>4
    <3>7. \A i \in 1..n : TextStarts(lines, i) <=> i = s
      <4> HIDE DEF lines
      <4>1. ASSUME NEW i \in 1..n, TextStarts(lines, i) PROVE i = s
        BY <3>5, <3>6, <4>1 DEF TextStarts
      <4>2. TextStarts(lines, s)
        BY <2>1, <3>5, <3>6 DEF TextStarts
      <4> QED BY <4>1, <4>2
    <3>8. \A i \in 1..n : i \in FirstYAMLDocument(lines) <=>
              s <= i /\ \A j \in s + 1..i : lines[j] # Separator
      <4> HIDE DEF lines
      <4> QED BY <2>1, <3>5, <3>7 DEF FirstYAMLDocument
    <3>9. \A i \in content : i \in 1..n /\ start <= i /\ lines[i] # Separator
      BY <2>1, <3>2 DEF IsContent
    <3> HIDE DEF lines, content, text
    <3>10. CASE missed
      <4>1. PICK i \in 1..start - 1 : lines[i] = Separator /\ \E j \in 1..i - 1 : lines[j] # Blank
        BY <3>10
      <4>2. i \in s + 1..start - 1
        BY <3>5, <3>6, <4>1
      <4>3. \A x \in content : x \notin FirstYAMLDocument(lines)
        BY <3>5, <3>8, <3>9, <4>1, <4>2
      <4> QED BY <2>4, <3>10, <4>3
    <3>11. CASE ~missed
      <4>1. \A j \in s + 1..start - 1 : lines[j] # Separator
        BY <3>5, <3>11
      <4>2. lines[start] # Separator
        BY <3>2, <3>9
      <4>3. ASSUME NEW i \in content
            PROVE  i \in FirstYAMLDocument(lines) <=> \A j \in start..i : lines[j] # Separator
        <5>1. i \in 1..n /\ start <= i
          BY <3>9
        <5>2. i \in FirstYAMLDocument(lines) <=> \A j \in s + 1..i : lines[j] # Separator
          BY <3>5, <3>8, <5>1
        <5>3. (\A j \in s + 1..i : lines[j] # Separator) <=> \A j \in start..i : lines[j] # Separator
          BY <3>5, <4>1, <4>2, <5>1
        <5> QED BY <5>2, <5>3
      <4>4. found = first
        BY <4>3
      <4> QED BY <2>4, <3>11, <4>4
    <3> QED BY <3>10, <3>11
  <2> QED BY <2>3, <2>4
<1> QED BY <1>1, InputsPicked, PTL

-----------------------------------------------------------------------------
(* Commit messages.                                                        *)

\* A set of numbers below a bound is empty or has a greatest element.
LEMMA GreatestNumber ==
  ASSUME NEW n \in Nat, NEW S \in SUBSET (1..n), S # {}
  PROVE  \E x \in S : \A y \in S : y <= x
<1> DEFINE T == {t \in Nat : \A x \in S : x <= t}
<1>1. n \in T
  OBVIOUS
<1>2. PICK t \in T : \A u \in T : t <= u
  <2>1. T \in SUBSET Nat /\ T # {}
    BY <1>1
  <2> HIDE DEF T
  <2> QED BY <2>1, LeastNumber
<1>3. t \in Nat /\ \A x \in S : x \in Nat /\ x <= t
  BY <1>2
<1>4. ASSUME t \notin S PROVE FALSE
  <2>1. \A x \in S : x <= t - 1
    BY <1>3, <1>4
  <2>2. t - 1 \in Nat
    <3>1. PICK x \in S : TRUE
      OBVIOUS
    <3>2. x \in Nat /\ x <= t - 1
      BY <1>3, <2>1
    <3> QED BY <1>3, <3>2
  <2>3. t - 1 \in T
    BY <2>1, <2>2
  <2> QED BY <1>2, <1>3, <2>3
<1> QED BY <1>3, <1>4

\* The index of a path in the loop of commitBody: it grows with the path, and the
\* paths up to and including it are one more.
LEMMA Indices ==
  ASSUME NEW n \in Nat, NEW S \in SUBSET (1..n), NEW p \in S
  PROVE  /\ IsFiniteSet(S) /\ Index(S, p) \in Nat
         /\ \A q \in S : q <= p => Index(S, q) <= Index(S, p)
         /\ IsFiniteSet({q \in S : q <= p}) /\ Cardinality({q \in S : q <= p}) = Index(S, p) + 1
<1>1. IsFiniteSet(S)
  <2>1. IsFiniteSet(1..n)
    BY FS_Interval, 1 \in Int, n \in Int
  <2> QED BY <2>1, FS_Subset
<1>0. \A q \in S : q \in Nat
  OBVIOUS
<1> DEFINE Below(q) == {r \in S : r < q}
<1>2. \A q : IsFiniteSet(Below(q)) /\ Cardinality(Below(q)) \in Nat
  <2> TAKE q
  <2>1. Below(q) \in SUBSET S
    OBVIOUS
  <2> HIDE DEF Below
  <2> QED BY <1>1, <2>1, FS_Subset, FS_CardinalityType
<1>3. ASSUME NEW q \in S, q <= p PROVE Cardinality(Below(q)) <= Cardinality(Below(p))
  <2>1. \A r \in S : r < q => r < p
    BY <1>0, <1>3
  <2>2. Below(q) \in SUBSET Below(p)
    BY <2>1, Zenon
  <2> HIDE DEF Below
  <2> QED BY <1>2, <2>2, FS_Subset
<1>4. p \notin Below(p) /\ {q \in S : q <= p} = Below(p) \cup {p}
  <2>1. \A q \in S : q <= p <=> q < p \/ q = p
    BY <1>0
  <2>2. ~(p < p)
    BY <1>0
  <2> QED BY <2>1, <2>2, Zenon
<1>5. IsFiniteSet(Below(p) \cup {p}) /\ Cardinality(Below(p) \cup {p}) = Cardinality(Below(p)) + 1
  <2> HIDE DEF Below
  <2> QED BY <1>2, <1>4, FS_AddElement
<1> QED BY <1>1, <1>2, <1>3, <1>4, <1>5 DEF Index

\* What a body lists and what it counts make up its paths: the first MaxListed
\* are listed, in the order of the paths, and the number is that of the others.
LEMMA BodyAccounts ==
  ASSUME NEW n \in Nat, NEW S \in SUBSET (1..n)
  PROVE  LET body == commitBody(S) IN
         /\ Cardinality(body.listed) <= MaxListed
         /\ Cardinality(body.listed) + body.more = Cardinality(S)
         /\ \A p \in body.listed, q \in S \ body.listed : p < q
<1> DEFINE F == {p \in S : Index(S, p) < MaxListed}
<1>1. MaxListed = 10
  BY DEF MaxListed
<1>2. IsFiniteSet(S) /\ Cardinality(S) \in Nat
  <2>1. IsFiniteSet(1..n)
    BY FS_Interval, 1 \in Int, n \in Int
  <2>2. IsFiniteSet(S)
    BY <2>1, FS_Subset
  <2> QED BY <2>2, FS_CardinalityType
<1>3. IsFiniteSet(F) /\ Cardinality(F) \in Nat /\ F \in SUBSET S
  <2>1. F \in SUBSET S
    OBVIOUS
  <2> HIDE DEF F
  <2> QED BY <1>2, <2>1, FS_Subset, FS_CardinalityType
<1>4. \A p \in S : Index(S, p) \in Nat
  BY Indices
<1>5. \A p \in F, q \in S \ F : p < q
  <2> SUFFICES ASSUME NEW p \in F, NEW q \in S \ F PROVE p < q
    OBVIOUS
  <2>1. p \in S /\ Index(S, p) < 10 /\ ~(Index(S, q) < 10)
    BY <1>1
  <2>2. q <= p => Index(S, q) <= Index(S, p)
    BY <2>1, Indices
  <2> QED BY <1>4, <2>1, <2>2
<1>6. Cardinality(F) <= 10
  <2>1. CASE F = {}
    BY <2>1, FS_EmptySet
  <2>2. CASE F # {}
    <3>1. PICK x \in F : \A y \in F : y <= x
      <4> HIDE DEF F
      <4> QED BY <1>3, <2>2, GreatestNumber
    <3> DEFINE U == {q \in S : q <= x}
    <3>2. IsFiniteSet(U) /\ Cardinality(U) = Index(S, x) + 1 /\ Index(S, x) < 10 /\ Index(S, x) \in Nat
      BY <1>1, Indices
    <3>3. F \in SUBSET U
      BY <3>1
    <3> HIDE DEF F, U
    <3>4. Cardinality(F) <= Cardinality(U)
      BY <3>2, <3>3, FS_Subset
    <3> QED BY <1>3, <3>2, <3>4
  <2> QED BY <2>1, <2>2
<1>7. CASE F = S
  <2>1. ~(Cardinality(S) > MaxListed)
    BY <1>1, <1>2, <1>6, <1>7
  <2>2. commitBody(S) = [listed |-> S, more |-> 0]
    BY <1>7, <2>1 DEF commitBody
  <2>3. Cardinality(S) <= 10 /\ Cardinality(S) + 0 = Cardinality(S)
    <3> HIDE DEF F
    <3> QED BY <1>2, <1>6, <1>7
  <2> QED BY <1>1, <2>2, <2>3
<1>8. CASE F # S
  <2>1. PICK m \in S \ F : \A y \in S \ F : m <= y
    <3> DEFINE U == S \ F
    <3>1. U \in SUBSET Nat /\ U # {}
      <4> HIDE DEF F
      <4>1. \A q \in S : q \in Nat
        OBVIOUS
      <4> QED BY <1>3, <1>8, <4>1
    <3> HIDE DEF U
    <3>2. \E m \in U : \A y \in U : m <= y
      BY <3>1, LeastNumber
    <3> QED BY <3>2 DEF U
  <2>2. F = {q \in S : q < m}
    <3>1. \A q \in S : q \in F => q < m
      BY <1>5, <2>1
    <3>2. \A q \in S : q < m => q \in F
      <4> HIDE DEF F
      <4> QED BY <2>1
    <3> QED BY <1>3, <3>1, <3>2
  <2>3. Cardinality(F) = 10
    <3>1. Cardinality(F) = Index(S, m)
      BY <2>2 DEF Index
    <3>2. ~(Index(S, m) < 10) /\ Index(S, m) \in Nat
      BY <1>1, <1>4, <2>1
    <3> HIDE DEF F
    <3> QED BY <1>3, <1>6, <3>1, <3>2
  <2>4. Cardinality(S) > 10
    <3> HIDE DEF F
    <3>1. Cardinality(F) <= Cardinality(S) /\ Cardinality(F) # Cardinality(S)
      BY <1>2, <1>3, <1>8, FS_Subset
    <3> QED BY <1>2, <2>3, <3>1
  <2>5. commitBody(S) = [listed |-> F, more |-> Cardinality(S) - 10]
    BY <1>1, <2>4 DEF commitBody
  <2> HIDE DEF F
  <2> QED BY <1>1, <1>2, <1>5, <2>3, <2>4, <2>5
<1> QED BY <1>7, <1>8

\* The message of a batch of any size accounts for all of its paths
\* (commitMessageForBatch and commitBody).
THEOREM MessagesAccount == Spec => []MessageAccounts
<1>1. Picked => MessageAccounts
  <2> SUFFICES ASSUME Picked, input.of = "batch" PROVE MessageAccounts
    BY DEF MessageAccounts
  <2> DEFINE kind == input.kind
             W == {p \in DOMAIN kind : kind[p] = "write"}
             A == {p \in DOMAIN kind : kind[p] = "archive"}
             Message(form, named) ==
                [form |-> form, named |-> named,
                 synced |-> Cardinality(W), archived |-> Cardinality(A),
                 write |-> commitBody(W), archive |-> commitBody(A)]
             Accounts(body, S) ==
                /\ Cardinality(body.listed) <= MaxListed
                /\ Cardinality(body.listed) + body.more = Cardinality(S)
                /\ \A p \in body.listed, q \in S \ body.listed : p < q
             message == commitMessageForBatch(kind)
  <2>1. PICK n \in Nat \ {0} : kind \in [1..n -> {"write", "archive"}]
    BY DEF Picked
  <2>2. /\ W \in SUBSET (1..n) /\ A \in SUBSET (1..n) /\ DOMAIN kind = 1..n
        /\ W \cup A = 1..n /\ W \cap A = {}
    BY <2>1
  <2>3. message = CASE W # {} /\ A = {} -> Message("sync", {})
                    [] W = {} /\ Cardinality(A) = 1 -> Message("archive", A)
                    [] W = {} /\ Cardinality(A) > 1 -> Message("archive", {})
                    [] OTHER -> Message("both", {})
    BY Zenon DEF commitMessageForBatch
  <2> HIDE DEF W, A
  <2>4. /\ IsFiniteSet(W) /\ IsFiniteSet(A) /\ Cardinality(W) \in Nat /\ Cardinality(A) \in Nat
        /\ W = {} <=> Cardinality(W) = 0
        /\ A = {} <=> Cardinality(A) = 0
    <3>1. IsFiniteSet(1..n)
      BY FS_Interval, 1 \in Int, n \in Int
    <3>2. IsFiniteSet(W) /\ IsFiniteSet(A)
      BY <2>2, <3>1, FS_Subset
    <3> QED BY <3>2, FS_CardinalityType, FS_EmptySet
  <2>5. Cardinality(W) + Cardinality(A) = n /\ Cardinality(1..n) = n
    <3>1. Cardinality(1..n) = n
      BY FS_Interval, 1 \in Int, n \in Int
    <3>2. Cardinality(W \cup A) = Cardinality(W) + Cardinality(A) - Cardinality(W \cap A)
      BY <2>4, FS_Union
    <3>3. Cardinality(W \cap A) = 0
      BY <2>2, FS_EmptySet
    <3>4. Cardinality(W \cup A) = Cardinality(W) + Cardinality(A)
      BY ONLY <2>4, <3>2, <3>3
    <3>5. Cardinality(W) + Cardinality(A) = Cardinality(1..n)
      BY <2>2, <3>4, Zenon
    <3> QED BY <3>1, <3>5
  <2>6. Accounts(commitBody(W), W) /\ Accounts(commitBody(A), A)
    BY <2>2, BodyAccounts
  <2> HIDE DEF Accounts
  <2>7. \E form \in {"sync", "archive", "both"}, named \in {{}, A} :
           /\ message = Message(form, named)
           /\ form = "sync" <=> A = {}
           /\ named # {} => named = 1..n /\ Cardinality(A) = 1
    <3> HIDE DEF message, Message
    <3>1. CASE W # {} /\ A = {}
      BY <2>3, <3>1
    <3>2. CASE W = {} /\ Cardinality(A) = 1
      BY <2>2, <2>3, <2>4, <3>2
    <3>3. CASE W = {} /\ Cardinality(A) > 1
      BY <2>3, <2>4, <3>3
    <3>4. CASE W # {} /\ A # {}
      BY <2>3, <3>4
    <3> QED BY <2>4, <2>5, <3>1, <3>2, <3>3, <3>4
  <2>8. PICK form, named :
           /\ message = Message(form, named)
           /\ form = "sync" <=> A = {}
           /\ named # {} => named = 1..n /\ Cardinality(A) = 1
    BY <2>7, Zenon
  <2> HIDE DEF message
  <2>9. /\ message.write = commitBody(W) /\ message.archive = commitBody(A)
        /\ message.synced = Cardinality(W) /\ message.archived = Cardinality(A)
        /\ message.form = form /\ message.named = named
    BY <2>8
  <2>10. /\ Accounts(message.write, W) /\ Accounts(message.archive, A)
         /\ message.synced + message.archived = Cardinality(DOMAIN kind)
         /\ message.form = "sync" <=> A = {}
         /\ message.named # {} => message.named = DOMAIN kind /\ message.archived = 1
    BY <2>2, <2>5, <2>6, <2>8, <2>9, Zenon
  <2> QED BY <2>10, Zenon DEF MessageAccounts, Accounts, message, W, A
<1> QED BY <1>1, InputsPicked, PTL
=============================================================================
