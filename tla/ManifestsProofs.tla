--------------------------- MODULE ManifestsProofs ---------------------------
(***************************************************************************)
(* What Manifests checks on small documents, proved for documents of any   *)
(* keys and any depth.  A document is a function from paths, so sanitizing *)
(* is followed leaf by leaf (Sanitized); a document without empty maps is  *)
(* known from its leaves (TrimDocuments), and from both follow idempotence,*)
(* the meaning of equal views, and the rest along the steps of Manifests.  *)
(* The walk of diffPaths is followed visit by visit (WalkInv): what differs*)
(* is noted or still ahead, and each visit leaves one node behind, so that *)
(* there are enough visits (WalkIsExact).  NoObject is no object.          *)
(***************************************************************************)
EXTENDS Manifests, FiniteSetTheorems, WellFoundedInduction, TLAPS

------------------------------------------------------------------------------
\* Paths.

LEMMA Appended ==
  ASSUME NEW S, NEW at \in Seq(S), NEW k \in S
  PROVE  /\ Append(at, k) \in Seq(S) /\ Append(at, k) # <<>>
         /\ Len(Append(at, k)) = Len(at) + 1
         /\ Append(at, k)[Len(at) + 1] = k
         /\ \A i \in 1..Len(at) : Append(at, k)[i] = at[i]
  OBVIOUS

LEMMA AppendedKey ==
  ASSUME NEW at \in Seq(Keys), NEW k \in Keys
  PROVE  Append(at, k) \in Seq(Keys) /\ Append(at, k) \in Paths
<1>1. Append(at, k) \in Seq(Keys)
  BY Appended, Zenon
<1>2. Append(at, k) # <<>>
  BY Appended, Zenon
<1> QED
  BY <1>1, <1>2, Zenon DEF Paths

LEMMA Tuples ==
  ASSUME NEW S, NEW a \in S, NEW b \in S, NEW c \in S
  PROVE  {<<a>>, <<a, b>>, <<a, b, c>>} \subseteq Seq(S) \ {<<>>}
  OBVIOUS

LEMMA Element ==
  ASSUME NEW S, NEW p \in Seq(S), NEW i \in 1..Len(p)
  PROVE  p[i] \in S
  OBVIOUS

LEMMA Triple ==
  ASSUME NEW S, NEW p \in Seq(S), Len(p) = 3
  PROVE  p[3] \in S /\ p = <<p[1], p[2], p[3]>>
<1>1. p[1] \in S /\ p[2] \in S /\ p[3] \in S
  <2>1. 1 \in 1..Len(p) /\ 2 \in 1..Len(p) /\ 3 \in 1..Len(p)
    OBVIOUS
  <2>2. \A i \in 1..Len(p) : p[i] \in S
    BY Element, Zenon
  <2> QED
    BY <2>1, <2>2
<1> DEFINE t == <<p[1], p[2], p[3]>>
<1>2. t \in Seq(S)
  BY <1>1
<1>3. Len(t) = 3 /\ t[1] = p[1] /\ t[2] = p[2] /\ t[3] = p[3]
  OBVIOUS
<1> HIDE DEF t
<1>4. t = p
  BY <1>2, <1>3
<1> QED
  BY <1>1, <1>4 DEF t

LEMMA LongTuples ==
  ASSUME NEW S, NEW a \in S, NEW b \in S, NEW c \in S, NEW d \in S, NEW e \in S, NEW f \in S
  PROVE  {<<a, b, c, d>>, <<a, b, c, d, e, f>>} \subseteq Seq(S) \ {<<>>}
  OBVIOUS

LEMMA Lengths ==
  ASSUME NEW p \in Paths
  PROVE  p \in Seq(Keys) /\ Len(p) \in Nat \ {0} /\ Begins(p, p)
  BY DEF Paths, Begins

LEMMA BeginsTransitive ==
  ASSUME NEW p \in Seq(Keys), NEW q \in Seq(Keys), NEW r \in Seq(Keys),
         Begins(p, q), Begins(q, r)
  PROVE  Begins(p, r)
  BY DEF Begins

\* Of two beginnings of a path the shorter is a beginning of the other.
LEMMA BeginsBoth ==
  ASSUME NEW p \in Seq(Keys), NEW q \in Seq(Keys), NEW r \in Seq(Keys),
         Begins(p, r), Begins(q, r), Len(p) <= Len(q)
  PROVE  Begins(p, q)
  BY DEF Begins

LEMMA BeginsEqual ==
  ASSUME NEW p \in Seq(Keys), NEW q \in Seq(Keys), Begins(p, q), Len(p) = Len(q)
  PROVE  p = q
  BY DEF Begins

LEMMA Beginning ==
  ASSUME NEW q \in Paths, NEW n \in 1..(Len(q) - 1)
  PROVE  /\ SubSeq(q, 1, n) \in Paths /\ Len(SubSeq(q, 1, n)) = n
         /\ Begins(SubSeq(q, 1, n), q)
<1>1. q \in Seq(Keys) /\ Len(q) \in Nat /\ n \in 1..Len(q)
  BY DEF Paths
<1>2. SubSeq(q, 1, n) \in Seq(Keys) /\ Len(SubSeq(q, 1, n)) = n
  BY <1>1
<1>3. \A i \in 1..n : SubSeq(q, 1, n)[i] = q[i]
  BY <1>1
<1> QED
  BY <1>1, <1>2, <1>3 DEF Paths, Begins

LEMMA BeginningIs ==
  ASSUME NEW p \in Paths, NEW q \in Paths, Begins(p, q), p # q
  PROVE  Len(p) \in 1..(Len(q) - 1) /\ p = SubSeq(q, 1, Len(p))
<1>1. Len(p) # Len(q)
  BY BeginsEqual DEF Paths
<1>2. Len(p) \in 1..(Len(q) - 1)
  BY <1>1, Lengths DEF Begins
<1>3. Begins(SubSeq(q, 1, Len(p)), q) /\ Len(SubSeq(q, 1, Len(p))) = Len(p)
      /\ SubSeq(q, 1, Len(p)) \in Paths
  BY <1>2, Beginning
<1>4. Begins(p, SubSeq(q, 1, Len(p)))
  <2>1. p \in Seq(Keys) /\ q \in Seq(Keys) /\ SubSeq(q, 1, Len(p)) \in Seq(Keys)
    BY <1>3 DEF Paths
  <2>2. Len(p) <= Len(SubSeq(q, 1, Len(p)))
    BY <1>3, Lengths
  <2> QED
    BY <2>1, <2>2, <1>3, BeginsBoth
<1> QED
  BY <1>2, <1>3, <1>4, BeginsEqual DEF Paths

\* Whatever is below a deleted node is deleted.
LEMMA ThroughBelow ==
  ASSUME NEW at \in Seq(Keys), NEW keys, NEW p \in Paths, NEW q \in Paths,
         Begins(p, q), Through(p, at, keys)
  PROVE  Through(q, at, keys)
<1>1. Begins(at, q)
  BY BeginsTransitive DEF Through, Paths
<1>2. Len(at) + 1 \in 1..Len(p) /\ Len(at) < Len(q)
  BY Lengths DEF Through, Begins
<1>3. p[Len(at) + 1] = q[Len(at) + 1]
  BY <1>2 DEF Begins
<1> QED
  BY <1>1, <1>2, <1>3 DEF Through

LEMMA ThroughOne ==
  ASSUME NEW S, NEW at \in Seq(S), NEW k \in S, NEW q \in Seq(S)
  PROVE  Through(q, at, {k}) <=> Begins(Append(at, k), q)
<1> DEFINE a == Append(at, k)
<1>1. Len(q) \in Nat /\ Len(at) \in Nat
  OBVIOUS
<1>a. Len(a) = Len(at) + 1 /\ a[Len(at) + 1] = k /\ \A i \in 1..Len(at) : a[i] = at[i]
  BY Appended
<1> HIDE DEF a
<1>2. ASSUME Through(q, at, {k}) PROVE Begins(a, q)
  <2> SUFFICES ASSUME NEW i \in 1..(Len(at) + 1) PROVE a[i] = q[i]
    BY <1>1, <1>2, <1>a DEF Begins, Through
  <2>1. CASE i = Len(at) + 1
    BY <2>1, <1>2, <1>a DEF Through
  <2>2. CASE i \in 1..Len(at)
    BY <2>2, <1>2, <1>a DEF Through, Begins
  <2> QED
    BY <2>1, <2>2, <1>1
<1>3. ASSUME Begins(a, q) PROVE Through(q, at, {k})
  <2>1. Len(at) + 1 <= Len(q) /\ \A i \in 1..(Len(at) + 1) : a[i] = q[i]
    BY <1>3, <1>a DEF Begins
  <2>2. q[Len(at) + 1] = k
    BY <2>1, <1>1, <1>a
  <2>3. Begins(at, q)
    BY <2>1, <1>1, <1>a DEF Begins
  <2> QED
    BY <2>1, <2>2, <2>3, <1>1 DEF Through
<1> USE DEF a
<1> QED
  BY <1>2, <1>3

LEMMA ThroughTop ==
  ASSUME NEW S, NEW q \in Seq(S), NEW k
  PROVE  Through(q, <<>>, {k}) <=> Begins(<<k>>, q)
  BY DEF Through, Begins

------------------------------------------------------------------------------
\* Documents.

\* What is above a node of a document is a map of it.
LEMMA Above ==
  ASSUME NEW d, IsDocument(d), NEW q \in DOMAIN d, NEW p \in Paths, Begins(p, q), p # q
  PROVE  p \in DOMAIN d /\ d[p] = Map
  BY BeginningIs DEF IsDocument

LEMMA InDocument ==
  ASSUME NEW d, IsDocument(d), NEW p \in DOMAIN d
  PROVE  p \in Paths /\ p \in Seq(Keys) /\ d[p] \in Scalars \cup {Map}
<1>1. p \in Paths
  BY DEF IsDocument
<1>2. d[p] \in Scalars \cup {Map}
  BY DEF IsDocument
<1> QED
  BY <1>1, <1>2 DEF Paths

LEMMA FinitelyManyNodes ==
  ASSUME NEW d, IsDocument(d)
  PROVE  IsFiniteSet(DOMAIN d)
  BY DEF IsDocument

\* To be a document it suffices to have what is above each node.
LEMMA Documents ==
  ASSUME NEW S \in SUBSET Paths, IsFiniteSet(S), NEW d \in [S -> Scalars \cup {Map}],
         \A q \in S : \A p \in Paths : Begins(p, q) /\ p # q => p \in S /\ d[p] = Map
  PROVE  IsDocument(d)
<1>1. DOMAIN d = S
  OBVIOUS
<1>2. ASSUME NEW q \in S, NEW n \in 1..(Len(q) - 1)
      PROVE  SubSeq(q, 1, n) \in S /\ d[SubSeq(q, 1, n)] = Map
  <2>1. SubSeq(q, 1, n) \in Paths /\ Len(SubSeq(q, 1, n)) = n /\ Begins(SubSeq(q, 1, n), q)
    BY <1>2, Beginning
  <2>2. n # Len(q)
    BY <1>2, Lengths
  <2> QED
    BY <2>1, <2>2
<1> QED
  BY <1>1, <1>2 DEF IsDocument

LEMMA LeafOf ==
  ASSUME NEW d, NEW p, NEW v
  PROVE  <<p, v>> \in Leaves(d) <=> p \in DOMAIN d /\ d[p] = v /\ v # Map
  BY DEF Leaves

LEMMA LeafIs ==
  ASSUME NEW d, NEW l
  PROVE  l \in Leaves(d) <=> l = <<l[1], l[2]>> /\ l[1] \in DOMAIN d /\ d[l[1]] = l[2] /\ l[2] # Map
  BY DEF Leaves

LEMMA LeavesArePairs ==
  ASSUME NEW d, NEW l \in Leaves(d)
  PROVE  l = <<l[1], l[2]>> /\ l[1] \in DOMAIN d /\ d[l[1]] = l[2] /\ l[2] # Map
  BY DEF Leaves

LEMMA DeleteDocument ==
  ASSUME NEW d, IsDocument(d), NEW at \in Seq(Keys), NEW keys
  PROVE  /\ IsDocument(Delete(d, at, keys))
         /\ \A l : l \in Leaves(Delete(d, at, keys)) <=> l \in Leaves(d) /\ ~Through(l[1], at, keys)
<1> DEFINE e == Delete(d, at, keys)
<1>1. DOMAIN e = {q \in DOMAIN d : ~Through(q, at, keys)} /\ \A q \in DOMAIN e : e[q] = d[q]
  BY DEF Delete
<1>2. IsDocument(e)
  <2>0. IsFiniteSet(DOMAIN e)
    <3>1. DOMAIN e \subseteq DOMAIN d
      BY <1>1
    <3> QED
      BY <3>1, FinitelyManyNodes, FS_Subset
  <2>1. DOMAIN e \in SUBSET Paths /\ e \in [DOMAIN e -> Scalars \cup {Map}]
    <3>1. DOMAIN e \in SUBSET Paths
      BY <1>1, InDocument
    <3>2. \A q \in DOMAIN e : d[q] \in Scalars \cup {Map}
      BY <1>1, InDocument
    <3> QED
      BY <3>1, <3>2, <1>1 DEF Delete
  <2>2. ASSUME NEW q \in DOMAIN e, NEW p \in Paths, Begins(p, q), p # q
        PROVE  p \in DOMAIN e /\ e[p] = Map
    <3>1. p \in DOMAIN d /\ d[p] = Map /\ q \in Paths
      BY <2>2, <1>1, Above, InDocument
    <3>2. ~Through(p, at, keys)
      BY <3>1, <2>2, <1>1, ThroughBelow
    <3> QED
      BY <3>1, <3>2, <1>1
  <2> HIDE DEF e
  <2> QED
    BY <2>0, <2>1, <2>2, Documents
<1>3. \A l : l \in Leaves(e) <=> l \in Leaves(d) /\ ~Through(l[1], at, keys)
  BY <1>1 DEF Leaves
<1> QED
  BY <1>1, <1>2, <1>3

\* Deleting an emptied map with the noise that was in it deletes no other leaf.
LEMMA StripKeysDocument ==
  ASSUME NEW d, IsDocument(d), NEW meta \in Seq(Keys), NEW field \in Keys, NEW keys
  PROVE  /\ IsDocument(StripKeys(d, meta, field, keys))
         /\ \A l : l \in Leaves(StripKeys(d, meta, field, keys)) <=>
              l \in Leaves(d) /\ ~Through(l[1], Append(meta, field), keys)
<1> DEFINE at == Append(meta, field)
           kept == Delete(d, at, keys)
           emptied == Delete(kept, meta, {field})
<1>1. at \in Seq(Keys) /\ at \in Paths
  BY AppendedKey, Zenon
<1>2. IsDocument(kept) /\ \A l : l \in Leaves(kept) <=> l \in Leaves(d) /\ ~Through(l[1], at, keys)
  BY <1>1, DeleteDocument, Zenon
<1>3. StripKeys(d, meta, field, keys) = IF IsEmptyMap(kept, at) THEN emptied ELSE kept
  BY DEF StripKeys
<1> HIDE DEF kept
<1>4. IsDocument(emptied) /\ \A l : l \in Leaves(emptied) <=>
        l \in Leaves(kept) /\ ~Through(l[1], meta, {field})
  <2>1. IsDocument(kept)
    BY <1>2
  <2> QED
    BY <2>1, DeleteDocument, Zenon
<1>5. ASSUME IsEmptyMap(kept, at), NEW l \in Leaves(kept)
      PROVE  ~Through(l[1], meta, {field})
  <2>1. l[1] \in DOMAIN kept /\ kept[l[1]] # Map
    BY LeavesArePairs
  <2>2. l[1] \in Paths /\ l[1] \in Seq(Keys)
    BY <2>1, <1>2, InDocument
  <2>3. Through(l[1], meta, {field}) <=> Begins(at, l[1])
    BY <2>2, ThroughOne, Zenon
  <2>4. Begins(at, l[1]) => l[1] = at /\ kept[at] = Map
    BY <2>1, <1>5 DEF IsEmptyMap
  <2> QED
    BY <2>1, <2>3, <2>4
<1> HIDE DEF emptied, at
<1>6. IsEmptyMap(kept, at) => \A l : l \in Leaves(emptied) <=> l \in Leaves(kept)
  BY <1>4, <1>5
<1> QED
  BY <1>2, <1>3, <1>4, <1>6 DEF at

LEMMA SanitizeMetadataDocument ==
  ASSUME NEW d, IsDocument(d), NEW meta \in Seq(Keys)
  PROVE  /\ IsDocument(SanitizeMetadata(d, meta))
         /\ \A l : l \in Leaves(SanitizeMetadata(d, meta)) <=> l \in Leaves(d) /\ ~NoiseInMetadata(l[1], meta)
<1> DEFINE fields == Delete(d, meta, metadataFieldsStrip)
           labels == StripKeys(fields, meta, "labels", NoiseLabels)
           annotations == StripKeys(labels, meta, "annotations", StrippedAnnotations)
<1>1. IsDocument(fields) /\ \A l : l \in Leaves(fields) <=>
        l \in Leaves(d) /\ ~Through(l[1], meta, metadataFieldsStrip)
  BY DeleteDocument, Zenon
<1> HIDE DEF fields
<1>2. /\ IsDocument(labels)
      /\ \A l : l \in Leaves(labels) <=>
           l \in Leaves(fields) /\ ~Through(l[1], Append(meta, "labels"), NoiseLabels)
  <2>1. IsDocument(fields) /\ "labels" \in Keys
    BY <1>1, SanitizerAssumption DEF SanitizerAssumption
  <2> QED
    BY <2>1, StripKeysDocument, Zenon
<1> HIDE DEF labels
<1>3. /\ IsDocument(annotations)
      /\ \A l : l \in Leaves(annotations) <=>
           l \in Leaves(labels) /\ ~Through(l[1], Append(meta, "annotations"), StrippedAnnotations)
  <2>1. IsDocument(labels) /\ "annotations" \in Keys
    BY <1>2, SanitizerAssumption DEF SanitizerAssumption
  <2> QED
    BY <2>1, StripKeysDocument, Zenon
<1>4. SanitizeMetadata(d, meta) = annotations
  BY DEF SanitizeMetadata, annotations, labels, fields
<1> HIDE DEF annotations
<1>5. \A l : l \in Leaves(annotations) <=> l \in Leaves(d) /\ ~NoiseInMetadata(l[1], meta)
  BY <1>1, <1>2, <1>3 DEF NoiseInMetadata
<1> QED
  BY <1>3, <1>4, <1>5

\* What is stripped at the top of an object of one kind, as the leaves that go.
TopNoiseLeaf(kind, l) ==
  \/ kind = "ServiceAccount" /\ Through(l[1], <<>>, {"secrets"})
  \/ kind = "Secret" /\ l = <<<<"type">>, EmptyString>>

LEMMA TopNoiseLeaves ==
  ASSUME NEW kind, NEW d, IsDocument(d), NEW e, IsDocument(e), Leaves(e) \subseteq Leaves(d),
         NEW l \in Leaves(e)
  PROVE  Through(l[1], <<>>, TopNoise(kind, d)) <=> TopNoiseLeaf(kind, l)
<1>1. /\ l = <<l[1], l[2]>> /\ l[1] \in DOMAIN d /\ d[l[1]] = l[2] /\ l[2] # Map
      /\ l[1] \in Paths /\ l[1] \in Seq(Keys)
  BY LeavesArePairs, InDocument
<1>2. \A k : Through(l[1], <<>>, {k}) <=> Begins(<<k>>, l[1])
  BY <1>1, ThroughTop, Zenon
<1>3. <<"type">> \in Paths
  <2>1. "type" \in Keys
    BY SanitizerAssumption DEF SanitizerAssumption
  <2> QED
    BY <2>1, Tuples, Zenon DEF Paths
<1>4. Begins(<<"type">>, l[1]) => l[1] = <<"type">> \/ d[<<"type">>] = Map
  BY <1>1, <1>3, Above
<1>6. CASE kind = "ServiceAccount"
  BY <1>6 DEF TopNoise, TopNoiseLeaf
<1>7. CASE kind = "ConfigMap"
  <2>1. ASSUME Through(l[1], <<>>, TopNoise(kind, d)) PROVE FALSE
    <3>1. TopNoise(kind, d) \subseteq {"binaryData"}
      BY <1>7 DEF TopNoise
    <3>2. Through(l[1], <<>>, {"binaryData"}) /\ IsEmptyMap(d, <<"binaryData">>)
      BY <3>1, <2>1, <1>7 DEF Through, TopNoise
    <3>3. Begins(<<"binaryData">>, l[1])
      BY <3>2, <1>2
    <3> QED
      BY <3>2, <3>3, <1>1 DEF IsEmptyMap
  <2> QED
    BY <2>1, <1>7 DEF TopNoiseLeaf
<1>8. CASE kind = "Secret"
  <2>1. TopNoise(kind, d) = {k \in {"type"} : <<k>> \in DOMAIN d /\ d[<<k>>] = EmptyString}
    BY <1>8 DEF TopNoise
  <2>2. ASSUME Through(l[1], <<>>, TopNoise(kind, d)) PROVE l = <<<<"type">>, EmptyString>>
    <3>1. Through(l[1], <<>>, {"type"}) /\ d[<<"type">>] = EmptyString
      BY <2>1, <2>2 DEF Through
    <3>2. Begins(<<"type">>, l[1])
      BY <3>1, <1>2
    <3>3. l[1] = <<"type">>
      BY <3>1, <3>2, <1>4, SanitizerAssumption DEF SanitizerAssumption
    <3> QED
      BY <3>1, <3>3, <1>1
  <2>3. ASSUME l = <<<<"type">>, EmptyString>> PROVE Through(l[1], <<>>, TopNoise(kind, d))
    <3>1. l[1] = <<"type">> /\ d[<<"type">>] = EmptyString /\ <<"type">> \in DOMAIN d
      BY <2>3, <1>1
    <3>2. TopNoise(kind, d) = {"type"}
      BY <2>1, <3>1
    <3> QED
      BY <3>1, <3>2 DEF Through, Begins
  <2> QED
    BY <2>2, <2>3, <1>8 DEF TopNoiseLeaf
<1>9. CASE kind \notin {"ServiceAccount", "ConfigMap", "Secret"}
  BY <1>9 DEF TopNoise, TopNoiseLeaf, Through
<1> QED
  BY <1>6, <1>7, <1>8, <1>9

LEMMA TemplateMetadataPath ==
  TemplateMetadata \in Seq(Keys) /\ <<"metadata">> \in Seq(Keys) /\ <<"spec">> \in Seq(Keys)
<1>1. "spec" \in Keys /\ "template" \in Keys /\ "metadata" \in Keys
  BY SanitizerAssumption DEF SanitizerAssumption
<1>2. TemplateMetadata = <<"spec", "template", "metadata">>
  BY DEF TemplateMetadata
<1>3. <<"spec", "template", "metadata">> \in Seq(Keys)
  BY <1>1, Tuples, Zenon
<1>4. <<"spec">> \in Seq(Keys)
  BY <1>1, Tuples, Zenon
<1>5. <<"metadata">> \in Seq(Keys)
  BY <1>1, Tuples, Zenon
<1> QED
  BY <1>2, <1>3, <1>4, <1>5, Zenon

LEMMA SanitizeKindDocument ==
  ASSUME NEW kind, NEW d, IsDocument(d)
  PROVE  /\ IsDocument(SanitizeKind(kind, d))
         /\ \A l : l \in Leaves(SanitizeKind(kind, d)) <=>
              /\ l \in Leaves(d)
              /\ ~Through(l[1], <<"spec">>, SpecNoise(kind))
              /\ ~(kind \in Workloads /\ NoiseInMetadata(l[1], TemplateMetadata))
              /\ ~TopNoiseLeaf(kind, l)
<1> DEFINE spec == Delete(d, <<"spec">>, SpecNoise(kind))
           workload == IF kind \in Workloads THEN SanitizeMetadata(spec, TemplateMetadata) ELSE spec
           top == Delete(workload, <<>>, TopNoise(kind, d))
<1>1. /\ IsDocument(spec)
      /\ \A l : l \in Leaves(spec) <=> l \in Leaves(d) /\ ~Through(l[1], <<"spec">>, SpecNoise(kind))
  BY DeleteDocument, TemplateMetadataPath, Zenon
<1> HIDE DEF spec
<1>2. /\ IsDocument(workload)
      /\ \A l : l \in Leaves(workload) <=>
           l \in Leaves(spec) /\ ~(kind \in Workloads /\ NoiseInMetadata(l[1], TemplateMetadata))
  <2>1. /\ IsDocument(SanitizeMetadata(spec, TemplateMetadata))
        /\ \A l : l \in Leaves(SanitizeMetadata(spec, TemplateMetadata)) <=>
             l \in Leaves(spec) /\ ~NoiseInMetadata(l[1], TemplateMetadata)
    BY <1>1, SanitizeMetadataDocument, TemplateMetadataPath, Zenon
  <2> QED
    BY <1>1, <2>1
<1> HIDE DEF workload
<1>3. /\ IsDocument(top)
      /\ \A l : l \in Leaves(top) <=> l \in Leaves(workload) /\ ~Through(l[1], <<>>, TopNoise(kind, d))
  <2>1. <<>> \in Seq(Keys)
    OBVIOUS
  <2> QED
    BY <1>2, <2>1, DeleteDocument, Zenon
<1>4. \A l \in Leaves(workload) : Through(l[1], <<>>, TopNoise(kind, d)) <=> TopNoiseLeaf(kind, l)
  <2>1. Leaves(workload) \subseteq Leaves(d)
    BY <1>1, <1>2
  <2> QED
    BY <2>1, <1>2, TopNoiseLeaves, Zenon
<1>5. SanitizeKind(kind, d) = top
  BY DEF SanitizeKind, top, workload, spec
<1> HIDE DEF top
<1> QED
  BY <1>1, <1>2, <1>3, <1>4, <1>5

\* Each map of the document leads to a leaf.
IsTrim(d) == \A p \in DOMAIN d : \E q \in DOMAIN d : Begins(p, q) /\ d[q] # Map

LEMMA DropEmptyMapsDocument ==
  ASSUME NEW d, IsDocument(d)
  PROVE  /\ IsDocument(DropEmptyMaps(d))
         /\ Leaves(DropEmptyMaps(d)) = Leaves(d)
         /\ IsTrim(DropEmptyMaps(d))
<1> DEFINE e == DropEmptyMaps(d)
<1>1. /\ DOMAIN e = {p \in DOMAIN d : \E q \in DOMAIN d : Begins(p, q) /\ d[q] # Map}
      /\ \A p \in DOMAIN e : e[p] = d[p]
      /\ e = [p \in DOMAIN e |-> d[p]]
  BY DEF DropEmptyMaps
<1>2. \A q \in DOMAIN d : d[q] # Map => q \in DOMAIN e
  <2> SUFFICES ASSUME NEW q \in DOMAIN d, d[q] # Map PROVE Begins(q, q)
    BY <1>1
  <2> QED
    BY InDocument, Lengths
<1> HIDE DEF e
<1>3. DOMAIN e \in SUBSET Paths /\ e \in [DOMAIN e -> Scalars \cup {Map}]
  BY <1>1, InDocument
<1>4. ASSUME NEW p \in DOMAIN e, NEW r \in Paths, Begins(r, p), r # p
      PROVE  r \in DOMAIN e /\ e[r] = Map
  <2>1. PICK q \in DOMAIN d : Begins(p, q) /\ d[q] # Map
    BY <1>1
  <2>2. r \in DOMAIN d /\ d[r] = Map
    BY <1>4, <1>1, Above
  <2>3. Begins(r, q)
    BY <1>4, <1>1, <2>1, BeginsTransitive, InDocument DEF Paths
  <2> QED
    BY <1>1, <2>1, <2>2, <2>3
<1>5. IsDocument(e)
  <2>1. IsFiniteSet(DOMAIN e)
    BY <1>1, FinitelyManyNodes, FS_Subset
  <2> QED
    BY <2>1, <1>3, <1>4, Documents
<1>6. Leaves(e) = Leaves(d)
  BY <1>1, <1>2 DEF Leaves
<1>7. IsTrim(e)
  BY <1>1, <1>2 DEF IsTrim
<1> QED
  BY <1>5, <1>6, <1>7 DEF e

\* A trim document is known from its leaves.
LEMMA TrimDocuments ==
  ASSUME NEW x, IsDocument(x), IsTrim(x), NEW y, IsDocument(y), IsTrim(y), Leaves(x) = Leaves(y)
  PROVE  x = y
<1>1. ASSUME NEW a, IsDocument(a), IsTrim(a), NEW b, IsDocument(b), Leaves(a) = Leaves(b),
             NEW p \in DOMAIN a
      PROVE  p \in DOMAIN b /\ (a[p] # Map => b[p] = a[p]) /\ (a[p] = Map => b[p] = Map)
  <2>1. PICK q \in DOMAIN a : Begins(p, q) /\ a[q] # Map
    BY <1>1 DEF IsTrim
  <2>2. q \in DOMAIN b /\ b[q] = a[q]
    BY <1>1, <2>1, LeafOf, Zenon
  <2>3. p \in Paths /\ q \in Paths
    BY <1>1, InDocument
  <2>4. CASE p = q
    BY <2>1, <2>2, <2>4
  <2>5. CASE p # q
    BY <2>1, <2>2, <2>3, <2>5, <1>1, Above
  <2> QED
    BY <2>4, <2>5
<1>2. \A p \in DOMAIN x : p \in DOMAIN y /\ y[p] = x[p]
  BY <1>1
<1>3. \A p \in DOMAIN y : p \in DOMAIN x
  BY <1>1
<1>4. x = [p \in DOMAIN x |-> x[p]] /\ y = [p \in DOMAIN y |-> y[p]]
  BY DEF IsDocument
<1> QED
  BY <1>2, <1>3, <1>4

------------------------------------------------------------------------------
\* What sanitizing does.

LEMMA Sanitized ==
  ASSUME NEW o, IsObject(o)
  PROVE  /\ IsObject(SanitizeObject(o)) /\ SanitizeObject(o).kind = o.kind
         /\ IsTrim(SanitizeObject(o).doc)
         /\ Leaves(SanitizeObject(o).doc) = Meaning(o)
<1> DEFINE noStatus == Delete(o.doc, <<>>, {"status"})
           meta == SanitizeMetadata(noStatus, <<"metadata">>)
           kinds == SanitizeKind(o.kind, meta)
           doc == DropEmptyMaps(kinds)
<1>1. /\ IsDocument(noStatus)
      /\ \A l : l \in Leaves(noStatus) <=> l \in Leaves(o.doc) /\ ~Through(l[1], <<>>, {"status"})
  <2>1. <<>> \in Seq(Keys) /\ IsDocument(o.doc)
    BY DEF IsObject
  <2> QED
    BY <2>1, DeleteDocument, Zenon
<1> HIDE DEF noStatus
<1>2. /\ IsDocument(meta)
      /\ \A l : l \in Leaves(meta) <=> l \in Leaves(noStatus) /\ ~NoiseInMetadata(l[1], <<"metadata">>)
  BY <1>1, SanitizeMetadataDocument, TemplateMetadataPath, Zenon
<1> HIDE DEF meta
<1>3. /\ IsDocument(kinds)
      /\ \A l : l \in Leaves(kinds) <=>
           /\ l \in Leaves(meta)
           /\ ~Through(l[1], <<"spec">>, SpecNoise(o.kind))
           /\ ~(o.kind \in Workloads /\ NoiseInMetadata(l[1], TemplateMetadata))
           /\ ~TopNoiseLeaf(o.kind, l)
  BY <1>2, SanitizeKindDocument, Zenon
<1> HIDE DEF kinds
<1>4. IsDocument(doc) /\ Leaves(doc) = Leaves(kinds) /\ IsTrim(doc)
  BY <1>3, DropEmptyMapsDocument, Zenon
<1>5. SanitizeObject(o) = [o EXCEPT !.doc = doc]
  BY DEF SanitizeObject, doc, kinds, meta, noStatus
<1> HIDE DEF doc
<1>6. SanitizeObject(o) = [kind |-> o.kind, doc |-> doc]
  BY <1>5 DEF IsObject
<1>7. \A l : l \in Leaves(kinds) <=> l \in Leaves(o.doc) /\ ~IsNoise(o.kind, l)
  BY <1>1, <1>2, <1>3 DEF IsNoise, TopNoiseLeaf
<1>8. Leaves(doc) = Meaning(o)
  BY <1>4, <1>7 DEF Meaning
<1> QED
  BY <1>4, <1>6, <1>8 DEF IsObject

LEMMA SameMeaning ==
  ASSUME NEW a, IsObject(a), IsTrim(a.doc), NEW b, IsObject(b), IsTrim(b.doc),
         a.kind = b.kind, Leaves(a.doc) = Leaves(b.doc)
  PROVE  a = b
<1>1. a.doc = b.doc
  BY TrimDocuments DEF IsObject
<1> QED
  BY <1>1 DEF IsObject

\* Sanitizing again changes nothing.
LEMMA SanitizedIsClean ==
  ASSUME NEW o, IsObject(o)
  PROVE  SanitizeObject(SanitizeObject(o)) = SanitizeObject(o)
<1> DEFINE c == SanitizeObject(o)
<1>1. IsObject(c) /\ c.kind = o.kind /\ IsTrim(c.doc) /\ Leaves(c.doc) = Meaning(o)
  BY Sanitized
<1> HIDE DEF c
<1>2. /\ IsObject(SanitizeObject(c)) /\ SanitizeObject(c).kind = c.kind
      /\ IsTrim(SanitizeObject(c).doc) /\ Leaves(SanitizeObject(c).doc) = Meaning(c)
  BY <1>1, Sanitized
<1>3. Meaning(c) = Leaves(c.doc)
  BY <1>1 DEF Meaning
<1>4. SanitizeObject(c) = c
  BY <1>1, <1>2, <1>3, SameMeaning
<1> QED
  BY <1>4 DEF c

------------------------------------------------------------------------------
\* What is compared.

LEMMA ComparedBelow ==
  ASSUME NEW p \in Paths, NEW q \in Paths, Begins(p, q), Compared(p)
  PROVE  Compared(q)
<1>1. Len(p) \in Nat \ {0} /\ Len(q) \in Nat /\ Len(p) <= Len(q) /\ p[1] = q[1]
  BY Lengths DEF Begins
<1>2. Len(p) > 1 => p[2] = q[2]
  BY <1>1 DEF Begins
<1> QED
  BY <1>1, <1>2 DEF Compared

\* The leaves of a view are the leaves that are compared.
LEMMA ViewLeaves ==
  ASSUME NEW o, IsObject(o), NEW l
  PROVE  l \in Leaves(CompareView(o)) <=> l \in Leaves(o.doc) /\ Compared(l[1])
<1> DEFINE c == CompareView(o)
<1>1. /\ DOMAIN c = {<<"metadata">>} \cup {p \in DOMAIN o.doc : Compared(p)}
      /\ c[<<"metadata">>] = Map
      /\ \A p \in DOMAIN c : p # <<"metadata">> => c[p] = o.doc[p]
  BY DEF CompareView
<1>2. ~Compared(<<"metadata">>)
  BY DEF Compared
<1> HIDE DEF c
<1>3. ASSUME l \in Leaves(c) PROVE l \in Leaves(o.doc) /\ Compared(l[1])
  <2>1. l = <<l[1], l[2]>> /\ l[1] \in DOMAIN c /\ c[l[1]] = l[2] /\ l[2] # Map
    BY <1>3, LeafIs
  <2>2. l[1] \in DOMAIN o.doc /\ Compared(l[1]) /\ o.doc[l[1]] = l[2]
    BY <2>1, <1>1
  <2> QED
    BY <2>1, <2>2, LeafIs
<1>4. ASSUME l \in Leaves(o.doc), Compared(l[1]) PROVE l \in Leaves(c)
  <2>1. l = <<l[1], l[2]>> /\ l[1] \in DOMAIN o.doc /\ o.doc[l[1]] = l[2] /\ l[2] # Map
    BY <1>4, LeafIs
  <2>2. l[1] \in DOMAIN c /\ c[l[1]] = l[2]
    BY <2>1, <1>1, <1>2, <1>4
  <2> QED
    BY <2>1, <2>2, LeafIs
<1> QED
  BY <1>3, <1>4 DEF c

\* One half of the next theorem.
LEMMA ViewFromLeaves ==
  ASSUME NEW x, IsObject(x), IsTrim(x.doc), NEW y, IsObject(y),
         \A l : l \in Leaves(x.doc) /\ Compared(l[1]) => l \in Leaves(y.doc),
         NEW p \in DOMAIN CompareView(x)
  PROVE  p \in DOMAIN CompareView(y) /\ CompareView(y)[p] = CompareView(x)[p]
<1>1. /\ DOMAIN CompareView(y) = {<<"metadata">>} \cup {r \in DOMAIN y.doc : Compared(r)}
      /\ CompareView(y)[<<"metadata">>] = Map
      /\ \A r \in DOMAIN CompareView(y) : r # <<"metadata">> => CompareView(y)[r] = y.doc[r]
  BY DEF CompareView
<1>2. CASE p = <<"metadata">>
  BY <1>1, <1>2 DEF CompareView
<1>3. CASE p # <<"metadata">>
  <2>1. p \in DOMAIN x.doc /\ Compared(p) /\ CompareView(x)[p] = x.doc[p]
    BY <1>3 DEF CompareView
  <2>2. PICK q \in DOMAIN x.doc : Begins(p, q) /\ x.doc[q] # Map
    BY <2>1 DEF IsTrim
  <2>3. p \in Paths /\ q \in Paths
    BY <2>1, <2>2, InDocument DEF IsObject
  <2>4. <<q, x.doc[q]>> \in Leaves(x.doc) /\ Compared(<<q, x.doc[q]>>[1])
    BY <2>1, <2>2, <2>3, ComparedBelow, LeafOf
  <2>5. <<q, x.doc[q]>> \in Leaves(y.doc)
    BY <2>4
  <2>6. q \in DOMAIN y.doc /\ y.doc[q] = x.doc[q]
    BY <2>5, LeafOf, Zenon
  <2>7. p \in DOMAIN y.doc /\ y.doc[p] = x.doc[p]
    <3>1. CASE p = q
      BY <3>1, <2>6
    <3>2. CASE p # q
      <4>1. p \in DOMAIN x.doc /\ x.doc[p] = Map
        BY <3>2, <2>2, <2>3, Above DEF IsObject
      <4>2. p \in DOMAIN y.doc /\ y.doc[p] = Map
        BY <3>2, <2>2, <2>3, <2>6, Above DEF IsObject
      <4> QED
        BY <4>1, <4>2
    <3> QED
      BY <3>1, <3>2
  <2> QED
    BY <2>1, <2>7, <1>1, <1>3
<1> QED
  BY <1>2, <1>3

\* Two objects have the same view if and only if they mean the same of what is
\* compared, whatever maps are left empty and whatever noise they hold: reducing
\* sanitized documents to views, as driftBetween does, neither hides a difference
\* nor makes one.
THEOREM ViewsAreMeaning ==
  ASSUME NEW a, IsObject(a), NEW b, IsObject(b)
  PROVE  SameView(a, b) <=> ComparedMeaning(a) = ComparedMeaning(b)
<1> DEFINE x == SanitizeObject(a)
           y == SanitizeObject(b)
<1>1. /\ IsObject(x) /\ IsTrim(x.doc) /\ Leaves(x.doc) = Meaning(a)
      /\ IsObject(y) /\ IsTrim(y.doc) /\ Leaves(y.doc) = Meaning(b)
  BY Sanitized
<1>2. SameView(a, b) <=> CompareView(x) = CompareView(y)
  BY DEF SameView
<1> HIDE DEF x, y
<1>3. ASSUME CompareView(x) = CompareView(y) PROVE ComparedMeaning(a) = ComparedMeaning(b)
  <2>1. \A l : l \in Leaves(x.doc) /\ Compared(l[1]) <=> l \in Leaves(y.doc) /\ Compared(l[1])
    BY <1>1, <1>3, ViewLeaves
  <2> QED
    BY <2>1, <1>1 DEF ComparedMeaning
<1>4. ASSUME ComparedMeaning(a) = ComparedMeaning(b) PROVE CompareView(x) = CompareView(y)
  <2>1. \A l : Compared(l[1]) => (l \in Leaves(x.doc) <=> l \in Leaves(y.doc))
    BY <1>1, <1>4 DEF ComparedMeaning
  <2>2. \A p \in DOMAIN CompareView(x) : p \in DOMAIN CompareView(y) /\ CompareView(y)[p] = CompareView(x)[p]
    BY <1>1, <2>1, ViewFromLeaves
  <2>3. \A p \in DOMAIN CompareView(y) : p \in DOMAIN CompareView(x)
    BY <1>1, <2>1, ViewFromLeaves
  <2>4. /\ CompareView(x) = [p \in DOMAIN CompareView(x) |-> CompareView(x)[p]]
        /\ CompareView(y) = [p \in DOMAIN CompareView(y) |-> CompareView(y)[p]]
    BY DEF CompareView
  <2> QED
    BY <2>2, <2>3, <2>4
<1> QED
  BY <1>2, <1>3, <1>4

------------------------------------------------------------------------------
\* What an API server makes of a document.

LEMMA MergeDocument ==
  ASSUME NEW x, IsDocument(x), NEW y, IsDocument(y)
  PROVE  IsDocument(Merge(x, y))
<1> DEFINE m == Merge(x, y)
<1>1. /\ DOMAIN m = DOMAIN y \cup {p \in DOMAIN x : \A q \in DOMAIN y : Begins(q, p) => y[q] = Map}
      /\ \A p \in DOMAIN m : m[p] = IF p \in DOMAIN y THEN y[p] ELSE x[p]
      /\ m = [p \in DOMAIN m |-> IF p \in DOMAIN y THEN y[p] ELSE x[p]]
  BY DEF Merge
<1> HIDE DEF m
<1>2. DOMAIN m \in SUBSET Paths /\ m \in [DOMAIN m -> Scalars \cup {Map}]
  <2>1. \A p \in DOMAIN m : p \in Paths /\ m[p] \in Scalars \cup {Map}
    BY <1>1, InDocument
  <2> QED
    BY <1>1, <2>1
<1>3. ASSUME NEW p \in DOMAIN m, NEW r \in Paths, Begins(r, p), r # p
      PROVE  r \in DOMAIN m /\ m[r] = Map
  <2>1. CASE p \in DOMAIN y
    BY <1>1, <1>3, <2>1, Above
  <2>2. CASE p \notin DOMAIN y
    <3>1. p \in DOMAIN x /\ p \in Paths /\ \A q \in DOMAIN y : Begins(q, p) => y[q] = Map
      BY <1>1, <2>2, InDocument
    <3>2. r \in DOMAIN x /\ x[r] = Map
      BY <1>3, <3>1, Above
    <3>3. ASSUME NEW q \in DOMAIN y, Begins(q, r) PROVE y[q] = Map
      <4>1. q \in Seq(Keys) /\ r \in Seq(Keys) /\ p \in Seq(Keys)
        BY <3>1, InDocument DEF Paths
      <4>2. Begins(q, p)
        BY <4>1, <3>3, <1>3, BeginsTransitive
      <4> QED
        BY <4>2, <3>1
    <3>4. r \in DOMAIN y => y[r] = Map
      BY <3>3, Lengths
    <3> QED
      BY <1>1, <3>2, <3>3, <3>4
  <2> QED
    BY <2>1, <2>2
<1>4. IsFiniteSet(DOMAIN m)
  <2>1. IsFiniteSet(DOMAIN x \cup DOMAIN y)
    BY FinitelyManyNodes, FS_Union
  <2> QED
    BY <2>1, <1>1, FS_Subset
<1> QED
  BY <1>2, <1>3, <1>4, Documents DEF m

\* A leaf of a merged document is one of either; whether one of the lower document
\* survives depends on the upper one alone.
LEMMA MergeLeaves ==
  ASSUME NEW x, NEW y, NEW l
  PROVE  /\ l \in Leaves(Merge(x, y)) => l \in Leaves(x) \cup Leaves(y)
         /\ l \in Leaves(x) =>
              (l \in Leaves(Merge(x, y)) <=>
                 IF l[1] \in DOMAIN y THEN y[l[1]] = l[2]
                 ELSE \A q \in DOMAIN y : Begins(q, l[1]) => y[q] = Map)
         /\ l \in Leaves(y) => l \in Leaves(Merge(x, y))
<1> DEFINE m == Merge(x, y)
<1>1. /\ DOMAIN m = DOMAIN y \cup {p \in DOMAIN x : \A q \in DOMAIN y : Begins(q, p) => y[q] = Map}
      /\ \A p \in DOMAIN m : m[p] = IF p \in DOMAIN y THEN y[p] ELSE x[p]
  BY DEF Merge
<1>2. m = Merge(x, y)
  OBVIOUS
<1> HIDE DEF m
<1>3. l \in Leaves(m) => l \in Leaves(x) \cup Leaves(y)
  BY <1>1, LeafIs
<1>4. ASSUME l \in Leaves(x)
      PROVE  l \in Leaves(m) <=> IF l[1] \in DOMAIN y THEN y[l[1]] = l[2]
                                 ELSE \A q \in DOMAIN y : Begins(q, l[1]) => y[q] = Map
  BY <1>1, <1>4, LeafIs
<1>5. l \in Leaves(y) => l \in Leaves(m)
  BY <1>1, LeafIs
<1> QED
  BY <1>2, <1>3, <1>4, <1>5

LEMMA ServedObject ==
  ASSUME NEW o, IsObject(o), IsDocument(ServerSets[o.kind]), IsDocument(Defaults[o.kind])
  PROVE  /\ IsObject(Served(o)) /\ Served(o).kind = o.kind
         /\ Served(o).doc = Merge(Merge(Defaults[o.kind], o.doc), ServerSets[o.kind])
<1> DEFINE doc == Merge(Merge(Defaults[o.kind], o.doc), ServerSets[o.kind])
<1>1. IsDocument(doc)
  BY MergeDocument DEF IsObject
<1>2. Served(o) = [o EXCEPT !.doc = doc]
  BY DEF Served
<1> HIDE DEF doc
<1>3. Served(o) = [kind |-> o.kind, doc |-> doc]
  BY <1>2 DEF IsObject
<1> QED
  BY <1>1, <1>3 DEF IsObject, doc

------------------------------------------------------------------------------
\* Type correctness, and where what is stored and deployed has come from.

\* What stands in a place that may be empty is an object of the kind of the resource.
Fits(o) == o # NoObject => IsObject(o) /\ o.kind = source.kind

\* The scraped manifest and the copy are sanitized objects, of the source cluster
\* and of an operator; the live object that is ours is what the server made of ours.
Origins ==
  /\ scraped # NoObject => \E o \in Objects : o.kind = source.kind /\ scraped = SanitizeObject(o)
  /\ copy # NoObject => \E o \in Edits : o.kind = source.kind /\ copy = SanitizeObject(o)
  /\ ours # NoObject => \E o \in Objects \cup Edits :
       o.kind = source.kind /\ ours = SanitizeObject(o) /\ live = Served(ours)

Fit == Fits(scraped) /\ Fits(copy) /\ Fits(live) /\ Fits(ours)

ManifestsInv ==
  /\ source \in Objects
  /\ Fit
  /\ copy # NoObject => scraped # NoObject /\ copy # scraped
  /\ checked \in BOOLEAN
  /\ ~checked => warnings = {}
  /\ Origins

LEMMA InvIsTyped == ManifestsInv => TypeOK
  BY DEF ManifestsInv, Fit, Fits, TypeOK

LEMMA KindOfObject ==
  ASSUME NEW o \in Objects \cup Edits
  PROVE  /\ IsObject(o) /\ IsObject(SanitizeObject(o)) /\ SanitizeObject(o).kind = o.kind
         /\ IsDocument(ServerSets[o.kind]) /\ IsDocument(Defaults[o.kind])
         /\ SanitizeObject(SanitizeObject(o)) = SanitizeObject(o)
<1>1. IsObject(o) /\ IsDocument(ServerSets[o.kind]) /\ IsDocument(Defaults[o.kind])
  BY ManifestsAssumption DEF ManifestsAssumption
<1> QED
  BY <1>1, Sanitized, SanitizedIsClean

\* The manifest a deploy reads.
LEMMA ViewIsClean ==
  ASSUME ManifestsInv, scraped # NoObject
  PROVE  \E o \in Objects \cup Edits : o.kind = source.kind /\ View = SanitizeObject(o)
  BY DEF ManifestsInv, Origins, View

LEMMA ManifestsInit == ~IsObject(NoObject) /\ Init => ManifestsInv
<1> SUFFICES ASSUME ~IsObject(NoObject), Init PROVE ManifestsInv
  OBVIOUS
<1>1. live # NoObject => live \in Objects /\ live.kind = source.kind
  BY DEF Init
<1>2. Fits(live)
  BY <1>1, KindOfObject DEF Fits
<1> QED
  BY <1>2 DEF Init, ManifestsInv, Fit, Fits, Origins

LEMMA ScrapeStep ==
  ASSUME ~IsObject(NoObject), ManifestsInv, Scrape
  PROVE  ManifestsInv'
<1> DEFINE cleaned == SanitizeObject(source)
<1>1. IsObject(cleaned) /\ cleaned.kind = source.kind /\ cleaned # NoObject /\ source \in Objects
  BY KindOfObject DEF ManifestsInv
<1>2. /\ scraped' = cleaned /\ copy' = IF copy = cleaned THEN NoObject ELSE copy
      /\ UNCHANGED <<source, live, ours>>
  BY DEF Scrape
<1>3. checked' = (copy' = NoObject) /\ warnings' = WarningsAfterScrape(source, copy' # NoObject)
  BY DEF Scrape
<1>4. \E o \in Objects : o.kind = source.kind /\ cleaned = SanitizeObject(o)
  BY <1>1
<1> HIDE DEF cleaned
<1>5. Fit'
  BY <1>1, <1>2 DEF ManifestsInv, Fit, Fits
<1>6. Origins'
  BY <1>2, <1>4 DEF ManifestsInv, Origins
<1>7. checked' \in BOOLEAN /\ (~checked' => warnings' = {})
  BY <1>3 DEF WarningsAfterScrape
<1> QED
  BY <1>1, <1>2, <1>5, <1>6, <1>7 DEF ManifestsInv

LEMMA UpdateStep ==
  ASSUME ~IsObject(NoObject), ManifestsInv,
         NEW o \in Edits, o.kind = source.kind, UpdateResource(o)
  PROVE  ManifestsInv'
<1> DEFINE cleaned == SanitizeObject(o)
<1>1. IsObject(cleaned) /\ cleaned.kind = source.kind /\ cleaned # NoObject
  BY KindOfObject
<1>2. /\ scraped # NoObject /\ copy' = IF cleaned = scraped THEN NoObject ELSE cleaned
      /\ checked' = TRUE /\ UNCHANGED <<source, scraped, live, ours>>
  BY DEF UpdateResource
<1>3. \E e \in Edits : e.kind = source.kind /\ cleaned = SanitizeObject(e)
  OBVIOUS
<1> HIDE DEF cleaned
<1>4. Fit'
  BY <1>1, <1>2 DEF ManifestsInv, Fit, Fits
<1>5. Origins'
  BY <1>2, <1>3 DEF ManifestsInv, Origins
<1> QED
  BY <1>1, <1>2, <1>4, <1>5 DEF ManifestsInv

LEMMA DeployStep ==
  ASSUME ~IsObject(NoObject), ManifestsInv, Deploy
  PROVE  ManifestsInv'
<1>1. scraped # NoObject /\ UNCHANGED <<source, scraped, copy, warnings, checked>>
  BY DEF Deploy
<1>2. PICK o \in Objects \cup Edits : o.kind = source.kind /\ View = SanitizeObject(o)
  BY <1>1, ViewIsClean
<1>3. PICK v : v = View
  OBVIOUS
<1>4. /\ IsObject(v) /\ v.kind = source.kind /\ v # NoObject /\ SanitizeObject(v) = v
      /\ IsDocument(ServerSets[source.kind]) /\ IsDocument(Defaults[source.kind])
  BY <1>2, <1>3, KindOfObject
<1>5. IF live = NoObject \/ ours # NoObject
        THEN live' = Served(v) /\ ours' = v
        ELSE live' = [live EXCEPT !.doc = Merge(live.doc, v.doc)] /\ ours' = NoObject
  BY <1>3, <1>4 DEF Deploy
<1>6. CASE live = NoObject \/ ours # NoObject
  <2>1. live' = Served(v) /\ ours' = v
    BY <1>5, <1>6
  <2>2. IsObject(Served(v)) /\ Served(v).kind = source.kind
    BY <1>4, ServedObject
  <2>3. Fit'
    BY <1>1, <1>4, <2>1, <2>2 DEF ManifestsInv, Fit, Fits
  <2>4. Origins'
    BY <1>1, <1>2, <1>3, <2>1 DEF ManifestsInv, Origins
  <2> QED
    BY <1>1, <2>3, <2>4 DEF ManifestsInv
<1>7. CASE live # NoObject /\ ours = NoObject
  <2>1. live' = [live EXCEPT !.doc = Merge(live.doc, v.doc)] /\ ours' = NoObject
    BY <1>5, <1>7
  <2>2. IsObject(live) /\ live.kind = source.kind
    BY <1>7 DEF ManifestsInv, Fit, Fits
  <2>3. IsDocument(Merge(live.doc, v.doc))
    BY <1>4, <2>2, MergeDocument DEF IsObject
  <2>4. live' = [kind |-> live.kind, doc |-> Merge(live.doc, v.doc)]
    BY <2>1, <2>2 DEF IsObject
  <2>5. IsObject(live') /\ live'.kind = source.kind
    BY <2>2, <2>3, <2>4 DEF IsObject
  <2>6. Fit'
    BY <1>1, <2>1, <2>5 DEF ManifestsInv, Fit, Fits
  <2>7. Origins'
    BY <1>1, <2>1 DEF ManifestsInv, Origins
  <2> QED
    BY <1>1, <2>6, <2>7 DEF ManifestsInv
<1> QED
  BY <1>6, <1>7

LEMMA OtherSteps ==
  ASSUME ManifestsInv, DiscardEdit \/ EnsureWarnings \/ SourceChanges \/ DRChanges \/ UNCHANGED vars
  PROVE  ManifestsInv'
<1>1. CASE DiscardEdit
  BY <1>1 DEF DiscardEdit, ManifestsInv, Fit, Fits, Origins
<1>2. CASE EnsureWarnings
  BY <1>2 DEF EnsureWarnings, ManifestsInv, Fit, Fits, Origins
<1>3. CASE SourceChanges
  <2>1. source' \in Objects /\ source'.kind = source.kind
        /\ UNCHANGED <<scraped, copy, warnings, checked, live, ours>>
    BY <1>3 DEF SourceChanges
  <2>2. Fit' /\ Origins'
    BY <2>1 DEF ManifestsInv, Fit, Fits, Origins
  <2> QED
    BY <2>1, <2>2 DEF ManifestsInv
<1>4. CASE DRChanges
  <2>1. PICK o \in Objects \cup {NoObject} : (o # NoObject => o.kind = source.kind) /\ live' = o
    BY <1>4 DEF DRChanges
  <2>2. ours' = NoObject /\ UNCHANGED <<source, scraped, copy, warnings, checked>>
    BY <1>4 DEF DRChanges
  <2>3. Fits(live)'
    BY <2>1, <2>2, KindOfObject DEF Fits
  <2>4. Fit' /\ Origins'
    BY <2>2, <2>3 DEF ManifestsInv, Fit, Fits, Origins
  <2> QED
    BY <2>2, <2>4 DEF ManifestsInv
<1>5. CASE UNCHANGED vars
  BY <1>5 DEF vars, ManifestsInv, Fit, Fits, Origins
<1> QED
  BY <1>1, <1>2, <1>3, <1>4, <1>5

LEMMA ManifestsStep ==
  ~IsObject(NoObject) /\ ManifestsInv /\ [Next]_vars => ManifestsInv'
<1> SUFFICES ASSUME ~IsObject(NoObject), ManifestsInv, [Next]_vars PROVE ManifestsInv'
  OBVIOUS
<1>1. CASE Scrape
  BY <1>1, ScrapeStep
<1>2. CASE \E o \in Edits : o.kind = source.kind /\ UpdateResource(o)
  BY <1>2, UpdateStep
<1>3. CASE Deploy
  BY <1>3, DeployStep
<1>4. CASE DiscardEdit \/ EnsureWarnings \/ SourceChanges \/ DRChanges \/ UNCHANGED vars
  BY <1>4, OtherSteps
<1> QED
  BY <1>1, <1>2, <1>3, <1>4 DEF Next

LEMMA ManifestsInvariant == ASSUME ~IsObject(NoObject) PROVE Spec => []ManifestsInv
<1>1. Init => ManifestsInv
  BY ManifestsInit
<1>2. ManifestsInv /\ [Next]_vars => ManifestsInv'
  BY ManifestsStep
<1> QED
  BY <1>1, <1>2, PTL DEF Spec

\* Whatever is stored and whatever is live is an object of the kind of the resource,
\* a copy is kept only beside a manifest it differs from, and warnings are recorded
\* only for a manifest that was checked.
THEOREM ManifestsTyping == ASSUME ~IsObject(NoObject) PROVE Spec => []TypeOK
<1>1. ManifestsInv => TypeOK
  BY InvIsTyped
<1> QED
  BY <1>1, ManifestsInvariant, PTL

\* SanitizeObject removes the noise of every object it is given and no leaf more.
THEOREM KeepsMeaning == ASSUME ~IsObject(NoObject) PROVE Spec => []SanitizingKeepsMeaning
<1>1. ManifestsInv => SanitizingKeepsMeaning
  <2> SUFFICES ASSUME ManifestsInv, NEW o \in {source, live} \ {NoObject}
               PROVE  Leaves(SanitizeObject(o).doc) = Meaning(o)
    BY DEF SanitizingKeepsMeaning
  <2>1. IsObject(o)
    BY KindOfObject DEF ManifestsInv, Fit, Fits
  <2> QED
    BY <2>1, Sanitized
<1> QED
  BY <1>1, ManifestsInvariant, PTL

\* What SaveResource and SaveEdit are given is not changed by sanitizing it again, as
\* the editor, the deployer and the comparator do.
THEOREM StoredStaysClean == ASSUME ~IsObject(NoObject) PROVE Spec => []StoredIsClean
<1>1. ManifestsInv => StoredIsClean
  <2> SUFFICES ASSUME ManifestsInv, NEW o \in {scraped, copy} \ {NoObject}
               PROVE  SanitizeObject(o) = o
    BY DEF StoredIsClean
  <2>1. \E e \in Objects \cup Edits : o = SanitizeObject(e)
    BY DEF ManifestsInv, Origins
  <2> QED
    BY <2>1, KindOfObject
<1> QED
  BY <1>1, ManifestsInvariant, PTL

------------------------------------------------------------------------------
\* A deployed manifest compares as the same.

\* What an API server sets in an object is noise or is not compared, and it is set
\* beside what is deployed, never in its place.
ServerSetsNoise ==
  \A o \in Objects \cup Edits :
    LET set == ServerSets[o.kind]
        clean == SanitizeObject(o).doc
    IN /\ \A l \in Leaves(set) : IsNoise(o.kind, l) \/ ~Compared(l[1])
       /\ Leaves(clean) \subseteq Leaves(Merge(clean, set))

\* What it fills in where something is left out is not among what is sanitized away.
DefaultsStay ==
  \A o \in Objects :
    Leaves(Merge(Defaults[o.kind], SanitizeObject(o).doc)) \subseteq Leaves(SanitizeObject(o).doc)

LEMMA ServedMeansTheSame ==
  ASSUME ServerSetsNoise, NEW o \in Objects \cup Edits, NEW v, v = SanitizeObject(o),
         Leaves(Merge(Defaults[v.kind], v.doc)) \subseteq Leaves(v.doc)
  PROVE  IsObject(Served(v)) /\ ComparedMeaning(v) = ComparedMeaning(Served(v))
<1> DEFINE set == ServerSets[o.kind]
           filled == Merge(Defaults[o.kind], v.doc)
           served == Merge(filled, set)
<1>1. IsObject(v) /\ v.kind = o.kind /\ IsDocument(ServerSets[v.kind]) /\ IsDocument(Defaults[v.kind])
  BY KindOfObject
<1>2. Leaves(v.doc) = Meaning(v)
  <2>1. Leaves(v.doc) = Meaning(o)
    BY Sanitized, KindOfObject
  <2> QED
    BY <1>1, <2>1 DEF Meaning
<1>3. IsObject(Served(v)) /\ Served(v).kind = o.kind /\ Served(v).doc = served
  BY <1>1, ServedObject
<1>4. \A l \in Leaves(set) : IsNoise(o.kind, l) \/ ~Compared(l[1])
  BY DEF ServerSetsNoise
<1>5. Leaves(v.doc) \subseteq Leaves(Merge(v.doc, set))
  BY DEF ServerSetsNoise
<1>6. Leaves(filled) \subseteq Leaves(v.doc)
  BY <1>1
<1> HIDE DEF set
<1>7. \A l \in Leaves(v.doc) : l \in Leaves(filled)
  BY MergeLeaves, Zenon
<1> HIDE DEF filled
<1>8. ASSUME NEW l \in Leaves(v.doc) PROVE l \in Leaves(served)
  <2>1. l \in Leaves(Merge(v.doc, set)) /\ l \in Leaves(filled)
    BY <1>5, <1>7
  <2> QED
    BY <2>1, MergeLeaves
<1>9. ASSUME NEW l \in Leaves(served) PROVE l \in Leaves(v.doc) \/ l \in Leaves(set)
  BY <1>6, MergeLeaves
<1> HIDE DEF served
<1>10. ComparedMeaning(v) = {l \in Leaves(v.doc) : Compared(l[1])}
  BY <1>2 DEF ComparedMeaning
<1>11. ComparedMeaning(Served(v)) = {l \in Leaves(served) : ~IsNoise(o.kind, l) /\ Compared(l[1])}
  BY <1>3 DEF ComparedMeaning, Meaning
<1>12. \A l \in Leaves(v.doc) : ~IsNoise(o.kind, l)
  BY <1>1, <1>2 DEF Meaning
<1>13. ComparedMeaning(v) = ComparedMeaning(Served(v))
  BY <1>4, <1>8, <1>9, <1>10, <1>11, <1>12
<1> QED
  BY <1>3, <1>13

\* A manifest DrKate has deployed is compared as synced until somebody writes the
\* live object: driftBetween takes nothing a server adds for drift.
THEOREM DeployedCompares ==
  ASSUME ~IsObject(NoObject), ServerSetsNoise, DefaultsStay
  PROVE  Spec => []DeployedIsSynced
<1>1. ManifestsInv => DeployedIsSynced
  <2> SUFFICES ASSUME ManifestsInv, scraped # NoObject, ours = View,
                      copy = NoObject \/ HasDefaults(copy)
               PROVE  SameView(View, live)
    BY DEF DeployedIsSynced
  <2>1. PICK v : v = View
    OBVIOUS
  <2>2. PICK o \in Objects \cup Edits : /\ v = SanitizeObject(o)
                                        /\ copy = NoObject => o \in Objects
    BY <2>1 DEF ManifestsInv, Origins, View
  <2>3. IsObject(v) /\ v.kind = o.kind /\ v # NoObject
    BY <2>2, KindOfObject
  <2>4. live = Served(v)
    BY <2>1, <2>3 DEF ManifestsInv, Origins
  <2>5. Leaves(Merge(Defaults[v.kind], v.doc)) \subseteq Leaves(v.doc)
    <3>1. CASE copy = NoObject
      BY <3>1, <2>2, <2>3 DEF DefaultsStay
    <3>2. CASE copy # NoObject
      <4>1. v = copy
        BY <2>1, <3>2 DEF View
      <4>2. Merge(Defaults[v.kind], v.doc) = v.doc
        BY <3>2, <4>1 DEF HasDefaults
      <4> QED
        BY <4>2
    <3> QED
      BY <3>1, <3>2
  <2>6. IsObject(Served(v)) /\ ComparedMeaning(v) = ComparedMeaning(Served(v))
    BY <2>2, <2>5, ServedMeansTheSame
  <2>7. SameView(v, Served(v))
    BY <2>3, <2>6, ViewsAreMeaning
  <2> QED
    BY <2>1, <2>4, <2>7
<1> QED
  BY <1>1, ManifestsInvariant, PTL

------------------------------------------------------------------------------
\* Warnings.

LEMMA NoiseIsBelowMetadata ==
  ASSUME NEW p \in Paths, NEW meta \in Seq(Keys), NoiseInMetadata(p, meta)
  PROVE  Begins(meta, p)
<1>1. ASSUME NEW k \in Keys, NEW keys, Through(p, Append(meta, k), keys) PROVE Begins(meta, p)
  <2>1. Begins(Append(meta, k), p)
    BY <1>1 DEF Through
  <2>2. Through(p, meta, {k})
    BY <2>1, ThroughOne, Zenon DEF Paths
  <2> QED
    BY <2>2 DEF Through
<1>2. "labels" \in Keys /\ "annotations" \in Keys
  BY SanitizerAssumption DEF SanitizerAssumption
<1> QED
  BY <1>1, <1>2 DEF NoiseInMetadata, Through

\* The fields warnings are read from.
WarningPaths == VolumePaths \cup {<<"spec", "storageClassName">>, <<"spec", "volumeClaimTemplates">>}

LEMMA WarningPathsAreNoNoise ==
  ASSUME NEW p \in WarningPaths, NEW kind, NEW v
  PROVE  p \in Paths /\ ~IsNoise(kind, <<p, v>>)
<1>1. p \in Paths
  <2>1. /\ "spec" \in Keys /\ "template" \in Keys /\ "jobTemplate" \in Keys /\ "volumes" \in Keys
        /\ "storageClassName" \in Keys /\ "volumeClaimTemplates" \in Keys
    BY SanitizerAssumption, WarningsAssumption DEF SanitizerAssumption, WarningsAssumption
  <2>2. <<"spec", "volumes">> \in Paths
    BY <2>1, Tuples, Zenon DEF Paths
  <2>3. <<"spec", "template", "spec", "volumes">> \in Paths
    BY <2>1, LongTuples, Zenon DEF Paths
  <2>4. <<"spec", "jobTemplate", "spec", "template", "spec", "volumes">> \in Paths
    BY <2>1, LongTuples, Zenon DEF Paths
  <2>5. <<"spec", "storageClassName">> \in Paths /\ <<"spec", "volumeClaimTemplates">> \in Paths
    BY <2>1, Tuples, Zenon DEF Paths
  <2> QED
    BY <2>2, <2>3, <2>4, <2>5, Zenon DEF WarningPaths, VolumePaths
<1>2. /\ p[1] = "spec" /\ Len(p) >= 2
      /\ p[2] \in {"volumes", "template", "jobTemplate", "storageClassName", "volumeClaimTemplates"}
      /\ p[2] = "template" => p[3] = "spec"
  BY DEF WarningPaths, VolumePaths
<1>3. ~Begins(<<"metadata">>, p) /\ ~Begins(TemplateMetadata, p)
  BY <1>2 DEF Begins, TemplateMetadata
<1>4. ~NoiseInMetadata(p, <<"metadata">>) /\ ~NoiseInMetadata(p, TemplateMetadata)
  BY <1>1, <1>3, NoiseIsBelowMetadata, TemplateMetadataPath, Zenon
<1>5. ~Through(p, <<"spec">>, SpecNoise(kind))
  BY <1>2 DEF Through, SpecNoise
<1>6. ~Through(p, <<>>, {"status"}) /\ ~Through(p, <<>>, {"secrets"})
  BY <1>2 DEF Through
<1>7. p # <<"type">>
  BY <1>2
<1> QED
  BY <1>1, <1>4, <1>5, <1>6, <1>7 DEF IsNoise

LEMMA FieldsKept ==
  ASSUME NEW o, IsObject(o), NEW p, \A v : ~IsNoise(o.kind, <<p, v>>)
  PROVE  /\ String(SanitizeObject(o).doc, p) = String(o.doc, p)
         /\ ListAt(SanitizeObject(o).doc, p) = ListAt(o.doc, p)
<1> DEFINE d == SanitizeObject(o).doc
<1>1. Leaves(d) = Meaning(o)
  BY Sanitized
<1> HIDE DEF d
<1>2. \A v : <<p, v>> \in Leaves(d) <=> <<p, v>> \in Leaves(o.doc)
  BY <1>1 DEF Meaning
<1>3. \A v : (p \in DOMAIN d /\ d[p] = v /\ v # Map) <=> (p \in DOMAIN o.doc /\ o.doc[p] = v /\ v # Map)
  BY <1>2, LeafOf, Zenon
<1>4. String(d, p) = String(o.doc, p)
  BY <1>3 DEF String
<1>5. Map \notin DOMAIN Items
  BY SanitizerAssumption, WarningsAssumption DEF SanitizerAssumption, WarningsAssumption
<1>6. ListAt(d, p) = ListAt(o.doc, p)
  BY <1>3, <1>5 DEF ListAt
<1> QED
  BY <1>4, <1>6 DEF d

\* Sanitizing adds no node.
LEMMA NodesRemoved ==
  ASSUME NEW o, IsObject(o), NEW p \in DOMAIN SanitizeObject(o).doc
  PROVE  p \in DOMAIN o.doc
<1> DEFINE d == SanitizeObject(o).doc
<1>1. IsDocument(d) /\ IsTrim(d) /\ Leaves(d) = Meaning(o) /\ IsDocument(o.doc)
  BY Sanitized DEF IsObject
<1>2. p \in DOMAIN d
  OBVIOUS
<1> HIDE DEF d
<1>3. PICK q \in DOMAIN d : Begins(p, q) /\ d[q] # Map
  BY <1>1, <1>2 DEF IsTrim
<1>4. <<q, d[q]>> \in Leaves(o.doc)
  BY <1>1, <1>3, LeafOf DEF Meaning
<1>5. q \in DOMAIN o.doc
  BY <1>4, LeafOf, Zenon
<1>6. p \in Paths
  BY <1>1, <1>2, InDocument
<1> QED
  BY <1>1, <1>3, <1>5, <1>6, Above

LEMMA MetadataAppended ==
  ASSUME NEW k \in Keys
  PROVE  Len(Append(<<"metadata">>, k)) = 2 /\ Append(<<"metadata">>, k)[1] = "metadata"
         /\ Append(<<"metadata">>, k)[2] = k
<1>1. PICK m \in Seq(Keys) : m = <<"metadata">>
  BY TemplateMetadataPath
<1>2. Len(m) = 1 /\ m[1] = "metadata"
  BY <1>1
<1>3. Len(Append(m, k)) = Len(m) + 1 /\ Append(m, k)[Len(m) + 1] = k
      /\ \A i \in 1..Len(m) : Append(m, k)[i] = m[i]
  BY Appended
<1> QED
  BY <1>1, <1>2, <1>3

\* An annotation is noise if and only if its key is one that is stripped.
LEMMA AnnotationNoise ==
  ASSUME NEW kind, NEW k \in Keys, NEW v
  PROVE  IsNoise(kind, <<<<"metadata", "annotations", k>>, v>>) <=> k \in StrippedAnnotations
<1> DEFINE p == <<"metadata", "annotations", k>>
<1>1. Len(p) = 3 /\ p[1] = "metadata" /\ p[2] = "annotations" /\ p[3] = k
  OBVIOUS
<1>2. "labels" \in Keys /\ "annotations" \in Keys /\ "metadata" \in Keys
  BY SanitizerAssumption DEF SanitizerAssumption
<1>3. p \in Paths
  BY <1>2, Tuples, Zenon DEF Paths
<1>4. p # <<"type">>
  BY <1>1
<1> HIDE DEF p
<1>5. PICK a : a = Append(<<"metadata">>, "annotations")
  OBVIOUS
<1>6. Len(a) = 2 /\ a[1] = "metadata" /\ a[2] = "annotations"
  BY <1>2, <1>5, MetadataAppended, Zenon
<1>7. PICK b : b = Append(<<"metadata">>, "labels")
  OBVIOUS
<1>8. Len(b) = 2 /\ b[1] = "metadata" /\ b[2] = "labels"
  BY <1>2, <1>7, MetadataAppended, Zenon
<1>9. ~Through(p, b, NoiseLabels)
  BY <1>1, <1>8 DEF Through, Begins
<1>10. Through(p, a, StrippedAnnotations) <=> k \in StrippedAnnotations
  BY <1>1, <1>6 DEF Through, Begins
<1>11. ~Through(p, <<"metadata">>, metadataFieldsStrip)
  BY <1>1 DEF Through, metadataFieldsStrip
<1>12. NoiseInMetadata(p, <<"metadata">>) <=> k \in StrippedAnnotations
  BY <1>5, <1>7, <1>9, <1>10, <1>11 DEF NoiseInMetadata
<1>13. ~NoiseInMetadata(p, TemplateMetadata)
  <2>1. ~Begins(TemplateMetadata, p)
    BY <1>1 DEF Begins, TemplateMetadata
  <2> QED
    BY <1>3, <2>1, NoiseIsBelowMetadata, TemplateMetadataPath, Zenon
<1>14. /\ ~Through(p, <<>>, {"status"}) /\ ~Through(p, <<>>, {"secrets"})
       /\ ~Through(p, <<"spec">>, SpecNoise(kind))
  BY <1>1 DEF Through, Begins
<1>15. IsNoise(kind, <<p, v>>) <=> k \in StrippedAnnotations
  BY <1>4, <1>12, <1>13, <1>14 DEF IsNoise
<1> QED
  BY <1>15 DEF p

\* No key is both stripped and read as that of an ingress controller.
FamiliesStay == DOMAIN Family \cap StrippedAnnotations = {}

LEMMA AnnotationsKept ==
  ASSUME FamiliesStay, NEW o, IsObject(o),
         \A k \in AnnotationsOf(o) : o.doc[<<"metadata", "annotations", k>>] # Map
  PROVE  AnnotationsOf(SanitizeObject(o)) \cap DOMAIN Family = AnnotationsOf(o) \cap DOMAIN Family
<1> DEFINE d == SanitizeObject(o).doc
<1>1. IsDocument(o.doc) /\ Leaves(d) = Meaning(o)
  BY Sanitized DEF IsObject
<1>2. \A p \in DOMAIN d : p \in DOMAIN o.doc
  BY NodesRemoved
<1>3. /\ AnnotationsOf(SanitizeObject(o))
           = {p[3] : p \in {q \in DOMAIN d : Len(q) = 3 /\ q[1] = "metadata" /\ q[2] = "annotations"}}
      /\ AnnotationsOf(o)
           = {p[3] : p \in {q \in DOMAIN o.doc : Len(q) = 3 /\ q[1] = "metadata" /\ q[2] = "annotations"}}
  BY DEF AnnotationsOf
<1> HIDE DEF d
<1>4. AnnotationsOf(SanitizeObject(o)) \subseteq AnnotationsOf(o)
  BY <1>2, <1>3
<1>5. ASSUME NEW k \in AnnotationsOf(o), k \in DOMAIN Family
      PROVE  k \in AnnotationsOf(SanitizeObject(o))
  <2>1. PICK p \in DOMAIN o.doc : Len(p) = 3 /\ p[1] = "metadata" /\ p[2] = "annotations" /\ p[3] = k
    BY <1>3
  <2>2. p \in Seq(Keys)
    BY <1>1, InDocument
  <2>3. k \in Keys /\ p = <<"metadata", "annotations", k>>
    <3>1. p[3] \in Keys /\ p = <<p[1], p[2], p[3]>>
      BY <2>1, <2>2, Triple, Zenon
    <3> QED
      BY <2>1, <3>1
  <2>4. <<p, o.doc[p]>> \in Leaves(o.doc)
    BY <2>1, <2>3, LeafOf
  <2>5. ~IsNoise(o.kind, <<p, o.doc[p]>>)
    BY <1>5, <2>3, AnnotationNoise DEF FamiliesStay
  <2>6. <<p, o.doc[p]>> \in Leaves(d)
    BY <1>1, <2>4, <2>5 DEF Meaning
  <2>7. p \in DOMAIN d
    BY <2>6, LeafOf, Zenon
  <2> QED
    BY <2>1, <2>7, <1>3
<1> QED
  BY <1>4, <1>5

\* The warnings that are not about an ingress class.
OtherWarnings(o) ==
  PvcWarnings(o) \cup VolumeWarnings(o) \cup ClaimTemplateWarnings(o)
  \cup {Warning("ingress", k, "controller kind") : k \in {o.kind} \cap ingressCRDKinds}
  \cup {Warning("ingress", Family[k], "annotations") : k \in AnnotationsOf(o) \cap DOMAIN Family}

LEMMA WarningsSplit ==
  ASSUME NEW o
  PROVE  /\ DetectWarnings(o) = OtherWarnings(o) \cup ClassWarnings(o)
         /\ \A w \in ClassWarnings(o) : IsClassWarning(w)
         /\ \A w \in OtherWarnings(o) : ~IsClassWarning(w)
<1>1. DetectWarnings(o) = OtherWarnings(o) \cup ClassWarnings(o)
  BY DEF DetectWarnings, OtherWarnings, IngressWarnings
<1>2. \A w \in ClassWarnings(o) : IsClassWarning(w)
  BY DEF ClassWarnings, IsClassWarning, Warning
<1>3. \A w \in PvcWarnings(o) : w.code = "storage"
  BY DEF PvcWarnings, Warning
<1>4. \A w \in VolumeWarnings(o) : w.code = "storage"
  BY DEF VolumeWarnings, Warning
<1>5. \A w \in ClaimTemplateWarnings(o) : w.code = "storage"
  BY DEF ClaimTemplateWarnings, Warning
<1>6. \A k \in ingressCRDKinds : Warning("ingress", k, "controller kind").subject # "Ingress"
  BY DEF Warning, ingressCRDKinds
<1>7. \A k \in DOMAIN Family : Warning("ingress", Family[k], "annotations").subject # "Ingress"
  BY WarningsAssumption DEF Warning, WarningsAssumption
<1>8. \A w \in OtherWarnings(o) : w.code = "storage" \/ w.subject # "Ingress"
  BY <1>3, <1>4, <1>5, <1>6, <1>7 DEF OtherWarnings
<1>9. \A w \in OtherWarnings(o) : ~IsClassWarning(w)
  BY <1>8 DEF IsClassWarning
<1> QED
  BY <1>1, <1>2, <1>9

LEMMA OtherWarningsKept ==
  ASSUME FamiliesStay, NEW o, IsObject(o),
         \A k \in AnnotationsOf(o) : o.doc[<<"metadata", "annotations", k>>] # Map
  PROVE  OtherWarnings(SanitizeObject(o)) = OtherWarnings(o)
<1> DEFINE c == SanitizeObject(o)
<1>1. c.kind = o.kind
  BY Sanitized
<1>2. AnnotationsOf(c) \cap DOMAIN Family = AnnotationsOf(o) \cap DOMAIN Family
  BY AnnotationsKept
<1>3. \A p \in WarningPaths : String(c.doc, p) = String(o.doc, p) /\ ListAt(c.doc, p) = ListAt(o.doc, p)
  BY WarningPathsAreNoNoise, FieldsKept
<1> HIDE DEF c
<1>4. PvcWarnings(c) = PvcWarnings(o)
  BY <1>1, <1>3 DEF PvcWarnings, WarningPaths
<1>5. VolumeWarnings(c) = VolumeWarnings(o)
  BY <1>3 DEF VolumeWarnings, WarningPaths
<1>6. ClaimTemplateWarnings(c) = ClaimTemplateWarnings(o)
  BY <1>3 DEF ClaimTemplateWarnings, WarningPaths
<1>7. OtherWarnings(c) = OtherWarnings(o)
  BY <1>1, <1>2, <1>4, <1>5, <1>6 DEF OtherWarnings
<1> QED
  BY <1>7 DEF c

\* A sanitized object names no ingress class.
LEMMA NoClassWarnings ==
  ASSUME NEW o, IsObject(o)
  PROVE  ClassWarnings(SanitizeObject(o)) = {}
<1> DEFINE c == SanitizeObject(o)
           class == <<"spec", "ingressClassName">>
           annotation == <<"metadata", "annotations", IngressClass>>
<1>1. c.kind = o.kind /\ Leaves(c.doc) = Meaning(o)
  BY Sanitized
<1>2. \A v : o.kind = "Ingress" => IsNoise(o.kind, <<class, v>>)
  BY DEF IsNoise, Through, Begins, SpecNoise
<1>3. \A v : IsNoise(o.kind, <<annotation, v>>)
  <2>1. IngressClass \in Keys /\ IngressClass \in StrippedAnnotations
    BY WarningsAssumption DEF WarningsAssumption, StrippedAnnotations
  <2> QED
    BY <2>1, AnnotationNoise
<1> HIDE DEF c, class, annotation
<1>4. ASSUME o.kind = "Ingress", NEW q \in {class, annotation} PROVE String(c.doc, q) = EmptyString
  <2>1. \A v : <<q, v>> \notin Leaves(c.doc)
    BY <1>1, <1>2, <1>3, <1>4 DEF Meaning
  <2>2. ~(q \in DOMAIN c.doc /\ c.doc[q] # Map)
    BY <2>1, LeafOf, Zenon
  <2> QED
    BY <2>2 DEF String
<1>5. ClassWarnings(c) = {}
  BY <1>1, <1>4 DEF ClassWarnings, class, annotation
<1> QED
  BY <1>5 DEF c

\* The recorded warnings after a step.
LEMMA WarningsStep ==
  ASSUME FamiliesStay, ~IsObject(NoObject), ManifestsInv, WarningsDescribeView, [Next]_vars
  PROVE  WarningsDescribeView'
<1> SUFFICES ASSUME scraped' # NoObject, checked'
             PROVE  {w \in warnings' : ~IsClassWarning(w)} = DetectWarnings(View')
  BY DEF WarningsDescribeView
<1>1. \A o \in Objects \cup Edits : DetectWarnings(SanitizeObject(o)) = OtherWarnings(SanitizeObject(o))
  BY KindOfObject, NoClassWarnings, WarningsSplit
<1>2. \A o : {w \in DetectWarnings(o) : ~IsClassWarning(w)} = OtherWarnings(o)
  BY WarningsSplit
<1>3. CASE Scrape
  <2>1. source \in Objects /\ SanitizeObject(source) # NoObject
    BY KindOfObject DEF ManifestsInv
  <2>2. copy' = NoObject /\ scraped' = SanitizeObject(source) /\ warnings' = DetectWarnings(source)
    BY <1>3 DEF Scrape, WarningsAfterScrape
  <2>3. View' = SanitizeObject(source)
    BY <2>2 DEF View
  <2>4. OtherWarnings(SanitizeObject(source)) = OtherWarnings(source)
    BY <2>1, OtherWarningsKept, ManifestsAssumption DEF ManifestsAssumption
  <2> QED
    BY <1>1, <1>2, <2>1, <2>2, <2>3, <2>4
<1>4. CASE \E o \in Edits : o.kind = source.kind /\ UpdateResource(o)
  <2>1. PICK o \in Edits : UpdateResource(o)
    BY <1>4
  <2>2. warnings' = DetectWarnings(SanitizeObject(o)) /\ scraped' = scraped
        /\ copy' = IF SanitizeObject(o) = scraped THEN NoObject ELSE SanitizeObject(o)
    BY <2>1 DEF UpdateResource
  <2>3. SanitizeObject(o) # NoObject
    BY KindOfObject
  <2>4. View' = SanitizeObject(o)
    BY <2>2, <2>3 DEF View
  <2> QED
    BY <1>1, <1>2, <2>2, <2>4
<1>5. CASE DiscardEdit
  BY <1>5 DEF DiscardEdit
<1>6. CASE EnsureWarnings
  <2>1. warnings' = DetectWarnings(View) /\ View' = View /\ scraped # NoObject
    BY <1>6 DEF EnsureWarnings, View
  <2>2. PICK o \in Objects \cup Edits : View = SanitizeObject(o)
    BY <2>1, ViewIsClean
  <2> QED
    BY <1>1, <1>2, <2>1, <2>2
<1>7. CASE UNCHANGED <<scraped, copy, warnings, checked>>
  BY <1>7 DEF WarningsDescribeView, View
<1>8. Deploy \/ SourceChanges \/ DRChanges \/ UNCHANGED vars => UNCHANGED <<scraped, copy, warnings, checked>>
  BY DEF Deploy, SourceChanges, DRChanges, vars
<1> QED
  BY <1>3, <1>4, <1>5, <1>6, <1>7, <1>8 DEF Next

\* The warnings of an index entry are those of the document a deploy would apply,
\* but for the notice of a stripped ingress class, whichever of a scrape, an edit, a
\* discard and a comparison recorded them, and from whichever document it read them.
THEOREM WarningsOfTheView ==
  ASSUME FamiliesStay, ~IsObject(NoObject)
  PROVE  Spec => []WarningsDescribeView
<1>1. Init => WarningsDescribeView
  BY DEF Init, WarningsDescribeView
<1>2. ManifestsInv /\ WarningsDescribeView /\ [Next]_vars => WarningsDescribeView'
  BY WarningsStep
<1> QED
  BY <1>1, <1>2, ManifestsInvariant, PTL DEF Spec

------------------------------------------------------------------------------
\* Induction and recursion over numbers, from the order being well-founded.

Less == {pair \in Nat \X Nat : pair[1] < pair[2]}

\* A set of numbers has a least one.
LEMMA Least ==
  ASSUME NEW T \in SUBSET Nat, T # {}
  PROVE  \E n \in T : \A m \in T : n <= m
<1>1. IsWellFoundedOn(Less, Nat)
  BY NatLessThanWellFounded DEF OpToRel, Less
<1>2. PICK n \in T : \A m \in T : ~(<<m, n>> \in Less)
  BY <1>1, WFMin
<1>3. ASSUME NEW m \in T PROVE n <= m
  <2>1. <<m, n>> \in Nat \X Nat /\ <<m, n>>[1] = m /\ <<m, n>>[2] = n
    OBVIOUS
  <2>2. ~(m < n)
    BY <1>2, <2>1 DEF Less
  <2> QED
    BY <2>2
<1> QED
  BY <1>3

\* A property is the set of the numbers that have it.
LEMMA Induction ==
  ASSUME NEW S, 0 \in S, \A n \in Nat : n \in S => n + 1 \in S
  PROVE  Nat \subseteq S
<1> SUFFICES ASSUME Nat \ S # {} PROVE FALSE
  OBVIOUS
<1>1. PICK n \in Nat \ S : \A m \in Nat \ S : n <= m
  BY Least
<1>2. n # 0 /\ n - 1 \in Nat /\ n - 1 \in S
  BY <1>1
<1> QED
  BY <1>1, <1>2

\* Up to any number, a function is found that is defined step by step.
LEMMA Recursion ==
  ASSUME NEW S, NEW a \in S, NEW N \in Nat, NEW f \in [1..N -> [S -> S]]
  PROVE  \E w \in [0..N -> S] : w[0] = a /\ \A n \in 1..N : w[n] = f[n][w[n - 1]]
<1> DEFINE Upto(w, n) == /\ w \in [0..n -> S]
                         /\ w[0] = a
                         /\ \A m \in 1..n : w[m] = f[m][w[m - 1]]
           T == {n \in Nat : n <= N => \E w : Upto(w, n)}
<1>1. 0 \in T
  <2> DEFINE w == [n \in 0..0 |-> a]
  <2>1. Upto(w, 0)
    OBVIOUS
  <2> QED
    BY <2>1, Zenon
<1>2. ASSUME NEW n \in Nat, n \in T PROVE n + 1 \in T
  <2> SUFFICES ASSUME n + 1 <= N PROVE \E w : Upto(w, n + 1)
    OBVIOUS
  <2>1. PICK w : Upto(w, n)
    BY <1>2
  <2> DEFINE r == [m \in 0..(n + 1) |-> IF m = n + 1 THEN f[n + 1][w[n]] ELSE w[m]]
  <2>2. f[n + 1][w[n]] \in S
    <3>1. w[n] \in S /\ n + 1 \in 1..N
      BY <2>1
    <3> QED
      BY <3>1
  <2>3. r \in [0..(n + 1) -> S]
    BY <2>1, <2>2
  <2>4. ASSUME NEW m \in 1..(n + 1) PROVE r[m] = f[m][r[m - 1]]
    <3>1. CASE m = n + 1
      <4>1. r[m] = f[n + 1][w[n]] /\ m - 1 = n /\ r[n] = w[n]
        BY <3>1
      <4> QED
        BY <4>1, <3>1
    <3>2. CASE m # n + 1
      <4>1. m \in 1..n /\ m - 1 \in 0..(n + 1) /\ m - 1 # n + 1
        BY <3>2
      <4>2. r[m] = w[m] /\ r[m - 1] = w[m - 1]
        BY <4>1
      <4> QED
        BY <2>1, <4>1, <4>2
    <3> QED
      BY <3>1, <3>2
  <2>5. r[0] = a
    BY <2>1
  <2> HIDE DEF r
  <2>6. Upto(r, n + 1)
    BY <2>3, <2>4, <2>5
  <2> QED
    BY <2>6, Zenon
<1> HIDE DEF T
<1>3. N \in T
  BY <1>1, <1>2, Induction
<1> QED
  BY <1>3 DEF T

------------------------------------------------------------------------------
\* The keys and the children of a node.

\* Sorting gives every key once.
LEMMA SortedIs ==
  ASSUME NEW keys
  PROVE  /\ Sorted(keys) \in Seq(Keys)
         /\ \A k : (\E i \in DOMAIN Sorted(keys) : Sorted(keys)[i] = k) <=> k \in Keys /\ k \in keys
         /\ \A i, j \in DOMAIN Sorted(keys) : Sorted(keys)[i] = Sorted(keys)[j] => i = j
<1> DEFINE N == Len(SortedKeys)
           IsSorting(w) == w = [n \in 0..N |->
             IF n = 0 THEN <<>>
             ELSE IF SortedKeys[n] \in keys THEN Append(w[n - 1], SortedKeys[n]) ELSE w[n - 1]]
           c == CHOOSE w : IsSorting(w)
<1>0. /\ N \in Nat /\ \A n \in 1..N : SortedKeys[n] \in Keys
      /\ DOMAIN SortedKeys = 1..N
      /\ \A k \in Keys : \E n \in 1..N : SortedKeys[n] = k
      /\ \A m, n \in 1..N : SortedKeys[m] = SortedKeys[n] => m = n
  BY DriftAssumption DEF DriftAssumption
<1>1. \E w : IsSorting(w)
  <2> DEFINE f == [n \in 1..N |-> [s \in Seq(Keys) |->
                     IF SortedKeys[n] \in keys THEN Append(s, SortedKeys[n]) ELSE s]]
  <2>1. \A n \in 1..N, s \in Seq(Keys) :
          (IF SortedKeys[n] \in keys THEN Append(s, SortedKeys[n]) ELSE s) \in Seq(Keys)
    BY <1>0
  <2>2. f \in [1..N -> [Seq(Keys) -> Seq(Keys)]]
    BY <2>1
  <2> HIDE DEF f
  <2>3. <<>> \in Seq(Keys)
    OBVIOUS
  <2>4. PICK w \in [0..N -> Seq(Keys)] : w[0] = <<>> /\ \A n \in 1..N : w[n] = f[n][w[n - 1]]
    <3> DEFINE S == Seq(Keys)
               a == <<>>
    <3>1. N \in Nat /\ a \in S /\ f \in [1..N -> [S -> S]]
      BY <1>0, <2>2, <2>3
    <3> HIDE DEF S, N, a
    <3>2. \E w \in [0..N -> S] : w[0] = a /\ \A n \in 1..N : w[n] = f[n][w[n - 1]]
      BY <3>1, Recursion
    <3> QED
      BY <3>2 DEF S, a
  <2>5. \A n \in 0..N : n = 0 \/ (n \in 1..N /\ n - 1 \in 0..N)
    BY <1>0
  <2>6. \A n \in 0..N : w[n] = IF n = 0 THEN <<>>
           ELSE IF SortedKeys[n] \in keys THEN Append(w[n - 1], SortedKeys[n]) ELSE w[n - 1]
    BY <2>4, <2>5 DEF f
  <2>7. IsSorting(w)
    BY <2>4, <2>6
  <2> QED
    BY <2>7, Zenon
<1>2. IsSorting(c)
  BY <1>1, Zenon
<1>3. Sorted(keys) = c[N]
  BY DEF Sorted
<1> HIDE DEF c
<1>4. /\ c[0] = <<>>
      /\ \A n \in 1..N : c[n] = IF SortedKeys[n] \in keys THEN Append(c[n - 1], SortedKeys[n]) ELSE c[n - 1]
  <2>1. 0 \in 0..N /\ \A n \in 1..N : n \in 0..N /\ n # 0
    BY <1>0
  <2> QED
    BY <1>2, <2>1
<1> HIDE DEF IsSorting
<1> DEFINE Sorts(s, n) ==
             /\ s \in Seq(Keys)
             /\ \A k : (\E i \in 1..Len(s) : s[i] = k) <=> (k \in keys /\ \E m \in 1..n : SortedKeys[m] = k)
             /\ \A i, j \in 1..Len(s) : s[i] = s[j] => i = j
           T == {n \in Nat : n <= N => Sorts(c[n], n)}
<1>5. 0 \in T
  <2>1. Sorts(<<>>, 0)
    <3>1. <<>> \in Seq(Keys) /\ Len(<<>>) = 0 /\ 1..0 = {}
      OBVIOUS
    <3> QED
      BY <3>1
  <2>2. c[0] = <<>>
    BY <1>4
  <2> HIDE DEF Sorts
  <2>3. Sorts(c[0], 0)
    BY <2>1, <2>2
  <2> QED
    BY <2>3
<1>6. ASSUME NEW n \in Nat, n \in T PROVE n + 1 \in T
  <2> SUFFICES ASSUME n + 1 <= N PROVE Sorts(c[n + 1], n + 1)
    OBVIOUS
  <2> DEFINE key == SortedKeys[n + 1]
             s == c[n]
             t == Append(s, key)
  <2>1. n + 1 \in 1..N /\ (n + 1) - 1 = n /\ key \in Keys
    BY <1>0
  <2>2. Sorts(s, n)
    BY <1>6, <2>1
  <2>3. c[n + 1] = IF key \in keys THEN t ELSE s
    BY <1>4, <2>1
  <2>4. \A m \in 1..(n + 1) : m = n + 1 \/ m \in 1..n
    OBVIOUS
  <2>5. CASE key \notin keys
    <3>1. \A k : (k \in keys /\ \E m \in 1..n : SortedKeys[m] = k)
                 <=> (k \in keys /\ \E m \in 1..(n + 1) : SortedKeys[m] = k)
      BY <2>4, <2>5
    <3> HIDE DEF s
    <3> QED
      BY <2>2, <2>3, <2>5, <3>1
  <2>6. CASE key \in keys
    <3> HIDE DEF s
    <3>1. /\ t \in Seq(Keys) /\ Len(t) = Len(s) + 1 /\ t[Len(s) + 1] = key
          /\ \A i \in 1..Len(s) : t[i] = s[i]
      BY <2>1, <2>2, Appended
    <3>2. Len(s) \in Nat /\ \A i \in 1..Len(t) : i = Len(s) + 1 \/ i \in 1..Len(s)
      BY <2>2, <3>1
    <3> HIDE DEF t
    <3>3. \A i \in 1..Len(s) : s[i] # key
      <4> SUFFICES ASSUME NEW i \in 1..Len(s), s[i] = key PROVE FALSE
        OBVIOUS
      <4>1. PICK m \in 1..n : SortedKeys[m] = key
        BY <2>2
      <4>2. m \in 1..N /\ m # n + 1
        BY <2>1
      <4> QED
        BY <4>1, <4>2, <2>1, <1>0
    <3>4. \A i, j \in 1..Len(t) : t[i] = t[j] => i = j
      BY <3>1, <3>2, <3>3, <2>2
    <3>5. \A k : (\E i \in 1..Len(t) : t[i] = k) <=> (k \in keys /\ \E m \in 1..(n + 1) : SortedKeys[m] = k)
      <4> TAKE k
      <4>1. (\E i \in 1..Len(t) : t[i] = k) <=> k = key \/ \E i \in 1..Len(s) : s[i] = k
        BY <3>1, <3>2
      <4>2. (\E m \in 1..(n + 1) : SortedKeys[m] = k) <=> k = key \/ \E m \in 1..n : SortedKeys[m] = k
        BY <2>4
      <4> QED
        BY <4>1, <4>2, <2>2, <2>6
    <3> QED
      BY <2>3, <2>6, <3>1, <3>4, <3>5
  <2> QED
    BY <2>5, <2>6
<1> HIDE DEF T
<1>7. N \in T
  BY <1>0, <1>5, <1>6, Induction
<1>8. Sorts(c[N], N)
  BY <1>0, <1>7 DEF T
<1>9. DOMAIN c[N] = 1..Len(c[N])
  BY <1>8
<1> QED
  BY <1>0, <1>3, <1>8, <1>9

------------------------------------------------------------------------------
\* What a stack of calls is made of.

LEMMA Popped ==
  ASSUME NEW S, NEW s \in Seq(S), s # <<>>
  PROVE  /\ Head(s) = s[1] /\ Head(s) \in S /\ 1 \in 1..Len(s)
         /\ Tail(s) \in Seq(S) /\ Len(Tail(s)) = Len(s) - 1 /\ Len(s) \in Nat \ {0}
         /\ \A i \in 1..(Len(s) - 1) : Tail(s)[i] = s[i + 1] /\ i + 1 \in 1..Len(s)
  OBVIOUS

LEMMA Pushed ==
  ASSUME NEW S, NEW s \in Seq(S), NEW t \in Seq(S)
  PROVE  /\ s \o t \in Seq(S) /\ Len(s \o t) = Len(s) + Len(t) /\ Len(s) \in Nat /\ Len(t) \in Nat
         /\ \A i \in 1..(Len(s) + Len(t)) :
              \/ i \in 1..Len(s) /\ (s \o t)[i] = s[i]
              \/ i - Len(s) \in 1..Len(t) /\ (s \o t)[i] = t[i - Len(s)]
         /\ \A i \in 1..Len(s) : i \in 1..(Len(s) + Len(t)) /\ (s \o t)[i] = s[i]
         /\ \A i \in 1..Len(t) : i + Len(s) \in 1..(Len(s) + Len(t)) /\ (s \o t)[i + Len(s)] = t[i]
  OBVIOUS

LEMMA NotedOneMore ==
  ASSUME NEW S, NEW s \in Seq(S), NEW e \in S
  PROVE  ToSet(Append(s, e)) = ToSet(s) \cup {e}
<1>1. /\ DOMAIN s = 1..Len(s) /\ DOMAIN Append(s, e) = 1..(Len(s) + 1) /\ Len(s) \in Nat
      /\ Append(s, e)[Len(s) + 1] = e /\ \A i \in 1..Len(s) : Append(s, e)[i] = s[i]
  OBVIOUS
<1>2. \A i \in 1..(Len(s) + 1) : i = Len(s) + 1 \/ i \in 1..Len(s)
  BY <1>1
<1>3. \A i \in 1..Len(s) : i \in 1..(Len(s) + 1)
  BY <1>1
<1>4. Len(s) + 1 \in 1..(Len(s) + 1)
  BY <1>1
<1> QED
  BY <1>1, <1>2, <1>3, <1>4 DEF ToSet

------------------------------------------------------------------------------
\* A path and its children.

\* Of two paths that begin one path one begins the other.
LEMMA BeginsEither ==
  ASSUME NEW p \in Seq(Keys), NEW q \in Seq(Keys), NEW r \in Seq(Keys), Begins(p, r), Begins(q, r)
  PROVE  Begins(p, q) \/ Begins(q, p)
<1>1. Len(p) <= Len(q) \/ Len(q) <= Len(p)
  OBVIOUS
<1> QED
  BY <1>1, BeginsBoth

\* A path that is longer than its beginning goes through one of its children.
LEMMA BeginsChild ==
  ASSUME NEW p \in Seq(Keys), NEW q \in Paths, Begins(p, q), p # q
  PROVE  \E k \in Keys : /\ Append(p, k) \in Paths /\ Begins(Append(p, k), q)
<1>1. Len(p) \in Nat /\ Len(q) \in Nat /\ Len(p) + 1 \in 1..Len(q)
  <2>1. q \in Seq(Keys)
    BY DEF Paths
  <2>2. Len(p) # Len(q)
    BY <2>1, BeginsEqual
  <2> QED
    BY <2>1, <2>2 DEF Begins
<1> DEFINE k == q[Len(p) + 1]
<1>2. k \in Keys
  BY <1>1, Element, Zenon DEF Paths
<1>3. q \in Seq(Keys)
  BY DEF Paths
<1>4. Through(q, p, {k})
  BY <1>1 DEF Through
<1>5. Begins(Append(p, k), q)
  BY <1>2, <1>3, <1>4, ThroughOne, Zenon
<1> QED
  BY <1>2, <1>5, AppendedKey, Zenon

\* What begins a child is the child or begins its parent.
LEMMA BeginsAppended ==
  ASSUME NEW p \in Seq(Keys), NEW k \in Keys, NEW q \in Seq(Keys), Begins(q, Append(p, k))
  PROVE  q = Append(p, k) \/ Begins(q, p)
<1> DEFINE a == Append(p, k)
<1>1. /\ a \in Seq(Keys) /\ Len(a) = Len(p) + 1
      /\ \A i \in 1..Len(p) : a[i] = p[i]
  BY Appended
<1> HIDE DEF a
<1>2. CASE Len(q) = Len(a)
  BY <1>1, <1>2, BeginsEqual DEF a
<1>3. CASE Len(q) # Len(a)
  <2>1. Len(q) <= Len(p) /\ Len(p) \in Nat /\ Len(q) \in Nat /\ \A i \in 1..Len(q) : q[i] = a[i]
    BY <1>1, <1>3 DEF Begins, a
  <2> QED
    BY <1>1, <2>1 DEF Begins
<1> QED
  BY <1>2, <1>3

LEMMA BeginsAppend ==
  ASSUME NEW p \in Seq(Keys), NEW k \in Keys
  PROVE  Begins(p, Append(p, k)) /\ ~Begins(Append(p, k), p)
<1> DEFINE a == Append(p, k)
<1>1. /\ a \in Seq(Keys) /\ Len(a) = Len(p) + 1 /\ Len(p) \in Nat
      /\ \A i \in 1..Len(p) : a[i] = p[i]
  BY Appended
<1> HIDE DEF a
<1>2. Begins(p, a) /\ ~Begins(a, p)
  BY <1>1 DEF Begins
<1> QED
  BY <1>2 DEF a

\* The children of a node are in one of the documents, and none is below another.
LEMMA ChildrenAre ==
  ASSUME NEW x, NEW y, NEW path \in Seq(Keys)
  PROVE  /\ Children(x, y, path) \in Seq(Paths)
         /\ \A i \in 1..Len(Children(x, y, path)) :
              \E k \in Keys : /\ Children(x, y, path)[i] = Append(path, k)
                              /\ Append(path, k) \in DOMAIN x \cup DOMAIN y
         /\ \A k \in Keys : Append(path, k) \in DOMAIN x \cup DOMAIN y =>
              \E i \in 1..Len(Children(x, y, path)) : Children(x, y, path)[i] = Append(path, k)
         /\ \A i, j \in 1..Len(Children(x, y, path)) :
              Begins(Children(x, y, path)[i], Children(x, y, path)[j]) => i = j
<1> DEFINE K == KeysOf(x, y, path)
           s == Sorted(K)
           c == Children(x, y, path)
<1>1. /\ s \in Seq(Keys)
      /\ \A k : (\E i \in DOMAIN s : s[i] = k) <=> k \in Keys /\ k \in K
      /\ \A i, j \in DOMAIN s : s[i] = s[j] => i = j
  BY SortedIs, Zenon
<1>2. \A k : k \in K <=> k \in Keys /\ Append(path, k) \in DOMAIN x \cup DOMAIN y
  BY DEF KeysOf
<1>3. c = [i \in DOMAIN s |-> Append(path, s[i])]
  BY DEF Children
<1> HIDE DEF c, s, K
<1>4. DOMAIN s = 1..Len(s) /\ Len(s) \in Nat
  BY <1>1
<1>5. \A i \in 1..Len(s) : c[i] = Append(path, s[i]) /\ s[i] \in Keys /\ s[i] \in K
  BY <1>1, <1>3, <1>4
<1>6. \A i \in 1..Len(s) : c[i] \in Paths
  BY <1>5, AppendedKey
<1>7. c \in Seq(Paths) /\ Len(c) = Len(s)
  BY <1>3, <1>4, <1>6
<1>8. ASSUME NEW i \in 1..Len(s), NEW j \in 1..Len(s), Begins(c[i], c[j]) PROVE i = j
  <2>1. /\ c[i] \in Seq(Keys) /\ c[j] \in Seq(Keys) /\ Len(c[i]) = Len(path) + 1 /\ Len(c[j]) = Len(path) + 1
        /\ c[i][Len(path) + 1] = s[i] /\ c[j][Len(path) + 1] = s[j]
    <3>1. \A k \in Keys : /\ Append(path, k) \in Seq(Keys) /\ Len(Append(path, k)) = Len(path) + 1
                          /\ Append(path, k)[Len(path) + 1] = k
      BY Appended, Zenon
    <3> QED
      BY <1>5, <3>1
  <2>2. c[i] = c[j]
    BY <1>8, <2>1, BeginsEqual
  <2> QED
    BY <1>1, <1>4, <2>1, <2>2
<1>9. \A i \in 1..Len(c) : \E k \in Keys : c[i] = Append(path, k) /\ Append(path, k) \in DOMAIN x \cup DOMAIN y
  BY <1>2, <1>5, <1>7
<1>10. ASSUME NEW k \in Keys, Append(path, k) \in DOMAIN x \cup DOMAIN y
       PROVE  \E i \in 1..Len(c) : c[i] = Append(path, k)
  <2>1. PICK i \in DOMAIN s : s[i] = k
    BY <1>1, <1>2, <1>10
  <2> QED
    BY <2>1, <1>4, <1>5, <1>7
<1> QED
  BY <1>7, <1>8, <1>9, <1>10 DEF c

------------------------------------------------------------------------------
\* What makes two documents differ.

\* The nodes of two documents, those where both have a map, and those a walk may
\* come to because both have a map everywhere above.
NodesOf(x, y) == DOMAIN x \cup DOMAIN y
Open(x, y, p) == p \in DOMAIN x \cap DOMAIN y /\ x[p] = Map /\ y[p] = Map
Reached(x, y, p) == /\ p \in NodesOf(x, y)
                    /\ \A q \in Paths : Begins(q, p) /\ q # p => Open(x, y, q)
Differ(x, y, p) == p \notin DOMAIN x \cap DOMAIN y \/ x[p] # y[p]

\* A difference is a node a walk may come to, and at which the documents differ.
LEMMA DifferencesAre ==
  ASSUME NEW x, IsDocument(x), NEW y, IsDocument(y), NEW p
  PROVE  p \in Differences(x, y) <=> Reached(x, y, p) /\ Differ(x, y, p)
<1> SUFFICES ASSUME p \in NodesOf(x, y)
             PROVE  Reached(x, y, p) <=> Len(p) = 1 \/ Open(x, y, Front(p))
  BY DEF Differences, Reached, Differ, Open, NodesOf
<1>1. p \in Paths /\ p \in Seq(Keys) /\ Len(p) \in Nat \ {0}
  BY InDocument, Lengths DEF NodesOf
<1>2. CASE Len(p) = 1
  <2>1. ASSUME NEW q \in Paths, Begins(q, p), q # p PROVE FALSE
    BY <2>1, <1>1, <1>2, BeginningIs
  <2> QED
    BY <1>2, <2>1 DEF Reached
<1>3. CASE Len(p) # 1
  <2> DEFINE f == SubSeq(p, 1, Len(p) - 1)
  <2>1. f \in Paths /\ Len(f) = Len(p) - 1 /\ Begins(f, p) /\ f # p
    <3> DEFINE n == Len(p)
    <3>1. n \in Nat \ {0} /\ n # 1
      BY <1>1, <1>3
    <3> HIDE DEF n
    <3>2. n - 1 \in 1..(n - 1)
      BY <3>1
    <3> USE DEF n
    <3>3. f \in Paths /\ Len(f) = Len(p) - 1 /\ Begins(f, p)
      BY <1>1, <3>2, Beginning
    <3> QED
      BY <1>1, <3>3
  <2>2. Front(p) = f
    <3>1. DOMAIN f = 1..(Len(p) - 1) /\ \A i \in 1..(Len(p) - 1) : f[i] = p[i]
      BY <1>1
    <3> QED
      BY <1>1 DEF Front
  <2> HIDE DEF f
  <2>3. ASSUME Open(x, y, f), NEW q \in Paths, Begins(q, p), q # p PROVE Open(x, y, q)
    <3>1. CASE q = f
      BY <3>1, <2>3
    <3>2. CASE q # f
      <4>1. Len(q) \in 1..(Len(p) - 1) /\ q \in Seq(Keys) /\ f \in Seq(Keys)
        BY <2>1, <2>3, <1>1, BeginningIs, Lengths
      <4>2. Begins(q, f)
        BY <4>1, <2>1, <2>3, <1>1, BeginsBoth
      <4> QED
        BY <4>2, <3>2, <2>3, Above DEF Open
    <3> QED
      BY <3>1, <3>2
  <2> QED
    BY <1>3, <2>1, <2>2, <2>3 DEF Reached
<1> QED
  BY <1>2, <1>3

\* Two documents with no difference are the same.
LEMMA NoDifference ==
  ASSUME NEW x, IsDocument(x), NEW y, IsDocument(y), x # y
  PROVE  Differences(x, y) # {}
<1> DEFINE T == {n \in Nat : \E p \in NodesOf(x, y) : Len(p) = n /\ Differ(x, y, p)}
<1>1. \E p \in NodesOf(x, y) : Differ(x, y, p)
  <2> SUFFICES ASSUME \A p \in NodesOf(x, y) : ~Differ(x, y, p) PROVE FALSE
    OBVIOUS
  <2>1. DOMAIN x = DOMAIN y /\ \A p \in DOMAIN x : x[p] = y[p]
    BY DEF Differ, NodesOf
  <2>2. x = [p \in DOMAIN x |-> x[p]] /\ y = [p \in DOMAIN y |-> y[p]]
    BY DEF IsDocument
  <2> QED
    BY <2>1, <2>2
<1>2. \A p \in NodesOf(x, y) : p \in Paths /\ Len(p) \in Nat \ {0}
  BY InDocument, Lengths DEF NodesOf
<1>3. T # {} /\ T \in SUBSET Nat
  BY <1>1, <1>2
<1>4. PICK n \in T : \A m \in T : n <= m
  BY <1>3, Least
<1>5. PICK p \in NodesOf(x, y) : Len(p) = n /\ Differ(x, y, p)
  BY <1>4
<1>6. ASSUME NEW q \in Paths, Begins(q, p), q # p PROVE Open(x, y, q)
  <2>1. Len(q) < Len(p) /\ Len(q) \in Nat
    BY <1>2, <1>5, <1>6, BeginningIs, Lengths
  <2>2. q \in NodesOf(x, y) /\ (p \in DOMAIN x => x[q] = Map) /\ (p \in DOMAIN y => y[q] = Map)
    BY <1>5, <1>6, Above DEF NodesOf
  <2>3. ~Differ(x, y, q)
    BY <2>1, <2>2, <1>4, <1>5
  <2> QED
    BY <2>2, <2>3, <1>5 DEF Differ, Open, NodesOf
<1>7. Reached(x, y, p)
  BY <1>5, <1>6 DEF Reached
<1> QED
  BY <1>5, <1>7, DifferencesAre

LEMMA SameHasNone ==
  ASSUME NEW x, IsDocument(x)
  PROVE  Differences(x, x) = {}
  BY DifferencesAre DEF Differ, Reached, NodesOf

------------------------------------------------------------------------------
\* The walk.

\* What the paths to do still lead to.
Ahead(x, y, todo) == {p \in NodesOf(x, y) : \E i \in 1..Len(todo) : Begins(todo[i], p)}

\* The paths to do can be come to and lead to different nodes.
ToDo(x, y, todo) ==
  /\ todo \in Seq(Paths)
  /\ \A i \in 1..Len(todo) : Reached(x, y, todo[i])
  /\ \A i, j \in 1..Len(todo) : Begins(todo[i], todo[j]) => i = j

\* Of paths to do the first and the others.
LEMMA Rest ==
  ASSUME NEW x, IsDocument(x), NEW y, IsDocument(y), NEW todo, ToDo(x, y, todo), todo # <<>>
  PROVE  /\ Head(todo) \in Paths /\ Reached(x, y, Head(todo)) /\ ToDo(x, y, Tail(todo))
         /\ Head(todo) \notin Ahead(x, y, Tail(todo))
         /\ \A j \in 1..Len(Tail(todo)) : ~Begins(Head(todo), Tail(todo)[j])
         /\ \A p \in NodesOf(x, y) : p \in Ahead(x, y, todo) <=>
              Begins(Head(todo), p) \/ p \in Ahead(x, y, Tail(todo))
<1> DEFINE h == Head(todo)
           rest == Tail(todo)
<1>1. /\ h = todo[1] /\ h \in Paths /\ 1 \in 1..Len(todo)
      /\ rest \in Seq(Paths) /\ Len(rest) = Len(todo) - 1 /\ Len(todo) \in Nat \ {0}
      /\ \A i \in 1..(Len(todo) - 1) : rest[i] = todo[i + 1] /\ i + 1 \in 1..Len(todo)
  BY Popped DEF ToDo
<1> HIDE DEF h, rest
<1>2. \A i \in 1..Len(rest) : rest[i] = todo[i + 1] /\ i + 1 \in 1..Len(todo) /\ i + 1 # 1
  BY <1>1
<1>3. \A i \in 1..Len(todo) : i = 1 \/ (i - 1 \in 1..Len(rest) /\ rest[i - 1] = todo[i])
  BY <1>1
<1>4. Reached(x, y, h)
  BY <1>1 DEF ToDo
<1>5. ToDo(x, y, rest)
  <2>1. \A i \in 1..Len(rest) : Reached(x, y, rest[i])
    BY <1>2 DEF ToDo
  <2>2. ASSUME NEW i \in 1..Len(rest), NEW j \in 1..Len(rest), Begins(rest[i], rest[j]) PROVE i = j
    <3>1. i + 1 = j + 1
      BY <1>2, <2>2 DEF ToDo
    <3> QED
      BY <3>1, <1>1
  <2> QED
    BY <1>1, <2>1, <2>2 DEF ToDo
<1>6. \A j \in 1..Len(rest) : ~Begins(h, rest[j]) /\ ~Begins(rest[j], h)
  BY <1>1, <1>2 DEF ToDo
<1>7. h \notin Ahead(x, y, rest)
  BY <1>6 DEF Ahead
<1>8. ASSUME NEW p \in NodesOf(x, y)
      PROVE  p \in Ahead(x, y, todo) <=> Begins(h, p) \/ p \in Ahead(x, y, rest)
  BY <1>1, <1>2, <1>3 DEF Ahead
<1> QED
  BY <1>1, <1>4, <1>5, <1>6, <1>7, <1>8 DEF h, rest

\* The children of a path to do lead to all that the path leads to, but for itself.
LEMMA ChildrenToDo ==
  ASSUME NEW x, IsDocument(x), NEW y, IsDocument(y), NEW path \in Seq(Keys),
         path # <<>> => Reached(x, y, path) /\ Open(x, y, path)
  PROVE  /\ ToDo(x, y, Children(x, y, path))
         /\ \A i \in 1..Len(Children(x, y, path)) :
              Begins(path, Children(x, y, path)[i]) /\ ~Begins(Children(x, y, path)[i], path)
         /\ \A q \in Seq(Keys), i \in 1..Len(Children(x, y, path)) :
              Begins(q, Children(x, y, path)[i]) => q = Children(x, y, path)[i] \/ Begins(q, path)
         /\ \A p \in NodesOf(x, y) : Begins(path, p) /\ p # path => p \in Ahead(x, y, Children(x, y, path))
<1> DEFINE c == Children(x, y, path)
<1>1. /\ c \in Seq(Paths)
      /\ \A i \in 1..Len(c) : \E k \in Keys : c[i] = Append(path, k) /\ Append(path, k) \in NodesOf(x, y)
      /\ \A k \in Keys : Append(path, k) \in NodesOf(x, y) => \E i \in 1..Len(c) : c[i] = Append(path, k)
      /\ \A i, j \in 1..Len(c) : Begins(c[i], c[j]) => i = j
  BY ChildrenAre, Zenon DEF NodesOf
<1> HIDE DEF c
<1>2. \A i \in 1..Len(c) : /\ Begins(path, c[i]) /\ ~Begins(c[i], path) /\ c[i] \in NodesOf(x, y)
                           /\ \A q \in Seq(Keys) : Begins(q, c[i]) => q = c[i] \/ Begins(q, path)
  <2>1. \A k \in Keys : /\ Begins(path, Append(path, k)) /\ ~Begins(Append(path, k), path)
                        /\ \A q \in Seq(Keys) : Begins(q, Append(path, k)) => q = Append(path, k) \/ Begins(q, path)
    BY BeginsAppend, BeginsAppended, Zenon
  <2> QED
    BY <1>1, <2>1
<1>3. ASSUME NEW i \in 1..Len(c), NEW q \in Paths, Begins(q, c[i]), q # c[i] PROVE Open(x, y, q)
  <2>1. q \in Seq(Keys) /\ Begins(q, path) /\ q # <<>>
    BY <1>2, <1>3 DEF Paths
  <2>2. path # <<>>
    BY <2>1 DEF Begins
  <2> QED
    BY <2>1, <2>2, <1>3 DEF Reached
<1>4. ToDo(x, y, c)
  BY <1>1, <1>2, <1>3 DEF ToDo, Reached
<1>5. ASSUME NEW p \in NodesOf(x, y), Begins(path, p), p # path PROVE p \in Ahead(x, y, c)
  <2>1. p \in Paths
    BY InDocument DEF NodesOf
  <2>2. PICK k \in Keys : Append(path, k) \in Paths /\ Begins(Append(path, k), p)
    BY <1>5, <2>1, BeginsChild
  <2>3. Append(path, k) \in NodesOf(x, y)
    BY <2>1, <2>2, Above DEF NodesOf
  <2> QED
    BY <1>1, <2>2, <2>3 DEF Ahead
<1> QED
  BY <1>2, <1>4, <1>5 DEF c

Walks == [todo : Seq(Paths), noted : Seq(Paths)]

\* Every difference is noted or still ahead, and nothing ahead is noted.
WalkInv(x, y, walk) ==
  /\ walk \in Walks
  /\ ToDo(x, y, walk.todo)
  /\ ToSet(walk.noted) \subseteq Differences(x, y)
  /\ ToSet(walk.noted) \cap Ahead(x, y, walk.todo) = {}
  /\ Differences(x, y) \subseteq ToSet(walk.noted) \cup Ahead(x, y, walk.todo)
  /\ IsFiniteSet(ToSet(walk.noted)) /\ Cardinality(ToSet(walk.noted)) = Len(walk.noted)
  /\ Len(walk.noted) <= MaxDriftPaths

Done(walk) == walk.todo = <<>> \/ Full(walk.noted)

\* What a visit may make of a walk.
Noting(walk) == [todo |-> Tail(walk.todo), noted |-> Append(walk.noted, Head(walk.todo))]
Skipping(walk) == [walk EXCEPT !.todo = Tail(walk.todo)]
Descending(x, y, walk) == [walk EXCEPT !.todo = Children(x, y, Head(walk.todo)) \o Tail(walk.todo)]

\* It is in order and has left behind the path it was at.
Onward(x, y, walk, next) ==
  /\ WalkInv(x, y, next)
  /\ Head(walk.todo) \in Ahead(x, y, walk.todo)
  /\ Ahead(x, y, next.todo) \subseteq Ahead(x, y, walk.todo) \ {Head(walk.todo)}

\* The walk leaves a path behind: the rest is left to do, and it is noted or no
\* difference is where it leads.
LEMMA WalkNotes ==
  ASSUME NEW x, IsDocument(x), NEW y, IsDocument(y), NEW walk, WalkInv(x, y, walk), ~Done(walk),
         Differ(x, y, Head(walk.todo)),
         \A p \in Differences(x, y) : Begins(Head(walk.todo), p) => p = Head(walk.todo)
  PROVE  Onward(x, y, walk, Noting(walk))
<1> DEFINE path == Head(walk.todo)
           next == Noting(walk)
           todo == walk.todo
           noted == walk.noted
           rest == Tail(todo)
           more == Append(noted, path)
<1>1. /\ path \in Paths /\ Reached(x, y, path) /\ ToDo(x, y, rest)
      /\ path \notin Ahead(x, y, rest)
      /\ \A p \in NodesOf(x, y) : p \in Ahead(x, y, todo) <=> Begins(path, p) \/ p \in Ahead(x, y, rest)
  BY Rest DEF WalkInv, Done
<1>2. /\ noted \in Seq(Paths) /\ more \in Seq(Paths) /\ Len(more) = Len(noted) + 1 /\ Len(noted) \in Nat
      /\ ToSet(more) = ToSet(noted) \cup {path}
  BY <1>1, NotedOneMore DEF WalkInv, Walks
<1>3. next.todo = rest /\ next.noted = more /\ next = [todo |-> rest, noted |-> more]
  BY DEF Noting
<1>4. path \in NodesOf(x, y) /\ path \in Ahead(x, y, todo)
  BY <1>1, Lengths DEF Reached
<1>5. path \in Differences(x, y)
  BY <1>1, DifferencesAre
<1>6. \A p \in Ahead(x, y, rest) : p \in NodesOf(x, y)
  BY DEF Ahead
<1> HIDE DEF path, next, todo, noted, rest, more
<1>7. next \in Walks
  BY <1>1, <1>2, <1>3 DEF Walks, ToDo
<1>8. ToSet(more) \subseteq Differences(x, y)
  BY <1>2, <1>5 DEF WalkInv, noted
<1>9. ToSet(more) \cap Ahead(x, y, rest) = {}
  BY <1>1, <1>2, <1>6 DEF WalkInv, noted, todo
<1>10. Differences(x, y) \subseteq ToSet(more) \cup Ahead(x, y, rest)
  <2> SUFFICES ASSUME NEW p \in Differences(x, y), p \notin ToSet(more) PROVE p \in Ahead(x, y, rest)
    OBVIOUS
  <2>1. p \in Ahead(x, y, todo) /\ p # path
    BY <1>2 DEF WalkInv, noted, todo
  <2>2. ~Begins(path, p) /\ p \in NodesOf(x, y)
    BY <2>1 DEF Ahead, path
  <2> QED
    BY <2>1, <2>2, <1>1
<1>11. IsFiniteSet(ToSet(more)) /\ Cardinality(ToSet(more)) = Len(more)
  <2>1. path \notin ToSet(noted)
    BY <1>4 DEF WalkInv, noted, todo
  <2>2. IsFiniteSet(ToSet(noted)) /\ Cardinality(ToSet(noted)) = Len(noted)
    BY DEF WalkInv, noted
  <2> DEFINE S == ToSet(noted)
  <2> HIDE DEF S
  <2>3. IsFiniteSet(S) /\ path \notin S
    BY <2>1, <2>2 DEF S
  <2>4. IsFiniteSet(S \cup {path}) /\ Cardinality(S \cup {path}) = Cardinality(S) + 1
    BY <2>3, FS_AddElement
  <2> QED
    BY <2>2, <2>4, <1>2 DEF S
<1>12. Len(more) <= MaxDriftPaths
  BY <1>2, DriftAssumption DEF DriftAssumption, Done, Full, noted
<1>13. WalkInv(x, y, next)
  BY <1>1, <1>3, <1>7, <1>8, <1>9, <1>10, <1>11, <1>12 DEF WalkInv
<1> QED
  BY <1>1, <1>3, <1>4, <1>6, <1>13 DEF todo, path, next, Onward

\* The walk goes past a path: no difference is where it leads.
LEMMA WalkSkips ==
  ASSUME NEW x, IsDocument(x), NEW y, IsDocument(y), NEW walk, WalkInv(x, y, walk), ~Done(walk),
         \A p \in Differences(x, y) : ~Begins(Head(walk.todo), p)
  PROVE  Onward(x, y, walk, Skipping(walk))
<1> DEFINE path == Head(walk.todo)
           next == Skipping(walk)
           todo == walk.todo
           rest == Tail(todo)
<1>1. /\ path \in Paths /\ Reached(x, y, path) /\ ToDo(x, y, rest)
      /\ path \notin Ahead(x, y, rest)
      /\ \A p \in NodesOf(x, y) : p \in Ahead(x, y, todo) <=> Begins(path, p) \/ p \in Ahead(x, y, rest)
  BY Rest DEF WalkInv, Done
<1>2. next.todo = rest /\ next.noted = walk.noted /\ next \in Walks
  BY <1>1 DEF Walks, WalkInv, ToDo, Skipping
<1>3. path \in NodesOf(x, y) /\ path \in Ahead(x, y, todo)
  BY <1>1, Lengths DEF Reached
<1>4. \A p \in Ahead(x, y, rest) : p \in NodesOf(x, y)
  BY DEF Ahead
<1>5. \A p \in Ahead(x, y, todo) : p \in NodesOf(x, y)
  BY DEF Ahead
<1> HIDE DEF path, next, todo, rest
<1>6. Differences(x, y) \subseteq ToSet(walk.noted) \cup Ahead(x, y, rest)
  <2>1. \A p \in Differences(x, y) : ~Begins(path, p)
    BY DEF path
  <2> QED
    BY <2>1, <1>1, <1>5 DEF WalkInv, todo
<1>7. ToSet(walk.noted) \cap Ahead(x, y, rest) = {}
  BY <1>1, <1>4 DEF WalkInv, todo
<1>8. WalkInv(x, y, next)
  BY <1>1, <1>2, <1>6, <1>7 DEF WalkInv
<1> QED
  BY <1>1, <1>2, <1>3, <1>4, <1>8 DEF todo, path, next, Onward

\* The walk goes from a path to its children.
LEMMA WalkDescends ==
  ASSUME NEW x, IsDocument(x), NEW y, IsDocument(y), NEW walk, WalkInv(x, y, walk), ~Done(walk),
         Open(x, y, Head(walk.todo))
  PROVE  Onward(x, y, walk, Descending(x, y, walk))
<1> DEFINE path == Head(walk.todo)
           next == Descending(x, y, walk)
           todo == walk.todo
           rest == Tail(todo)
           c == Children(x, y, path)
           more == c \o rest
<1>1. /\ path \in Paths /\ Reached(x, y, path) /\ ToDo(x, y, rest)
      /\ path \notin Ahead(x, y, rest)
      /\ \A j \in 1..Len(rest) : ~Begins(path, rest[j])
      /\ \A p \in NodesOf(x, y) : p \in Ahead(x, y, todo) <=> Begins(path, p) \/ p \in Ahead(x, y, rest)
  BY Rest DEF WalkInv, Done
<1>2. path \in Seq(Keys) /\ path \in NodesOf(x, y) /\ path \in Ahead(x, y, todo)
  BY <1>1, Lengths DEF Reached
<1>3. /\ ToDo(x, y, c)
      /\ \A i \in 1..Len(c) : Begins(path, c[i]) /\ ~Begins(c[i], path)
      /\ \A q \in Seq(Keys), i \in 1..Len(c) : Begins(q, c[i]) => q = c[i] \/ Begins(q, path)
      /\ \A p \in NodesOf(x, y) : Begins(path, p) /\ p # path => p \in Ahead(x, y, c)
  <2>1. path \in Seq(Keys) /\ (path # <<>> => Reached(x, y, path) /\ Open(x, y, path))
    BY <1>1, <1>2
  <2> QED
    BY <2>1, ChildrenToDo
<1>0. next.todo = more /\ next.noted = walk.noted /\ (more \in Seq(Paths) => next \in Walks)
  BY DEF Walks, WalkInv, Descending
<1> HIDE DEF path, next, c, rest, todo
<1>4. /\ more \in Seq(Paths) /\ Len(more) = Len(c) + Len(rest) /\ Len(c) \in Nat /\ Len(rest) \in Nat
      /\ \A i \in 1..Len(more) : \/ i \in 1..Len(c) /\ more[i] = c[i]
                                 \/ i - Len(c) \in 1..Len(rest) /\ more[i] = rest[i - Len(c)]
      /\ \A i \in 1..Len(c) : i \in 1..Len(more) /\ more[i] = c[i]
      /\ \A i \in 1..Len(rest) : i + Len(c) \in 1..Len(more) /\ more[i + Len(c)] = rest[i]
  <2>1. c \in Seq(Paths) /\ rest \in Seq(Paths)
    BY <1>1, <1>3 DEF ToDo
  <2>2. /\ more \in Seq(Paths) /\ Len(more) = Len(c) + Len(rest) /\ Len(c) \in Nat /\ Len(rest) \in Nat
        /\ \A i \in 1..(Len(c) + Len(rest)) :
             \/ i \in 1..Len(c) /\ more[i] = c[i]
             \/ i - Len(c) \in 1..Len(rest) /\ more[i] = rest[i - Len(c)]
        /\ \A i \in 1..Len(c) : i \in 1..(Len(c) + Len(rest)) /\ more[i] = c[i]
        /\ \A i \in 1..Len(rest) : i + Len(c) \in 1..(Len(c) + Len(rest)) /\ more[i + Len(c)] = rest[i]
    BY <2>1, Pushed
  <2> HIDE DEF more
  <2> QED
    BY <2>2
<1> HIDE DEF more
<1>5. \A i \in 1..Len(c) : c[i] \in Seq(Keys) /\ c[i] \in Paths
  BY <1>3, Element, Lengths DEF ToDo
<1>6. \A i \in 1..Len(rest) : rest[i] \in Seq(Keys) /\ rest[i] \in Paths
  BY <1>1, Element, Lengths DEF ToDo
<1>7. \A i \in 1..Len(c), j \in 1..Len(rest) : ~Begins(c[i], rest[j]) /\ ~Begins(rest[j], c[i])
  <2> SUFFICES ASSUME NEW i \in 1..Len(c), NEW j \in 1..Len(rest)
               PROVE ~Begins(c[i], rest[j]) /\ ~Begins(rest[j], c[i])
    OBVIOUS
  <2>1. ~Begins(c[i], rest[j])
    BY <1>1, <1>2, <1>3, <1>5, <1>6, BeginsTransitive
  <2>2. ~Begins(rest[j], path)
    <3>1. path \in NodesOf(x, y) /\ path \notin Ahead(x, y, rest)
      BY <1>1, <1>2
    <3> QED
      BY <3>1 DEF Ahead
  <2>3. ~Begins(rest[j], c[i])
    BY <2>1, <2>2, <1>1, <1>3, <1>6
  <2> QED
    BY <2>1, <2>3
<1>8. ToDo(x, y, more)
  <2>1. \A i \in 1..Len(more) : Reached(x, y, more[i])
    BY <1>1, <1>3, <1>4 DEF ToDo
  <2>2. ASSUME NEW i \in 1..Len(more), NEW j \in 1..Len(more), Begins(more[i], more[j]) PROVE i = j
    <3>1. CASE i \in 1..Len(c) /\ more[i] = c[i] /\ j \in 1..Len(c) /\ more[j] = c[j]
      BY <3>1, <2>2, <1>3 DEF ToDo
    <3>2. CASE /\ i - Len(c) \in 1..Len(rest) /\ more[i] = rest[i - Len(c)]
               /\ j - Len(c) \in 1..Len(rest) /\ more[j] = rest[j - Len(c)]
      <4>1. i - Len(c) = j - Len(c)
        BY <3>2, <2>2, <1>1 DEF ToDo
      <4> QED
        BY <4>1, <1>4
    <3> QED
      BY <3>1, <3>2, <2>2, <1>4, <1>7
  <2> QED
    BY <2>1, <2>2, <1>4 DEF ToDo
<1>9. \A p \in NodesOf(x, y) : p \in Ahead(x, y, more) <=> p \in Ahead(x, y, c) \/ p \in Ahead(x, y, rest)
  BY <1>4 DEF Ahead
<1>10. \A p \in Ahead(x, y, c) : p \in NodesOf(x, y) /\ Begins(path, p) /\ p # path
  <2> SUFFICES ASSUME NEW p \in Ahead(x, y, c) PROVE p \in NodesOf(x, y) /\ Begins(path, p) /\ p # path
    OBVIOUS
  <2>1. PICK i \in 1..Len(c) : Begins(c[i], p)
    BY DEF Ahead
  <2>2. p \in NodesOf(x, y) /\ p \in Seq(Keys)
    BY InDocument DEF Ahead, NodesOf
  <2> QED
    BY <2>1, <2>2, <1>2, <1>3, <1>5, BeginsTransitive
<1>11. \A S : S = more \/ S = todo \/ S = rest => \A p \in Ahead(x, y, S) : p \in NodesOf(x, y)
  BY DEF Ahead
<1>12. Ahead(x, y, more) \subseteq Ahead(x, y, todo) \ {path}
  BY <1>1, <1>9, <1>10, <1>11
<1>13. \A p \in Ahead(x, y, todo) : p # path => p \in Ahead(x, y, more)
  BY <1>1, <1>3, <1>9, <1>11
<1>14. path \notin Differences(x, y)
  BY DifferencesAre DEF Open, Differ, path
<1>15. next.todo = more /\ next.noted = walk.noted /\ next \in Walks
  BY <1>0, <1>4
<1>16. Differences(x, y) \subseteq ToSet(walk.noted) \cup Ahead(x, y, more)
  BY <1>13, <1>14 DEF WalkInv, todo
<1>17. ToSet(walk.noted) \cap Ahead(x, y, more) = {}
  BY <1>12 DEF WalkInv, todo
<1>18. WalkInv(x, y, next)
  BY <1>8, <1>15, <1>16, <1>17 DEF WalkInv
<1> QED
  BY <1>2, <1>12, <1>15, <1>18 DEF todo, path, next, Onward

\* A visit leaves the walk in order, and behind it the path it was at.
LEMMA VisitStep ==
  ASSUME NEW x, IsDocument(x), NEW y, IsDocument(y), NEW walk, WalkInv(x, y, walk)
  PROVE  /\ WalkInv(x, y, Visit(x, y, walk))
         /\ \/ Done(walk) /\ Visit(x, y, walk) = walk
            \/ Onward(x, y, walk, Visit(x, y, walk))
<1> DEFINE path == Head(walk.todo)
           next == Visit(x, y, walk)
<1>1. CASE Done(walk)
  <2>1. next = walk
    BY <1>1 DEF Visit, Done
  <2> QED
    BY <1>1, <2>1
<1>2. CASE ~Done(walk)
  <2>1. path \in Paths /\ Reached(x, y, path)
    BY <1>2, Rest DEF WalkInv, Done
  <2>2. next = IF path \notin DOMAIN x \cap DOMAIN y THEN Noting(walk)
               ELSE IF Below(x, path) = Below(y, path) THEN Skipping(walk)
               ELSE IF x[path] = Map /\ y[path] = Map THEN Descending(x, y, walk)
               ELSE Noting(walk)
    BY <1>2 DEF Visit, Done, Noting, Skipping, Descending
  <2> HIDE DEF next
  <2> SUFFICES Onward(x, y, walk, next)
    BY DEF next, Onward
  \* Below a path that is not open there is no difference.
  <2>3. ASSUME ~Open(x, y, path) PROVE \A p \in Differences(x, y) : Begins(path, p) => p = path
    BY <2>3, <2>1, DifferencesAre DEF Reached
  <2>4. CASE path \notin DOMAIN x \cap DOMAIN y
    <3>1. Differ(x, y, path) /\ ~Open(x, y, path) /\ next = Noting(walk)
      BY <2>4, <2>2 DEF Differ, Open
    <3>2. Onward(x, y, walk, Noting(walk))
      BY <1>2, <2>3, <3>1, WalkNotes
    <3> QED
      BY <3>1, <3>2
  <2>5. CASE path \in DOMAIN x \cap DOMAIN y /\ Below(x, path) = Below(y, path)
    <3>1. ASSUME NEW p \in Differences(x, y), Begins(path, p) PROVE FALSE
      <4>1. p \in NodesOf(x, y) /\ Differ(x, y, p)
        BY DifferencesAre DEF Reached
      <4>2. p \in DOMAIN Below(x, path) <=> p \in DOMAIN x
        BY <3>1 DEF Below
      <4>3. p \in DOMAIN Below(y, path) <=> p \in DOMAIN y
        BY <3>1 DEF Below
      <4>4. p \in DOMAIN x /\ p \in DOMAIN y
        BY <4>1, <4>2, <4>3, <2>5 DEF NodesOf
      <4>5. Below(x, path)[p] = x[p] /\ Below(y, path)[p] = y[p]
        BY <4>4, <3>1 DEF Below
      <4> QED
        BY <4>1, <4>4, <4>5, <2>5 DEF Differ
    <3>2. next = Skipping(walk)
      BY <2>2, <2>5
    <3>3. Onward(x, y, walk, Skipping(walk))
      BY <1>2, <3>1, WalkSkips
    <3> QED
      BY <3>2, <3>3
  <2>6. CASE path \in DOMAIN x \cap DOMAIN y /\ Below(x, path) # Below(y, path) /\ x[path] = Map /\ y[path] = Map
    <3>1. Open(x, y, path) /\ next = Descending(x, y, walk)
      BY <2>2, <2>6 DEF Open
    <3>2. Onward(x, y, walk, Descending(x, y, walk))
      BY <1>2, <3>1, WalkDescends
    <3> QED
      BY <3>1, <3>2
  <2>7. CASE /\ path \in DOMAIN x \cap DOMAIN y /\ Below(x, path) # Below(y, path)
             /\ ~(x[path] = Map /\ y[path] = Map)
    <3>1. ~Open(x, y, path) /\ next = Noting(walk)
      BY <2>2, <2>7 DEF Open
    <3>2. Differ(x, y, path)
      <4> SUFFICES ASSUME x[path] = y[path] PROVE FALSE
        BY DEF Differ
      \* The same scalar: there is nothing else below.
      <4>1. ASSUME NEW d, IsDocument(d), path \in DOMAIN d, d[path] # Map
            PROVE  Below(d, path) = [p \in {path} |-> d[path]]
        <5>1. \A p \in DOMAIN d : Begins(path, p) <=> p = path
          <6> SUFFICES ASSUME NEW p \in DOMAIN d PROVE Begins(path, p) <=> p = path
            OBVIOUS
          <6>1. Begins(path, path)
            BY <2>1, Lengths
          <6>2. Begins(path, p) /\ path # p => d[path] = Map
            BY <2>1, <4>1, Above
          <6> QED
            BY <6>1, <6>2, <4>1
        <5>2. {p \in DOMAIN d : Begins(path, p)} = {path}
          BY <5>1, <4>1
        <5> HIDE DEF path
        <5> QED
          BY <5>2 DEF Below
      <4>2. Below(x, path) = [p \in {path} |-> x[path]] /\ Below(y, path) = [p \in {path} |-> y[path]]
        BY <4>1, <2>7
      <4> QED
        BY <4>2, <2>7
    <3>3. Onward(x, y, walk, Noting(walk))
      BY <1>2, <2>3, <3>1, <3>2, WalkNotes
    <3> QED
      BY <3>1, <3>3
  <2> QED
    BY <2>4, <2>5, <2>6, <2>7
<1> QED
  BY <1>1, <1>2

\* The walk begins with all nodes ahead.
LEMMA WalkBegins ==
  ASSUME NEW x, IsDocument(x), NEW y, IsDocument(y),
         NEW walk, walk = [todo |-> Children(x, y, <<>>), noted |-> <<>>]
  PROVE  WalkInv(x, y, walk)
<1> DEFINE c == Children(x, y, <<>>)
<1>1. <<>> \in Seq(Keys) /\ <<>> \in Seq(Paths) /\ ToSet(<<>>) = {} /\ Len(<<>>) = 0
  BY DEF ToSet
<1>2. ToDo(x, y, c) /\ \A p \in NodesOf(x, y) : Begins(<<>>, p) /\ p # <<>> => p \in Ahead(x, y, c)
  BY <1>1, ChildrenToDo
<1>3. \A p \in NodesOf(x, y) : p \in Paths /\ p # <<>> /\ Begins(<<>>, p)
  <2> SUFFICES ASSUME NEW p \in NodesOf(x, y) PROVE p \in Paths /\ p # <<>> /\ Begins(<<>>, p)
    OBVIOUS
  <2>1. p \in Paths
    BY InDocument DEF NodesOf
  <2> QED
    BY <2>1, Lengths DEF Begins, Paths
<1>4. Differences(x, y) \subseteq Ahead(x, y, c)
  BY <1>2, <1>3, DifferencesAre DEF Reached
<1>5. walk.todo = c /\ walk.noted = <<>>
  OBVIOUS
<1> HIDE DEF c
<1>6. walk \in Walks
  BY <1>1, <1>2 DEF Walks, ToDo, c
<1>7. IsFiniteSet({}) /\ Cardinality({}) = 0 /\ 0 <= MaxDriftPaths
  BY FS_EmptySet, DriftAssumption DEF DriftAssumption
<1> QED
  BY <1>1, <1>2, <1>4, <1>5, <1>6, <1>7 DEF WalkInv

IsExact(x, y, paths) ==
  /\ paths \in Seq(Paths)
  /\ ToSet(paths) \subseteq Differences(x, y)
  /\ Cardinality(ToSet(paths)) = Len(paths)
  /\ Len(paths) = IF Cardinality(Differences(x, y)) < MaxDriftPaths
                    THEN Cardinality(Differences(x, y)) ELSE MaxDriftPaths

\* A walk that has come to its end has noted the differences, or as many as fit.
LEMMA DoneIsExact ==
  ASSUME NEW x, IsDocument(x), NEW y, IsDocument(y),
         NEW walk, WalkInv(x, y, walk), Done(walk)
  PROVE  IsExact(x, y, walk.noted)
<1> DEFINE D == Differences(x, y)
           S == ToSet(walk.noted)
<1>1. IsFiniteSet(D)
  <2>1. IsFiniteSet(NodesOf(x, y))
    BY FinitelyManyNodes, FS_Union DEF NodesOf
  <2>2. D \in SUBSET NodesOf(x, y)
    BY DifferencesAre DEF Reached
  <2> QED
    BY <2>1, <2>2, FS_Subset
<1>2. /\ walk.noted \in Seq(Paths) /\ S \in SUBSET D /\ IsFiniteSet(S) /\ Cardinality(S) = Len(walk.noted)
      /\ Len(walk.noted) <= MaxDriftPaths
  BY DEF WalkInv, Walks
<1> HIDE DEF D, S
<1>3. Cardinality(S) <= Cardinality(D) /\ Cardinality(D) \in Nat /\ Cardinality(S) \in Nat
  BY <1>1, <1>2, FS_Subset, FS_CardinalityType
<1>4. CASE Full(walk.noted)
  BY <1>2, <1>3, <1>4, DriftAssumption DEF DriftAssumption, Full, IsExact, D, S
<1>5. CASE walk.todo = <<>>
  <2>1. Ahead(x, y, walk.todo) = {}
    BY <1>5 DEF Ahead
  <2>2. D \subseteq S
    BY <2>1 DEF WalkInv, D, S
  <2>3. D = S
    BY <2>2, <1>2
  <2> QED
    BY <2>3, <1>2, <1>3, DriftAssumption DEF DriftAssumption, IsExact, D, S
<1> QED
  BY <1>4, <1>5 DEF Done

\* The paths diffPaths finds between two documents are differences, each once, and all
\* of them unless there are more than fit; there are none only if there is no difference.
THEOREM WalkIsExact ==
  ASSUME NEW x, IsDocument(x), NEW y, IsDocument(y)
  PROVE  IsExact(x, y, DiffPaths(x, y)) /\ (DiffPaths(x, y) = <<>> <=> x = y)
<1> DEFINE N == Cardinality(DOMAIN x \cup DOMAIN y)
           start == [todo |-> Children(x, y, <<>>), noted |-> <<>>]
           IsWalk(w) == w = [n \in 0..N |-> IF n = 0 THEN start ELSE Visit(x, y, w[n - 1])]
           c == CHOOSE w : IsWalk(w)
           States == {s \in Walks : WalkInv(x, y, s)}
<1>1. IsFiniteSet(NodesOf(x, y)) /\ N = Cardinality(NodesOf(x, y)) /\ N \in Nat
  <2>1. IsFiniteSet(NodesOf(x, y)) /\ N = Cardinality(NodesOf(x, y))
    BY FinitelyManyNodes, FS_Union DEF NodesOf
  <2> QED
    BY <2>1, FS_CardinalityType
<1>2. start \in States
  BY WalkBegins DEF WalkInv
<1>3. \A s \in States : Visit(x, y, s) \in States
  BY VisitStep DEF WalkInv
<1> HIDE DEF N, start, States
<1>4. \E w : IsWalk(w)
  <2> DEFINE f == [n \in 1..N |-> [s \in States |-> Visit(x, y, s)]]
  <2>1. f \in [1..N -> [States -> States]]
    BY <1>3
  <2>2. \A n \in 1..N, s \in States : f[n][s] = Visit(x, y, s)
    OBVIOUS
  <2> HIDE DEF f
  <2>3. PICK w \in [0..N -> States] : w[0] = start /\ \A n \in 1..N : w[n] = f[n][w[n - 1]]
    <3>1. N \in Nat
      BY <1>1
    <3> QED
      BY <3>1, <1>2, <2>1, Recursion
  <2>4. \A n \in 0..N : n = 0 \/ (n \in 1..N /\ n - 1 \in 0..N)
    BY <1>1
  <2>5. \A n \in 0..N : w[n] = IF n = 0 THEN start ELSE Visit(x, y, w[n - 1])
    BY <2>2, <2>3, <2>4
  <2>6. IsWalk(w)
    BY <2>3, <2>5
  <2> QED
    BY <2>6, Zenon
<1>5. IsWalk(c)
  BY <1>4, Zenon
<1>6. x # y => DiffPaths(x, y) = c[N].noted
  BY DEF DiffPaths, N, start
<1> HIDE DEF c
<1>7. c[0] = start /\ \A n \in 1..N : c[n] = Visit(x, y, c[n - 1])
  <2>1. 0 \in 0..N /\ \A n \in 1..N : n \in 0..N /\ n # 0
    BY <1>1
  <2> QED
    BY <1>5, <2>1
<1> HIDE DEF IsWalk
<1> DEFINE Left(n) == Ahead(x, y, c[n].todo)
           T == {n \in Nat : n <= N => /\ WalkInv(x, y, c[n])
                                       /\ Done(c[n]) \/ Cardinality(Left(n)) <= N - n}
<1>8. \A s : IsFiniteSet(Ahead(x, y, s)) /\ Ahead(x, y, s) \in SUBSET NodesOf(x, y)
             /\ Cardinality(Ahead(x, y, s)) \in Nat /\ Cardinality(Ahead(x, y, s)) <= N
  <2> SUFFICES ASSUME NEW s
               PROVE  IsFiniteSet(Ahead(x, y, s)) /\ Ahead(x, y, s) \in SUBSET NodesOf(x, y)
                      /\ Cardinality(Ahead(x, y, s)) \in Nat /\ Cardinality(Ahead(x, y, s)) <= N
    OBVIOUS
  <2>1. Ahead(x, y, s) \in SUBSET NodesOf(x, y)
    BY DEF Ahead
  <2> QED
    BY <2>1, <1>1, FS_Subset, FS_CardinalityType
<1>9. 0 \in T
  BY <1>1, <1>2, <1>7, <1>8 DEF States
<1>10. ASSUME NEW n \in Nat, n \in T PROVE n + 1 \in T
  <2> SUFFICES ASSUME n + 1 <= N
               PROVE  /\ WalkInv(x, y, c[n + 1])
                      /\ Done(c[n + 1]) \/ Cardinality(Left(n + 1)) <= N - (n + 1)
    OBVIOUS
  <2>1. c[n + 1] = Visit(x, y, c[n])
    <3>1. n + 1 \in 1..N /\ (n + 1) - 1 = n
      BY <1>1
    <3> QED
      BY <3>1, <1>7
  <2>2. WalkInv(x, y, c[n]) /\ (Done(c[n]) \/ Cardinality(Left(n)) <= N - n)
    BY <1>1, <1>10
  <2>3. WalkInv(x, y, c[n + 1])
    BY <2>1, <2>2, VisitStep
  <2>4. CASE Done(c[n])
    <3>1. c[n + 1] = c[n]
      BY <2>1, <2>4 DEF Visit, Done
    <3> QED
      BY <2>3, <2>4, <3>1
  <2>5. CASE ~Done(c[n])
    <3> DEFINE A == Left(n)
               B == Left(n + 1)
    <3>1. \E p \in A : B \subseteq A \ {p}
      BY <2>1, <2>2, <2>5, VisitStep DEF Onward
    <3>2. IsFiniteSet(A) /\ Cardinality(A) \in Nat /\ Cardinality(B) \in Nat /\ Cardinality(A) <= N - n
      BY <1>8, <2>2, <2>5
    <3> HIDE DEF A, B
    <3>3. PICK p \in A : B \subseteq A \ {p}
      BY <3>1
    <3>4. IsFiniteSet(A \ {p}) /\ Cardinality(A \ {p}) = Cardinality(A) - 1
      BY <3>2, <3>3, FS_RemoveElement
    <3>5. Cardinality(B) <= Cardinality(A \ {p})
      BY <3>3, <3>4, FS_Subset
    <3>6. Cardinality(B) <= N - (n + 1)
      BY <3>2, <3>4, <3>5, <1>1
    <3> QED
      BY <2>3, <3>6 DEF B
  <2> QED
    BY <2>4, <2>5
<1> HIDE DEF T
<1>11. N \in T
  BY <1>1, <1>9, <1>10, Induction
<1>12. WalkInv(x, y, c[N]) /\ (Done(c[N]) \/ Cardinality(Left(N)) <= 0)
  BY <1>1, <1>11 DEF T
<1>13. Done(c[N])
  <2> SUFFICES ASSUME ~Done(c[N]), Cardinality(Left(N)) <= 0 PROVE FALSE
    BY <1>12
  <2>1. Left(N) = {}
    BY <1>8, FS_EmptySet
  <2>2. Head(c[N].todo) \in Left(N)
    <3> DEFINE todo == c[N].todo
    <3>1. /\ Head(todo) \in Paths /\ Reached(x, y, Head(todo))
          /\ \A p \in NodesOf(x, y) : p \in Ahead(x, y, todo) <=>
               Begins(Head(todo), p) \/ p \in Ahead(x, y, Tail(todo))
      BY <1>12, Rest DEF WalkInv, Done
    <3> QED
      BY <3>1, Lengths DEF Reached
  <2> QED
    BY <2>1, <2>2
<1>14. IsExact(x, y, c[N].noted)
  BY <1>12, <1>13, DoneIsExact
<1>15. CASE x = y
  <2>1. DiffPaths(x, y) = <<>>
    BY <1>15 DEF DiffPaths
  <2>2. Differences(x, y) = {} /\ Cardinality({}) = 0
    BY <1>15, SameHasNone, FS_EmptySet
  <2>3. <<>> \in Seq(Paths) /\ ToSet(<<>>) = {} /\ Len(<<>>) = 0
    BY DEF ToSet
  <2>4. 0 < MaxDriftPaths
    BY DriftAssumption DEF DriftAssumption
  <2>5. IsExact(x, y, <<>>)
    BY <2>2, <2>3, <2>4 DEF IsExact
  <2> QED
    BY <1>15, <2>1, <2>5
<1>16. CASE x # y
  <2>1. IsExact(x, y, DiffPaths(x, y))
    BY <1>6, <1>14, <1>16
  <2>2. Differences(x, y) # {} /\ IsFiniteSet(Differences(x, y))
    <3>1. Differences(x, y) \in SUBSET NodesOf(x, y)
      BY DifferencesAre DEF Reached
    <3> QED
      BY <3>1, <1>1, <1>16, NoDifference, FS_Subset
  <2>3. Cardinality(Differences(x, y)) # 0
    BY <2>2, FS_EmptySet
  <2>4. Len(DiffPaths(x, y)) # 0
    BY <2>1, <2>3, DriftAssumption DEF DriftAssumption, IsExact
  <2> QED
    BY <1>16, <2>1, <2>4
<1> QED
  BY <1>15, <1>16

------------------------------------------------------------------------------
\* What the comparison of the stored and the live object shows.

\* The view of a document is a document.
LEMMA ViewDocument ==
  ASSUME NEW o, IsObject(o)
  PROVE  IsDocument(CompareView(o))
<1> DEFINE c == CompareView(o)
           top == <<"metadata">>
<1>1. /\ DOMAIN c = {top} \cup {p \in DOMAIN o.doc : Compared(p)} /\ c[top] = Map
      /\ \A p \in DOMAIN c : p # top => p \in DOMAIN o.doc /\ Compared(p) /\ c[p] = o.doc[p]
      /\ c = [p \in DOMAIN c |-> IF p = top THEN Map ELSE o.doc[p]]
  BY DEF CompareView
<1>2. top \in Paths /\ Len(top) = 1 /\ top[1] = "metadata"
  <2>1. top \in Paths
    BY TemplateMetadataPath DEF Paths
  <2> QED
    BY <2>1
<1>3. IsDocument(o.doc)
  BY DEF IsObject
<1> HIDE DEF c, top
<1>4. IsFiniteSet(DOMAIN c)
  <2>1. IsFiniteSet(DOMAIN o.doc) /\ IsFiniteSet({top})
    BY <1>3, FinitelyManyNodes, FS_Singleton
  <2>2. IsFiniteSet({top} \cup DOMAIN o.doc)
    BY <2>1, FS_Union
  <2> QED
    BY <2>2, <1>1, FS_Subset
<1>5. DOMAIN c \in SUBSET Paths /\ c \in [DOMAIN c -> Scalars \cup {Map}]
  BY <1>1, <1>2, <1>3, InDocument
<1>6. ASSUME NEW q \in DOMAIN c, NEW p \in Paths, Begins(p, q), p # q
      PROVE  p \in DOMAIN c /\ c[p] = Map
  <2>1. Len(p) \in Nat \ {0} /\ Len(q) \in Nat \ {0} /\ Len(p) < Len(q) /\ p[1] = q[1]
        /\ p \in Seq(Keys)
    <3>1. q \in Paths /\ 1 \in 1..Len(p)
      BY <1>5, Lengths
    <3> QED
      BY <3>1, <1>6, Lengths, BeginningIs DEF Begins
  <2> DEFINE m == Len(p)
             n == Len(q)
  <2>2. m \in Nat /\ n \in Nat /\ 0 < m /\ m < n
    BY <2>1
  <2> HIDE DEF m, n
  <2>3. n # 1 /\ (m # 1 => 2 \in 1..m)
    BY <2>2
  <2>4. q # top /\ q \in DOMAIN o.doc /\ Compared(q)
    <3>1. q # top
      BY <2>3, <1>2 DEF n
    <3> QED
      BY <3>1, <1>1
  <2>5. p \in DOMAIN o.doc /\ o.doc[p] = Map
    BY <2>4, <1>3, <1>6, Above
  <2>6. CASE p = top
    BY <2>6, <1>1
  <2>7. CASE p # top
    <3>1. CASE Len(p) = 1
      <4>1. p[1] # "metadata"
        <5> SUFFICES ASSUME p[1] = "metadata" PROVE p = top
          BY <2>7
        <5>1. top \in Seq(Keys) /\ Begins(p, top)
          BY <1>2, <3>1, Lengths DEF Begins
        <5> QED
          BY <5>1, <2>1, <1>2, <3>1, BeginsEqual
      <4> QED
        BY <4>1, <2>1, <2>4, <2>5, <2>7, <1>1 DEF Compared
    <3>2. CASE Len(p) # 1
      <4>1. Len(p) > 1 /\ 2 \in 1..Len(p)
        BY <3>2, <2>2, <2>3 DEF m
      <4>2. p[2] = q[2]
        BY <4>1, <1>6 DEF Begins
      <4> QED
        BY <4>1, <4>2, <2>1, <2>4, <2>5, <2>7, <1>1 DEF Compared
    <3> QED
      BY <3>1, <3>2
  <2> QED
    BY <2>6, <2>7
<1>7. IsDocument(c)
  BY <1>4, <1>5, <1>6, Documents
<1> QED
  BY <1>7 DEF c

LEMMA ViewsAreDocuments ==
  ASSUME ManifestsInv, Comparable
  PROVE  /\ IsObject(View) /\ IsObject(live)
         /\ IsDocument(CompareView(SanitizeObject(View)))
         /\ IsDocument(CompareView(SanitizeObject(live)))
<1>1. IsObject(View)
  BY ViewIsClean, KindOfObject DEF Comparable
<1>2. IsObject(live)
  BY DEF Comparable, ManifestsInv, Fit, Fits
<1>3. IsObject(SanitizeObject(View)) /\ IsObject(SanitizeObject(live))
  BY <1>1, <1>2, Sanitized
<1> QED
  BY <1>1, <1>2, <1>3, ViewDocument

\* driftBetween calls a resource synced if and only if the two clusters would be told
\* the same: neither the noise, nor what is not compared, nor the number of
\* differences at which diffPaths stops ever decides it.
THEOREM SyncedIsSame == ASSUME ~IsObject(NoObject) PROVE Spec => []SyncedMeansSame
<1>1. ManifestsInv => SyncedMeansSame
  <2> SUFFICES ASSUME ManifestsInv, Comparable
               PROVE  DriftBetween(View, live).status = "synced"
                        <=> ComparedMeaning(View) = ComparedMeaning(live)
    BY DEF SyncedMeansSame
  <2> DEFINE x == CompareView(SanitizeObject(View))
             y == CompareView(SanitizeObject(live))
  <2>1. IsObject(View) /\ IsObject(live) /\ IsDocument(x) /\ IsDocument(y)
    BY ViewsAreDocuments
  <2>2. SameView(View, live) <=> x = y
    BY DEF SameView
  <2>3. DriftBetween(View, live).status = "synced" <=> DiffPaths(x, y) = <<>>
    BY DEF DriftBetween
  <2> HIDE DEF x, y
  <2>4. DiffPaths(x, y) = <<>> <=> x = y
    BY <2>1, WalkIsExact
  <2>5. SameView(View, live) <=> ComparedMeaning(View) = ComparedMeaning(live)
    BY <2>1, ViewsAreMeaning
  <2> QED
    BY <2>2, <2>3, <2>4, <2>5
<1> QED
  BY <1>1, ManifestsInvariant, PTL

\* The paths diffPaths gives for a drifted resource are differences of the two views,
\* each once, and all of them unless there are more than maxDriftPaths.
THEOREM PathsAreExact == ASSUME ~IsObject(NoObject) PROVE Spec => []DriftPathsAreExact
<1>1. ManifestsInv => DriftPathsAreExact
  <2> SUFFICES ASSUME ManifestsInv, Comparable
               PROVE  LET x == CompareView(SanitizeObject(View))
                          y == CompareView(SanitizeObject(live))
                          paths == DriftBetween(View, live).paths
                      IN /\ ToSet(paths) \subseteq Differences(x, y)
                         /\ Cardinality(ToSet(paths)) = Len(paths)
                         /\ Len(paths) = IF Cardinality(Differences(x, y)) < MaxDriftPaths
                                           THEN Cardinality(Differences(x, y)) ELSE MaxDriftPaths
    BY DEF DriftPathsAreExact
  <2> DEFINE x == CompareView(SanitizeObject(View))
             y == CompareView(SanitizeObject(live))
  <2>1. IsDocument(x) /\ IsDocument(y)
    BY ViewsAreDocuments
  <2>2. DriftBetween(View, live).paths = DiffPaths(x, y)
    BY DEF DriftBetween
  <2> HIDE DEF x, y
  <2>3. IsExact(x, y, DiffPaths(x, y))
    BY <2>1, WalkIsExact
  <2> USE DEF x, y
  <2> QED
    BY <2>2, <2>3 DEF IsExact
<1> QED
  BY <1>1, ManifestsInvariant, PTL
=============================================================================
