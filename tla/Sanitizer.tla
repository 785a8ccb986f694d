------------------------------ MODULE Sanitizer ------------------------------
(***************************************************************************)
(* What DrKate keeps of a Kubernetes object (internal/k8s/sanitize.go).    *)
(* An object is its kind and a document.  A document, a tree of maps, is   *)
(* the function from the paths of its nodes, sequences of keys, to what is *)
(* there: Map, or one of the Scalars.  Lists are scalars too, because the  *)
(* sanitizer never looks into one.  Which label and annotation keys are    *)
(* noise is decided by exact names, prefixes and suffixes in the code, by  *)
(* membership here.                                                        *)
(***************************************************************************)
EXTENDS Naturals, Sequences, FiniteSets

CONSTANTS Keys,              \* of maps
          Scalars,           \* nodes that are no maps
          Map,               \* a node that is one
          EmptyString,       \* the scalar ""
          NoiseAnnotations,  \* annotation keys that are always stripped
          HelmAnnotations,   \* keys that begin with meta.helm.sh/
          NoiseLabels,       \* label keys that are stripped
          PreserveHelm       \* scrape.preserve_helm_annotations

\* The empty string is a scalar, a map is none; the option is on or off.
ASSUME SanitizerAssumption ==
  /\ {"metadata", "labels", "annotations", "spec", "template", "type"} \subseteq Keys
  /\ EmptyString \in Scalars /\ Map \notin Scalars
  /\ PreserveHelm \in BOOLEAN

Paths == Seq(Keys) \ {<<>>}

\* Whatever is above a node is a map.
IsDocument(d) ==
  /\ DOMAIN d \subseteq Paths /\ IsFiniteSet(DOMAIN d)
  /\ d \in [DOMAIN d -> Scalars \cup {Map}]
  /\ \A p \in DOMAIN d : \A n \in 1..(Len(p) - 1) :
       SubSeq(p, 1, n) \in DOMAIN d /\ d[SubSeq(p, 1, n)] = Map

Begins(p, q) == Len(p) <= Len(q) /\ \A i \in 1..Len(p) : p[i] = q[i]

\* q leads through the map at a path to one of the keys.
Through(q, at, keys) == Begins(at, q) /\ Len(at) < Len(q) /\ q[Len(at) + 1] \in keys

\* delete, of keys of the map at a path.  A node without maps above it is no
\* node, so this also is what happens when there is something else at the path.
Delete(d, at, keys) == [q \in {q \in DOMAIN d : ~Through(q, at, keys)} |-> d[q]]

IsEmptyMap(d, p) == p \in DOMAIN d /\ d[p] = Map /\ \A q \in DOMAIN d : Begins(p, q) => q = p

------------------------------------------------------------------------------
\* Metadata, of the object and of a workload's template.

metadataFieldsStrip ==
  {"resourceVersion", "uid", "generation", "creationTimestamp", "deletionTimestamp",
   "deletionGracePeriodSeconds", "selfLink", "managedFields", "ownerReferences", "finalizers"}

StrippedAnnotations == NoiseAnnotations \cup (IF PreserveHelm THEN {} ELSE HelmAnnotations)

\* A map all of whose keys were noise is deleted with them.
StripKeys(d, meta, field, keys) ==
  LET kept == Delete(d, Append(meta, field), keys)
  IN IF IsEmptyMap(kept, Append(meta, field)) THEN Delete(kept, meta, {field}) ELSE kept

SanitizeMetadata(d, meta) ==
  LET fields == Delete(d, meta, metadataFieldsStrip)
      labels == StripKeys(fields, meta, "labels", NoiseLabels)
  IN StripKeys(labels, meta, "annotations", StrippedAnnotations)

------------------------------------------------------------------------------
\* What is stripped of one kind only.

Workloads == {"Deployment", "StatefulSet", "DaemonSet"}
TemplateMetadata == <<"spec", "template", "metadata">>

\* Mutation: of the addresses of a service only one field is stripped.
SpecNoiseMutant(kind) == CASE kind = "Service" -> {"clusterIPs", "ipFamilies"}
                           [] kind = "PersistentVolumeClaim" -> {"volumeName"}
                           [] kind = "Ingress" -> {"ingressClassName"}
                           [] kind \in {"Job", "CronJob"} -> {"completionTime", "startTime"}
                           [] OTHER -> {}
SpecNoise(kind) == CASE kind = "Service" -> {"clusterIP", "clusterIPs", "ipFamilies"}
                     [] kind = "PersistentVolumeClaim" -> {"volumeName"}
                     [] kind = "Ingress" -> {"ingressClassName"}
                     [] kind \in {"Job", "CronJob"} -> {"completionTime", "startTime"}
                     [] OTHER -> {}

TopNoise(kind, d) ==
  CASE kind = "ServiceAccount" -> {"secrets"}
    [] kind = "ConfigMap" -> {k \in {"binaryData"} : IsEmptyMap(d, <<k>>)}
    [] kind = "Secret" -> {k \in {"type"} : <<k>> \in DOMAIN d /\ d[<<k>>] = EmptyString}
    [] OTHER -> {}

\* Mutation: the metadata of a workload's template is left as it is.
SanitizeKindMutant(kind, d) ==
  Delete(Delete(d, <<"spec">>, SpecNoise(kind)), <<>>, TopNoise(kind, d))
SanitizeKind(kind, d) ==
  LET spec == Delete(d, <<"spec">>, SpecNoise(kind))
      workload == IF kind \in Workloads THEN SanitizeMetadata(spec, TemplateMetadata) ELSE spec
  IN Delete(workload, <<>>, TopNoise(kind, d))

------------------------------------------------------------------------------
\* Mutation: a map is dropped if it was empty before its children were.
DropEmptyMapsMutant(d) == [p \in {p \in DOMAIN d : ~IsEmptyMap(d, p)} |-> d[p]]
\* A map is dropped when nothing is left in it, from the leaves upwards: it stays if
\* it leads to a scalar.
DropEmptyMaps(d) ==
  [p \in {p \in DOMAIN d : \E q \in DOMAIN d : Begins(p, q) /\ d[q] # Map} |-> d[p]]

SanitizeObject(o) ==
  LET meta == SanitizeMetadata(Delete(o.doc, <<>>, {"status"}), <<"metadata">>)
  IN [o EXCEPT !.doc = DropEmptyMaps(SanitizeKind(o.kind, meta))]

------------------------------------------------------------------------------
\* Reference: an object as its leaves, each a path and a scalar, to say what
\* sanitizing must do to each of them alone.

Leaves(d) == {<<p, d[p]>> : p \in {p \in DOMAIN d : d[p] # Map}}

\* A path into metadata that says something about the cluster, not the object.
NoiseInMetadata(q, meta) ==
  \/ Through(q, meta, metadataFieldsStrip)
  \/ Through(q, Append(meta, "labels"), NoiseLabels)
  \/ Through(q, Append(meta, "annotations"), StrippedAnnotations)

IsNoise(kind, leaf) ==
  \/ Through(leaf[1], <<>>, {"status"})
  \/ NoiseInMetadata(leaf[1], <<"metadata">>)
  \/ Through(leaf[1], <<"spec">>, SpecNoise(kind))
  \/ kind \in Workloads /\ NoiseInMetadata(leaf[1], TemplateMetadata)
  \/ kind = "ServiceAccount" /\ Through(leaf[1], <<>>, {"secrets"})
  \/ kind = "Secret" /\ leaf = <<<<"type">>, EmptyString>>

\* What an object says that another cluster should hear.
Meaning(o) == {l \in Leaves(o.doc) : ~IsNoise(o.kind, l)}
=============================================================================
