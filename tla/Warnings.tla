------------------------------ MODULE Warnings ------------------------------
(***************************************************************************)
(* What an operator is warned of before a deploy (internal/k8s/warnings.go)*)
(* A warning is its code and what it is about: the subject that is named   *)
(* in its message and the reason.  A list of volumes or of claim templates *)
(* is a scalar of the document; Items says what is in it.  A volume has a  *)
(* name, one source and what the source names: a claim, a driver, a class. *)
(***************************************************************************)
EXTENDS Sanitizer

CONSTANTS Items,         \* scalar -> the volumes or templates of that list
          LocalNames,    \* class and driver names that look cluster-local
          IngressClass,  \* the annotation key kubernetes.io/ingress.class
          Family         \* annotation key -> ingress controller it belongs to

\* Lists are scalars, and the class annotation is one of those stripped and of no family.
ASSUME WarningsAssumption == /\ {"storageClassName", "ingressClassName", "volumes", "jobTemplate",
                                 "volumeClaimTemplates", IngressClass} \subseteq Keys
                             /\ DOMAIN Items \subseteq Scalars
                             /\ IngressClass \in NoiseAnnotations
                             /\ IngressClass \notin DOMAIN Family
                             /\ \A k \in DOMAIN Family : Family[k] # "Ingress"

Warning(code, subject, reason) == [code |-> code, subject |-> subject, reason |-> reason]

String(d, p) == IF p \in DOMAIN d /\ d[p] # Map THEN d[p] ELSE EmptyString
ListAt(d, p) == IF p \in DOMAIN d /\ d[p] \in DOMAIN Items THEN Items[d[p]] ELSE {}

StorageClassReason(class) == IF class = EmptyString THEN "default class"
                             ELSE IF class \in LocalNames THEN "local class" ELSE "class"

PvcWarnings(o) ==
  {Warning("storage", "PVC", StorageClassReason(String(o.doc, <<"spec", "storageClassName">>))) :
     k \in {o.kind} \cap {"PersistentVolumeClaim"}}

nodeSources == {"hostPath", "nfs", "iscsi", "local"}
skippedVolumeSources == {"emptyDir", "configMap", "secret", "projected", "downwardAPI", "serviceAccountToken"}

DescribeVolume(v) ==
  CASE v.source = "persistentVolumeClaim" -> {"mounts PVC"}
    [] v.source = "csi" -> {IF v.names \in LocalNames THEN "local driver" ELSE "driver"}
    [] v.source = "ephemeral" -> {StorageClassReason(v.names)}
    [] v.source \in nodeSources -> {"node source"}
    [] v.source \in skippedVolumeSources -> {}
    [] OTHER -> {"unknown source"}

VolumePaths == {<<"spec", "volumes">>,
                <<"spec", "template", "spec", "volumes">>,
                <<"spec", "jobTemplate", "spec", "template", "spec", "volumes">>}

VolumeWarnings(o) ==
  UNION {UNION {{Warning("storage", v.name, r) : r \in DescribeVolume(v)} : v \in ListAt(o.doc, p)} :
           p \in VolumePaths}

ClaimTemplateWarnings(o) ==
  {Warning("storage", t.name, StorageClassReason(t.names)) :
     t \in ListAt(o.doc, <<"spec", "volumeClaimTemplates">>)}

ingressCRDKinds == {"IngressRoute", "IngressRouteTCP", "IngressRouteUDP", "Middleware", "HTTPProxy",
                    "VirtualService", "Gateway", "HTTPRoute", "GRPCRoute", "TLSRoute", "TCPRoute"}

AnnotationsOf(o) ==
  {p[3] : p \in {q \in DOMAIN o.doc : Len(q) = 3 /\ q[1] = "metadata" /\ q[2] = "annotations"}}

\* "This is stripped on scrape so DR can use its own controller."
ClassWarnings(o) ==
  {Warning("ingress", "Ingress", p) :
     p \in {q \in {<<"spec", "ingressClassName">>, <<"metadata", "annotations", IngressClass>>} :
              o.kind = "Ingress" /\ String(o.doc, q) # EmptyString}}

IngressWarnings(o) ==
  {Warning("ingress", k, "controller kind") : k \in {o.kind} \cap ingressCRDKinds}
  \cup ClassWarnings(o)
  \cup {Warning("ingress", Family[k], "annotations") : k \in AnnotationsOf(o) \cap DOMAIN Family}

DetectWarnings(o) ==
  PvcWarnings(o) \cup VolumeWarnings(o) \cup ClaimTemplateWarnings(o) \cup IngressWarnings(o)
=============================================================================
