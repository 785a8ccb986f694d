----------------------------- MODULE MCManifests -----------------------------
(***************************************************************************)
(* Small instances of Manifests for TLC: one object each of several kinds, *)
(* with and without the fields the sanitizer knows for that kind.          *)
(***************************************************************************)
EXTENDS Manifests, TLC

CONSTANTS empty,          \* the empty string
          v1, v2,         \* two values of a field
          noise,          \* any value a server or a tool sets
          longhorn,       \* a cluster-local storage class
          disks           \* a list of volumes

MCScalars == {empty, v1, v2, noise, longhorn, disks}
MCSortedKeys == <<"annotations", "app", "class", "clusterIP", "data", "hash", "helm", "imagePullSecrets", "ingressClassName",
                  "jobTemplate", "labels", "metadata", "nginx", "replicas", "rules", "secrets", "selector", "spec",
                  "startTime", "status", "storageClassName", "template", "type", "uid", "volumeClaimTemplates",
                  "volumeName", "volumes">>
MCKeys == ToSet(MCSortedKeys)
MCItems == disks :> {[name |-> "data", source |-> "persistentVolumeClaim", names |-> v1],
                     [name |-> "cache", source |-> "emptyDir", names |-> empty]}
MCFamily == "nginx" :> "nginx"

\* A document written as a record of records.
RECURSIVE Nodes(_)
Nodes(m) ==
  LET below(k) == IF m[k] \in MCScalars THEN [p \in {<<k>>} |-> m[k]]
                  ELSE [p \in {<<k>>} \cup {<<k>> \o q : q \in DOMAIN Nodes(m[k])} |->
                          IF p = <<k>> THEN Map ELSE Nodes(m[k])[Tail(p)]]
  IN [p \in UNION {DOMAIN below(k) : k \in DOMAIN m} |-> below(p[1])[p]]

EmptyMap == [k \in {} |-> empty]
Object(kind, m) == [kind |-> kind, doc |-> Nodes(m)]

ServerMeta == [uid |-> noise]
MCServerSets ==
  [k \in {"Ingress", "Service", "Deployment", "CronJob", "PersistentVolumeClaim", "Secret", "ServiceAccount"} |->
     Nodes(CASE k = "Service" -> [metadata |-> ServerMeta, status |-> noise, spec |-> [clusterIP |-> noise]]
       [] k = "PersistentVolumeClaim" -> [metadata |-> ServerMeta, status |-> noise, spec |-> [volumeName |-> noise]]
       [] k = "CronJob" -> [metadata |-> ServerMeta, status |-> noise, spec |-> [startTime |-> noise]]
       [] k = "ServiceAccount" -> [metadata |-> ServerMeta, secrets |-> noise]
       [] OTHER -> [metadata |-> ServerMeta, status |-> noise])]

MCDefaults == [k \in DOMAIN MCServerSets |->
                 Nodes(IF k = "Service" THEN [spec |-> [type |-> v1]] ELSE EmptyMap)]

Ingresses == {Object("Ingress", [metadata |-> m, spec |-> s]) :
                m \in {[uid |-> noise, annotations |-> "class" :> v1],
                       [uid |-> noise, annotations |-> ("class" :> v1) @@ ("nginx" :> v2) @@ ("helm" :> v1)],
                       [labels |-> "app" :> v1]},
                s \in {[ingressClassName |-> v1], [rules |-> v2]}}
             \cup {Object("Ingress", [spec |-> [ingressClassName |-> v1, rules |-> v1]])}
Services == {Object("Service", [metadata |-> ServerMeta, status |-> noise, spec |-> s]) :
               s \in {[clusterIP |-> noise, type |-> v1], [selector |-> EmptyMap, type |-> v1],
                      [selector |-> [app |-> v1], type |-> v1], [selector |-> v1, type |-> v2]}}
Deployments == {Object("Deployment", [metadata |-> [labels |-> l], spec |-> s]) :
                  l \in {EmptyMap, [app |-> v1], [hash |-> noise]},
                  s \in {[replicas |-> v1, template |-> [metadata |-> [labels |-> [hash |-> noise]]]],
                         [replicas |-> v2, template |-> [metadata |-> [labels |-> [app |-> v1, hash |-> noise]],
                                                         spec |-> [volumes |-> disks]]]}}
CronJobs == {Object("CronJob", [spec |-> s]) :
               s \in {[startTime |-> noise, jobTemplate |-> [spec |-> [template |-> [spec |-> [volumes |-> disks]]]]],
                      [jobTemplate |-> EmptyMap], [jobTemplate |-> [spec |-> [template |-> v1]]]}}
Claims == {Object("PersistentVolumeClaim", [metadata |-> ServerMeta, spec |-> s]) :
             s \in {[storageClassName |-> longhorn, volumeName |-> noise], [storageClassName |-> v1], [volumeName |-> noise]}}
Secrets == {Object("Secret", [metadata |-> ServerMeta, type |-> t, data |-> d]) :
              t \in {empty, v1}, d \in {EmptyMap, [app |-> v1], [app |-> v2, nginx |-> v1]}}
Accounts == {Object("ServiceAccount", d) :
               d \in {[metadata |-> ServerMeta, secrets |-> noise], [imagePullSecrets |-> v1, secrets |-> noise],
                      [imagePullSecrets |-> v2]}}

Untyped == Object("Service", [spec |-> [clusterIP |-> noise]])

MCObjects == Ingresses \cup Services \cup Deployments \cup CronJobs \cup Claims \cup Secrets \cup Accounts
MCEdits == MCObjects \cup {Untyped}
=============================================================================
