------------------------------- MODULE Deployer -------------------------------
(***************************************************************************)
(* Deploying stored manifests to the DR cluster (internal/k8s/deployer.go, *)
(* comparator.go compareOne, and the Deploy handler).                      *)
(*                                                                         *)
(* Nothing is locked: several requests run at once, and while they do,     *)
(* scrapes and operators change the store and others change the DR         *)
(* cluster.  A call to the cluster may fail, and one that answered with an *)
(* error may still have been carried out.  The handler requires a          *)
(* namespace, so all targets of a request are in one; a local copy may     *)
(* name another object, or another namespace, than its entry.  Names are   *)
(* numbers, for their order; the index lists entries in some fixed order.  *)
(***************************************************************************)
EXTENDS Integers, FiniteSets

CONSTANTS Namespace, Elsewhere,  \* the namespace deployed, and another one
          Entries,      \* [kind, name]: what the index may list of Namespace
          Fields, Values,
          Documents(_), \* the manifests an entry may have: [namespace, name, data]
          Foreign,      \* data that objects others made may have
          Requests,     \* bound: the Deploy requests, which may run at once
          MaxEvents,    \* bound: calls that fail, and changes of the store or, by
                        \* others, of the cluster
          NoEntry, Unreadable, NoObject, NoTarget

Data == UNION {[S -> Values] : S \in SUBSET Fields}

ASSUME DeployerAssumption ==
  /\ MaxEvents \in Nat
  /\ Namespace # Elsewhere
  /\ Foreign \subseteq Data
  /\ \A e \in Entries : e.name \in Nat /\ e = [kind |-> e.kind, name |-> e.name]
  /\ \A e \in Entries : \A d \in Documents(e) : d.data \in Data

\* The sentinels are none of the values they stand beside.
ASSUME SentinelAssumption ==
  /\ NoTarget \notin Entries /\ NoEntry # Unreadable
  /\ \A e \in Entries : {NoEntry, Unreadable} \cap Documents(e) = {}
  /\ NoObject \notin [data : Data, ours : SUBSET Fields]

Filters == {"missing", "drifted", "all"}

VARIABLES view,        \* what Get returns for an entry: its manifest or local copy
          exists,      \* namespaces of the DR cluster
          live,        \* its objects
          phase, asked, \* of a request: where it is, and its filter or single target
          ensured,     \* what ensureNamespace has answered it
          toCompare, todo, success, failed,
          current, held, \* the target being deployed and the manifest read for it
          targets,     \* history: everything selected
          disturbed,   \* history: has something else changed since it began
          events       \* calls failed and changes made so far

request == <<phase, asked, ensured, toCompare, todo, success, failed, current, held, targets>>
vars == <<view, exists, live, request, disturbed, events>>

Stored == [e \in Entries |-> Documents(e) \cup {NoEntry, Unreadable}]
AllDocuments == UNION {Documents(e) : e \in Entries}

\* The object a manifest of an entry is applied to.
Object(e, d) == <<d.namespace, e.kind, d.name>>
Ids == {<<Namespace, e.kind, e.name>> : e \in Entries}
         \cup UNION {{Object(e, d) : d \in Documents(e)} : e \in Entries}

\* `ours` are the fields DrKate's field manager owns.
ForeignObjects == [data : Foreign, ours : {{}}]
Objects == [data : Data, ours : SUBSET Fields]

TypeOK ==
  /\ \A e \in Entries : view[e] \in Stored[e]
  /\ exists \subseteq {Namespace, Elsewhere}
  /\ live \in [Ids -> Objects \cup {NoObject}]
  /\ phase \in [Requests -> {"idle", "selecting", "ensuring", "deploying", "applying", "done"}]
  /\ asked \in [Requests -> Filters \cup {"one"}]
  /\ ensured \in [Requests -> {"unasked", "ok", "failed"}]
  /\ \A sets \in {toCompare, todo, success, failed, targets} : sets \in [Requests -> SUBSET Entries]
  /\ current \in [Requests -> Entries \cup {NoTarget}]
  /\ held \in [Requests -> AllDocuments \cup {NoEntry}]
  /\ disturbed \in [Requests -> BOOLEAN]
  /\ events \in 0..MaxEvents

Init ==
  /\ view \in {v \in [Entries -> AllDocuments] : \A e \in Entries : v[e] \in Documents(e)}
  /\ exists \in {{Elsewhere}, {Namespace, Elsewhere}}
  /\ live \in [Ids -> ForeignObjects \cup {NoObject}]
  /\ \A id \in Ids : live[id] # NoObject => id[1] \in exists
  /\ phase = [q \in Requests |-> "idle"]
  /\ asked = [q \in Requests |-> "all"]
  /\ ensured = [q \in Requests |-> "unasked"]
  /\ toCompare = [q \in Requests |-> {}] /\ todo = toCompare /\ success = toCompare
  /\ failed = toCompare /\ targets = toCompare
  /\ current = [q \in Requests |-> NoTarget]
  /\ held = [q \in Requests |-> NoEntry]
  /\ disturbed = [q \in Requests |-> FALSE]
  /\ events = 0

Event == events < MaxEvents /\ events' = events + 1

------------------------------------------------------------------------------
\* The order of deployment.

deployPriority ==
  [Namespace |-> 10, ServiceAccount |-> 20, ConfigMap |-> 30, Secret |-> 31,
   PersistentVolumeClaim |-> 40, Service |-> 50, Deployment |-> 60, StatefulSet |-> 61,
   DaemonSet |-> 62, Job |-> 63, CronJob |-> 64, Ingress |-> 70, NetworkPolicy |-> 71,
   HorizontalPodAutoscaler |-> 72, PodDisruptionBudget |-> 73, Role |-> 80, RoleBinding |-> 81]

\* Mutation: unknown kinds and the dependencies share the lowest priority.
PriorityMutant(kind) == IF kind = "Secret" THEN 71 ELSE 0
\* A Go map answers 0 for a kind it does not have.
Priority(kind) == IF kind \in DOMAIN deployPriority THEN deployPriority[kind] ELSE 0

Before(t, u) == \/ Priority(t.kind) < Priority(u.kind)
                \/ Priority(t.kind) = Priority(u.kind) /\ t.name < u.name

\* What sort.Slice may put first: custom resources of one name have no order.
First(q) == {t \in todo[q] : \A u \in todo[q] : ~Before(u, t)}

------------------------------------------------------------------------------
\* Selecting the targets.

Listed == {e \in Entries : view[e] # NoEntry}

Begins(q, what, selected) ==
  /\ phase[q] = "idle"
  /\ asked' = [asked EXCEPT ![q] = what] /\ ensured' = [ensured EXCEPT ![q] = "unasked"]
  /\ todo' = [todo EXCEPT ![q] = selected]
  /\ targets' = [targets EXCEPT ![q] = selected]
  /\ success' = [success EXCEPT ![q] = {}] /\ failed' = [failed EXCEPT ![q] = {}]
  /\ disturbed' = [disturbed EXCEPT ![q] = FALSE]
  /\ UNCHANGED <<view, exists, live, current, held, events>>

\* A single target need not be listed.
DeployOne(q, e) == /\ Begins(q, "one", {e})
                   /\ phase' = [phase EXCEPT ![q] = "ensuring"]
                   /\ UNCHANGED toCompare

DeployAll(q) == /\ Begins(q, "all", Listed)
                /\ phase' = [phase EXCEPT ![q] = "ensuring"]
                /\ UNCHANGED toCompare

DeployFiltered(q, filter) ==
  /\ Begins(q, filter, {})
  /\ phase' = [phase EXCEPT ![q] = "selecting"]
  /\ toCompare' = [toCompare EXCEPT ![q] = Listed]

EntryId(e) == <<Namespace, e.kind, e.name>>

\* Mutation: only an object that is as stored counts as being there.
StatusMutant(e) == IF live[EntryId(e)] # NoObject /\ live[EntryId(e)].data = view[e].data
                     THEN "synced" ELSE "missing"
\* compareOne, which looks under the name of the entry.
Status(e) == IF live[EntryId(e)] = NoObject THEN "missing"
             ELSE IF live[EntryId(e)].data = view[e].data THEN "synced" ELSE "drifted"

Readable(e) == view[e] \notin {NoEntry, Unreadable}

Selected(q, e, verdict) ==
  IF verdict = asked[q]
    THEN /\ todo' = [todo EXCEPT ![q] = @ \cup {e}]
         /\ targets' = [targets EXCEPT ![q] = @ \cup {e}]
    ELSE UNCHANGED <<todo, targets>>

\* In the order of the index.  Any error of the call counts as missing; an entry that cannot be read is
\* passed over.
Compare(q, e) ==
  /\ phase[q] = "selecting" /\ toCompare[q] # {}
  /\ e = CHOOSE x \in toCompare[q] : TRUE
  /\ toCompare' = [toCompare EXCEPT ![q] = @ \ {e}]
  /\ \/ /\ ~Readable(e)
        /\ UNCHANGED <<todo, targets, disturbed, events>>
     \/ /\ Readable(e)
        /\ Selected(q, e, Status(e))
        /\ UNCHANGED <<disturbed, events>>
     \/ /\ Readable(e) /\ Event
        /\ Selected(q, e, "missing")
        /\ disturbed' = [disturbed EXCEPT ![q] = TRUE]
  /\ UNCHANGED <<view, exists, live, phase, asked, ensured, success, failed, current, held>>

Compared(q) == phase[q] = "selecting" /\ toCompare[q] = {}

------------------------------------------------------------------------------
\* Deploying them.

\* Every target is reported with the error of the namespace.
NamespaceFailed(q) ==
  /\ ensured' = [ensured EXCEPT ![q] = "failed"]
  /\ phase' = [phase EXCEPT ![q] = "done"]
  /\ failed' = [failed EXCEPT ![q] = todo[q]]
  /\ todo' = [todo EXCEPT ![q] = {}]

\* ensureNamespace, before the first target; its answer holds for all of them.
\* Somebody else may create the namespace between its two calls.
EnsureNamespace(q) ==
  /\ phase[q] = "ensuring" \/ Compared(q)
  /\ todo[q] # {}
  /\ \/ /\ exists' = exists \cup {Namespace}
        /\ ensured' = [ensured EXCEPT ![q] = "ok"]
        /\ phase' = [phase EXCEPT ![q] = "deploying"]
        /\ UNCHANGED <<todo, failed, events>>
     \/ /\ Event
        /\ exists' \in {exists, exists \cup {Namespace}}
        /\ NamespaceFailed(q)
  /\ UNCHANGED <<view, live, asked, toCompare, success, current, held, targets, disturbed>>

ReadFailed(q, t) == /\ failed' = [failed EXCEPT ![q] = @ \cup {t}]
                    /\ UNCHANGED <<phase, current, held>>

\* Mutation: an error of the read is not looked at.
ReadMutant(q, t) ==
  /\ phase[q] = "deploying" /\ t \in First(q)
  /\ todo' = [todo EXCEPT ![q] = @ \ {t}]
  /\ phase' = [phase EXCEPT ![q] = "applying"]
  /\ current' = [current EXCEPT ![q] = t]
  /\ held' = [held EXCEPT ![q] = view[t]]
  /\ UNCHANGED <<view, exists, live, asked, ensured, toCompare, success, failed, targets,
                 disturbed, events>>
\* deployOne reads the manifest...
Read(q, t) ==
  /\ phase[q] = "deploying" /\ t \in First(q)
  /\ todo' = [todo EXCEPT ![q] = @ \ {t}]
  /\ IF Readable(t)
       THEN /\ phase' = [phase EXCEPT ![q] = "applying"]
            /\ current' = [current EXCEPT ![q] = t]
            /\ held' = [held EXCEPT ![q] = view[t]]
            /\ UNCHANGED failed
       ELSE ReadFailed(q, t)
  /\ UNCHANGED <<view, exists, live, asked, ensured, toCompare, success, targets, disturbed, events>>

\* Server-side apply with force: the fields of the manifest are set and owned,
\* those of an earlier manifest that it lacks are removed, others stay.
Applied(o, d) ==
  LET kept == IF o = NoObject THEN {} ELSE DOMAIN o.data \ (o.ours \cup DOMAIN d.data)
  IN [data |-> [f \in kept \cup DOMAIN d.data |->
                  IF f \in DOMAIN d.data THEN d.data[f] ELSE o.data[f]],
      ours |-> DOMAIN d.data]

\* Mutation: the object is the one the entry names.
TargetMutant(q) == EntryId(current[q])
Target(q) == Object(current[q], held[q])

LiveAfterApply(q) == [live EXCEPT ![Target(q)] = Applied(@, held[q])]

\* What a disturbed request applies may be out of date, and disturbs the others.
NotedBy(q) == disturbed' = [p \in Requests |-> disturbed[p] \/ (disturbed[q] /\ phase[p] # "idle")]

Reported(q, ok) ==
  /\ success' = [success EXCEPT ![q] = IF ok THEN @ \cup {current[q]} ELSE @]
  /\ failed' = [failed EXCEPT ![q] = IF ok THEN @ ELSE @ \cup {current[q]}]

\* ... and applies it.
Apply(q) ==
  /\ phase[q] = "applying"
  /\ \/ /\ Target(q)[1] \in exists
        /\ live' = LiveAfterApply(q)
        /\ Reported(q, TRUE)
        /\ UNCHANGED events
     \/ /\ Target(q)[1] \notin exists
        /\ UNCHANGED live
        /\ Reported(q, FALSE)
        /\ UNCHANGED events
     \/ /\ Event
        /\ \/ UNCHANGED live
           \/ Target(q)[1] \in exists /\ live' = LiveAfterApply(q)
        /\ Reported(q, FALSE)
  /\ phase' = [phase EXCEPT ![q] = "deploying"]
  /\ current' = [current EXCEPT ![q] = NoTarget]
  /\ held' = [held EXCEPT ![q] = NoEntry]
  /\ NotedBy(q)
  /\ UNCHANGED <<view, exists, asked, ensured, toCompare, todo, targets>>

\* Mutation: the loop ends at the first target that fails.
AnswerMutant(q) ==
  /\ phase[q] \in {"ensuring", "deploying"} \/ Compared(q)
  /\ todo[q] = {} \/ failed[q] # {}
  /\ phase' = [phase EXCEPT ![q] = "done"]
  /\ UNCHANGED <<view, exists, live, asked, ensured, toCompare, todo, success, failed, current,
                 held, targets, disturbed, events>>
\* The handler answers.
Answer(q) ==
  /\ phase[q] \in {"ensuring", "deploying"} \/ Compared(q)
  /\ todo[q] = {}
  /\ phase' = [phase EXCEPT ![q] = "done"]
  /\ UNCHANGED <<view, exists, live, asked, ensured, toCompare, todo, success, failed, current,
                 held, targets, disturbed, events>>

------------------------------------------------------------------------------
\* What happens meanwhile.

Noted == /\ Event
         /\ disturbed' = [q \in Requests |-> disturbed[q] \/ phase[q] # "idle"]
         /\ UNCHANGED request

\* A scrape, an edit, a discarded edit or a deletion.
StoreChanges(e) == /\ \E d \in Stored[e] \ {view[e]} : view' = [view EXCEPT ![e] = d]
                   /\ Noted /\ UNCHANGED <<exists, live>>

ObjectChanges(id) ==
  /\ id[1] \in exists
  /\ \E o \in (ForeignObjects \cup {NoObject}) \ {live[id]} : live' = [live EXCEPT ![id] = o]
  /\ Noted /\ UNCHANGED <<view, exists>>

NamespaceDeleted(n) ==
  /\ n \in exists
  /\ exists' = exists \ {n}
  /\ live' = [id \in Ids |-> IF id[1] = n THEN NoObject ELSE live[id]]
  /\ Noted /\ UNCHANGED view

Deploying(q) == \/ \E e \in Entries : Compare(q, e)
                \/ EnsureNamespace(q)
                \/ \E t \in Entries : Read(q, t)
                \/ Apply(q)
                \/ Answer(q)

Next == \/ \E q \in Requests, e \in Entries : DeployOne(q, e)
        \/ \E q \in Requests : DeployAll(q) \/ \E filter \in {"missing", "drifted"} : DeployFiltered(q, filter)
        \/ \E q \in Requests : Deploying(q)
        \/ \E e \in Entries : StoreChanges(e)
        \/ \E id \in Ids : ObjectChanges(id)
        \/ \E n \in {Namespace, Elsewhere} : NamespaceDeleted(n)

Spec == Init /\ [][Next]_vars

------------------------------------------------------------------------------
\* Properties.

\* Each target of a request is yet to come, being applied, or reported, once; a
\* request that has answered has reported every one of them, however their calls
\* end; and none is a success unless the namespace could be ensured.
EveryTargetIsReported ==
  \A q \in Requests :
    /\ targets[q] = todo[q] \cup success[q] \cup failed[q] \cup ({current[q]} \ {NoTarget})
    /\ success[q] \cap failed[q] = {} /\ todo[q] \cap (success[q] \cup failed[q]) = {}
    /\ current[q] \notin todo[q] \cup success[q] \cup failed[q]
    /\ phase[q] = "done" => todo[q] = {} /\ current[q] = NoTarget
    /\ success[q] # {} => ensured[q] = "ok"

Workloads == {"Deployment", "StatefulSet", "DaemonSet", "Job", "CronJob"}

\* Which objects must be there for one to start or to be accepted.
Needs(kind, other) ==
  \/ kind \in Workloads
     /\ other \in {"ServiceAccount", "ConfigMap", "Secret", "PersistentVolumeClaim", "Service"}
  \/ kind = "Ingress" /\ other \in {"Secret", "Service"}
  \/ kind = "HorizontalPodAutoscaler" /\ other \in Workloads
  \/ kind = "RoleBinding" /\ other \in {"Role", "ServiceAccount"}

\* What an object of a known kind needs is dealt with before it, also when a
\* target between them fails.
NeedsComeFirst ==
  \A q \in Requests, t, u \in Entries :
    (t \in success[q] \cup failed[q] \cup {current[q]} /\ u \in todo[q]) => ~Needs(t.kind, u.kind)

SameObject(t, u) == t.kind = u.kind /\ Readable(t) /\ Readable(u)
                    /\ Object(t, view[t]) = Object(u, view[u])

\* When neither the store nor the cluster was changed by others, a target reported
\* as deployed is what its manifest says, but for fields somebody else owns: other
\* requests that run at the same time do no harm, unless two manifests name one object.
SuccessIsLive ==
  \A q \in Requests, t \in Entries :
    (phase[q] = "done" /\ ~disturbed[q] /\ t \in success[q]
       /\ \A u \in Entries \ {t} : ~SameObject(t, u))
      => LET o == live[Object(t, view[t])] d == view[t].data
         IN o # NoObject /\ \A f \in Fields :
              /\ f \in DOMAIN d => f \in DOMAIN o.data /\ o.data[f] = d[f]
              /\ f \in o.ours => f \in DOMAIN d

NoneRenamed == \A e \in Entries : Readable(e) => Object(e, view[e]) = EntryId(e)

\* "Deploy missing" changes no object that is there, not even one that another
\* request to DrKate has created since it looked.  It is no promise about others: when
\* somebody else creates the object in between, or a look fails, the forced apply
\* writes over it (`disturbed`); and a renamed copy is looked up under one name and
\* applied under another.
MissingTouchesNothing ==
  [][\A q \in Requests, id \in Ids :
       (phase[q] = "applying" /\ phase'[q] = "deploying" /\ asked[q] = "missing"
          /\ ~disturbed[q] /\ NoneRenamed /\ live[id] # NoObject)
         => live'[id] = live[id]]_vars
=============================================================================
