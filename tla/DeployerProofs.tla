---------------------------- MODULE DeployerProofs ----------------------------
(***************************************************************************)
(* Proofs about Deployer for every set of entries and manifests, any       *)
(* number of requests, and any number of failing calls and changes.        *)
(***************************************************************************)
EXTENDS Deployer, TLAPS

Phases == {"idle", "selecting", "ensuring", "deploying", "applying", "done"}

\* The part of the type invariant that concerns requests.
Typed ==
  /\ phase \in [Requests -> Phases]
  /\ todo \in [Requests -> SUBSET Entries] /\ success \in [Requests -> SUBSET Entries]
  /\ failed \in [Requests -> SUBSET Entries] /\ targets \in [Requests -> SUBSET Entries]
  /\ toCompare \in [Requests -> SUBSET Entries]
  /\ current \in [Requests -> Entries \cup {NoTarget}]
  /\ ensured \in [Requests -> {"unasked", "ok", "failed"}]

\* A request holds a target only while it applies it, has an answer for none before
\* it deploys, and deploys in a namespace that is ensured.
Phased ==
  \A q \in Requests :
    /\ phase[q] # "applying" => current[q] = NoTarget
    /\ phase[q] = "applying" => current[q] \in Entries
    /\ phase[q] \in {"selecting", "ensuring"} => success[q] = {} /\ failed[q] = {}
    /\ phase[q] \in {"deploying", "applying"} => ensured[q] = "ok"

------------------------------------------------------------------------------
\* How each operation changes what it is responsible for.

\* Other requests are left alone.
Alone(q) == \A p \in Requests \ {q} :
  /\ phase'[p] = phase[p] /\ todo'[p] = todo[p] /\ success'[p] = success[p]
  /\ failed'[p] = failed[p] /\ targets'[p] = targets[p] /\ current'[p] = current[p]
  /\ ensured'[p] = ensured[p]

\* A request begins: with any entries to deploy, and nothing dealt with.
Start(q) ==
  /\ todo'[q] \in SUBSET Entries /\ targets'[q] = todo'[q]
  /\ success'[q] = {} /\ failed'[q] = {} /\ current'[q] = NoTarget
  /\ phase'[q] \in {"selecting", "ensuring"}

\* It selects an entry, before it deploys any.
Select(q) ==
  /\ phase[q] \in {"selecting", "ensuring"} /\ phase'[q] = phase[q]
  /\ \E e \in Entries : \/ todo'[q] = todo[q] /\ targets'[q] = targets[q]
                        \/ todo'[q] = todo[q] \cup {e} /\ targets'[q] = targets[q] \cup {e}
  /\ success'[q] = success[q] /\ failed'[q] = failed[q] /\ current'[q] = current[q]

\* It goes on with its targets as they are: the namespace is there, or there are none.
GoOn(q) ==
  /\ phase[q] # "applying"
  /\ \/ phase[q] \in {"selecting", "ensuring"} /\ phase'[q] = "deploying" /\ ensured'[q] = "ok"
     \/ phase'[q] = "done" /\ todo[q] = {} /\ ensured'[q] = ensured[q]
  /\ todo'[q] = todo[q] /\ targets'[q] = targets[q] /\ current'[q] = current[q]
  /\ success'[q] = success[q] /\ failed'[q] = failed[q]

\* It gives up all its targets.
GiveUp(q) ==
  /\ phase[q] \in {"selecting", "ensuring"} /\ phase'[q] = "done"
  /\ todo'[q] = {} /\ failed'[q] = todo[q]
  /\ success'[q] = success[q] /\ targets'[q] = targets[q] /\ current'[q] = current[q]

\* It takes the first target it has, or reports that it cannot be read.
Take(q) ==
  /\ phase[q] = "deploying" /\ success'[q] = success[q] /\ targets'[q] = targets[q]
  /\ ensured'[q] = ensured[q]
  /\ \E t \in First(q) :
       /\ todo'[q] = todo[q] \ {t}
       /\ \/ phase'[q] = "applying" /\ current'[q] = t /\ failed'[q] = failed[q]
          \/ phase'[q] = "deploying" /\ current'[q] = current[q] /\ failed'[q] = failed[q] \cup {t}

\* It reports the target it has taken.
Report(q) ==
  /\ phase[q] = "applying" /\ phase'[q] = "deploying" /\ current'[q] = NoTarget
  /\ todo'[q] = todo[q] /\ targets'[q] = targets[q] /\ ensured'[q] = ensured[q]
  /\ \/ success'[q] = success[q] \cup {current[q]} /\ failed'[q] = failed[q]
     \/ success'[q] = success[q] /\ failed'[q] = failed[q] \cup {current[q]}

\* One operation of one request.
Operation(q) == Alone(q) /\ (Start(q) \/ Select(q) \/ GoOn(q) \/ GiveUp(q) \/ Take(q) \/ Report(q))

\* Beginning.
LEMMA BeginsIs ==
  ASSUME Typed, Phased, NEW q \in Requests, NEW what, NEW selected \in SUBSET Entries,
         Begins(q, what, selected), NEW p \in {"selecting", "ensuring"},
         phase' = [phase EXCEPT ![q] = p],
         toCompare' \in [Requests -> SUBSET Entries]
  PROVE  Operation(q) /\ Typed'
<1>1. current[q] = NoTarget
  BY DEF Begins, Phased
<1>2. Typed'
  BY DEF Begins, Typed, Phases
<1>3. Start(q)
  BY <1>1 DEF Begins, Typed, Start
<1>4. Alone(q)
  BY DEF Begins, Typed, Alone
<1> QED BY <1>2, <1>3, <1>4 DEF Operation

\* Selecting.
LEMMA CompareIs ==
  ASSUME Typed, Phased, NEW q \in Requests, NEW e \in Entries, Compare(q, e)
  PROVE  Operation(q) /\ Typed'
<1>1. \/ UNCHANGED <<todo, targets>>
      \/ /\ todo' = [todo EXCEPT ![q] = @ \cup {e}]
         /\ targets' = [targets EXCEPT ![q] = @ \cup {e}]
  BY DEF Compare, Selected
<1>2. /\ phase[q] = "selecting"
      /\ toCompare' = [toCompare EXCEPT ![q] = @ \ {e}]
      /\ UNCHANGED <<phase, ensured, success, failed, current>>
  BY DEF Compare
<1>3. Typed'
  BY <1>1, <1>2 DEF Typed
<1>4. Alone(q) /\ Select(q)
  BY <1>1, <1>2 DEF Typed, Alone, Select
<1> QED BY <1>3, <1>4 DEF Operation

\* Ensuring the namespace.
LEMMA EnsureNamespaceIs ==
  ASSUME Typed, Phased, NEW q \in Requests, EnsureNamespace(q)
  PROVE  Operation(q) /\ Typed'
<1>1. /\ phase[q] \in {"selecting", "ensuring"}
      /\ UNCHANGED <<toCompare, success, current, targets>>
  BY DEF EnsureNamespace, Compared
<1>2. CASE /\ phase' = [phase EXCEPT ![q] = "deploying"]
           /\ ensured' = [ensured EXCEPT ![q] = "ok"]
           /\ UNCHANGED <<todo, failed>>
  <2>1. Typed'
    BY <1>1, <1>2 DEF Typed, Phases
  <2>2. Alone(q) /\ GoOn(q)
    BY <1>1, <1>2 DEF Typed, Alone, GoOn
  <2> QED BY <2>1, <2>2 DEF Operation
<1>3. CASE NamespaceFailed(q)
  <2>1. Typed'
    BY <1>1, <1>3 DEF NamespaceFailed, Typed, Phases
  <2>2. Alone(q) /\ GiveUp(q)
    BY <1>1, <1>3 DEF NamespaceFailed, Typed, Alone, GiveUp
  <2> QED BY <2>1, <2>2 DEF Operation
<1> QED BY <1>2, <1>3 DEF EnsureNamespace

\* Reading.
LEMMA ReadIs ==
  ASSUME Typed, Phased, NEW q \in Requests, NEW t \in Entries, Read(q, t)
  PROVE  Operation(q) /\ Typed'
<1>1. /\ phase[q] = "deploying" /\ t \in First(q)
      /\ todo' = [todo EXCEPT ![q] = @ \ {t}]
      /\ UNCHANGED <<ensured, toCompare, success, targets>>
  BY DEF Read
<1>2. CASE /\ phase' = [phase EXCEPT ![q] = "applying"]
           /\ current' = [current EXCEPT ![q] = t]
           /\ UNCHANGED failed
  <2>1. Typed'
    BY <1>1, <1>2 DEF Typed, Phases
  <2>2. Alone(q) /\ Take(q)
    BY <1>1, <1>2 DEF Typed, Alone, Take
  <2> QED BY <2>1, <2>2 DEF Operation
<1>3. CASE ReadFailed(q, t)
  <2>1. Typed'
    BY <1>1, <1>3 DEF ReadFailed, Typed
  <2>2. Alone(q) /\ Take(q)
    BY <1>1, <1>3 DEF ReadFailed, Typed, Alone, Take
  <2> QED BY <2>1, <2>2 DEF Operation
<1> QED BY <1>2, <1>3 DEF Read

\* Applying.
LEMMA ApplyIs ==
  ASSUME Typed, Phased, NEW q \in Requests, Apply(q)
  PROVE  Operation(q) /\ Typed'
<1>1. /\ phase[q] = "applying"
      /\ phase' = [phase EXCEPT ![q] = "deploying"]
      /\ current' = [current EXCEPT ![q] = NoTarget]
      /\ UNCHANGED <<ensured, toCompare, todo, targets>>
  BY DEF Apply
<1>2. current[q] \in Entries
  BY <1>1 DEF Phased
<1>3. Reported(q, TRUE) \/ Reported(q, FALSE)
  BY DEF Apply
<1>4. Typed'
  BY <1>1, <1>2, <1>3 DEF Reported, Typed, Phases
<1>5. Alone(q) /\ Report(q)
  BY <1>1, <1>3 DEF Reported, Typed, Alone, Report
<1> QED BY <1>4, <1>5 DEF Operation

\* Answering.
LEMMA AnswerIs ==
  ASSUME Typed, Phased, NEW q \in Requests, Answer(q)
  PROVE  Operation(q) /\ Typed'
<1>1. /\ phase[q] # "applying" /\ todo[q] = {}
      /\ phase' = [phase EXCEPT ![q] = "done"]
      /\ UNCHANGED <<ensured, toCompare, todo, success, failed, current, targets>>
  BY DEF Answer, Compared
<1>2. Typed'
  BY <1>1 DEF Typed, Phases
<1>3. Alone(q) /\ GoOn(q)
  BY <1>1 DEF Typed, Alone, GoOn
<1> QED BY <1>2, <1>3 DEF Operation

\* Every step is one operation of one request, or touches none.
LEMMA StepIs ==
  ASSUME Typed, Phased, [Next]_vars
  PROVE  Typed' /\ (UNCHANGED request \/ \E q \in Requests : Operation(q))
<1>1. ASSUME NEW q \in Requests, NEW e \in Entries, DeployOne(q, e)
      PROVE  Typed' /\ Operation(q)
  <2>1. {e} \in SUBSET Entries /\ toCompare' \in [Requests -> SUBSET Entries]
    BY <1>1 DEF DeployOne, Typed
  <2> QED BY <1>1, <2>1, BeginsIs DEF DeployOne
<1>2. ASSUME NEW q \in Requests, DeployAll(q)
      PROVE  Typed' /\ Operation(q)
  <2>1. Listed \in SUBSET Entries
    BY DEF Listed
  <2> QED BY <1>2, <2>1, BeginsIs DEF DeployAll, Typed
<1>3. ASSUME NEW q \in Requests, NEW filter, DeployFiltered(q, filter)
      PROVE  Typed' /\ Operation(q)
  <2>1. toCompare' \in [Requests -> SUBSET Entries]
    BY <1>3 DEF DeployFiltered, Typed, Listed
  <2> QED BY <1>3, <2>1, BeginsIs DEF DeployFiltered
<1>4. ASSUME NEW q \in Requests, Deploying(q)
      PROVE  Typed' /\ Operation(q)
  BY <1>4, CompareIs, EnsureNamespaceIs, ReadIs, ApplyIs, AnswerIs DEF Deploying
<1>5. CASE UNCHANGED request
  BY <1>5 DEF request, Typed
<1>6. ASSUME NEW e \in Entries, StoreChanges(e) PROVE UNCHANGED request
  BY <1>6 DEF StoreChanges, Noted
<1>7. ASSUME NEW id \in Ids, ObjectChanges(id) PROVE UNCHANGED request
  BY <1>7 DEF ObjectChanges, Noted
<1>8. ASSUME NEW n, NamespaceDeleted(n) PROVE UNCHANGED request
  BY <1>8 DEF NamespaceDeleted, Noted
<1>9. CASE UNCHANGED vars
  BY <1>5, <1>9 DEF vars
<1> QED BY <1>1, <1>2, <1>3, <1>4, <1>5, <1>6, <1>7, <1>8, <1>9 DEF Next

\* An operation keeps the phases what they are.
LEMMA PhasedOperation ==
  ASSUME Typed, Phased, NEW q \in Requests, Operation(q)
  PROVE  Phased'
<1>1. \A p \in Requests \ {q} :
        /\ phase'[p] = phase[p] /\ success'[p] = success[p]
        /\ failed'[p] = failed[p] /\ current'[p] = current[p] /\ ensured'[p] = ensured[p]
  BY DEF Operation, Alone
<1>2. CASE Start(q) \/ Select(q)
  BY <1>1, <1>2 DEF Start, Select, Phased
<1>3. CASE GoOn(q) \/ GiveUp(q) \/ Report(q)
  BY <1>1, <1>3 DEF GoOn, GiveUp, Report, Phased
<1>4. CASE Take(q)
  <2>1. First(q) \subseteq Entries
    BY DEF First, Typed
  <2> QED BY <1>1, <1>4, <2>1 DEF Take, Phased
<1> QED BY <1>2, <1>3, <1>4 DEF Operation

\* Types and phases are kept by every step.
LEMMA ShapeInductive ==
  ASSUME Typed, Phased, [Next]_vars
  PROVE  Typed' /\ Phased'
<1>1. Typed' /\ (UNCHANGED request \/ \E q \in Requests : Operation(q))
  BY StepIs
<1>2. UNCHANGED request => Phased'
  BY DEF request, Phased
<1>3. \A q \in Requests : Operation(q) => Phased'
  BY PhasedOperation
<1> QED BY <1>1, <1>2, <1>3

\* They hold when the process starts.
LEMMA ShapeInit == Init => Typed /\ Phased
BY DEF Init, Typed, Phased, Phases

------------------------------------------------------------------------------
\* Every target is reported.

\* An operation accounts for every target, once.
LEMMA ReportedOperation ==
  ASSUME Typed, Phased, EveryTargetIsReported, NEW q \in Requests, Operation(q)
  PROVE  EveryTargetIsReported'
<1> DEFINE Accounted(c, td, sc, fl, tg) ==
      /\ tg = td \cup sc \cup fl \cup ({c} \ {NoTarget})
      /\ sc \cap fl = {} /\ td \cap (sc \cup fl) = {}
      /\ c \notin td \cup sc \cup fl
           Answered(ph, c, td, sc, en) ==
      /\ ph = "done" => td = {} /\ c = NoTarget
      /\ sc # {} => en = "ok"
<1>1. \A p \in Requests : Accounted(current[p], todo[p], success[p], failed[p], targets[p])
                         /\ Answered(phase[p], current[p], todo[p], success[p], ensured[p])
  BY DEF EveryTargetIsReported
<1>2. \A p \in Requests \ {q} :
        /\ Accounted(current'[p], todo'[p], success'[p], failed'[p], targets'[p])
        /\ Answered(phase'[p], current'[p], todo'[p], success'[p], ensured'[p])
  BY <1>1 DEF Operation, Alone
<1>3. NoTarget \notin Entries /\ todo[q] \subseteq Entries /\ success[q] \subseteq Entries
      /\ failed[q] \subseteq Entries /\ First(q) \subseteq todo[q]
  BY SentinelAssumption DEF Typed, First
<1>4. Accounted(current'[q], todo'[q], success'[q], failed'[q], targets'[q])
  <2>1. CASE Start(q)
    BY <1>3, <2>1 DEF Start
  <2>2. CASE Select(q)
    BY <1>1, <1>3, <2>2 DEF Select, Phased
  <2>3. CASE GoOn(q)
    BY <1>1, <2>3 DEF GoOn
  <2>4. CASE GiveUp(q)
    BY <1>1, <1>3, <2>4 DEF GiveUp, Phased
  <2>5. CASE Take(q)
    BY <1>1, <1>3, <2>5 DEF Take, Phased
  <2>6. CASE Report(q)
    BY <1>1, <1>3, <2>6 DEF Report, Phased
  <2> QED BY <2>1, <2>2, <2>3, <2>4, <2>5, <2>6 DEF Operation
<1>5. Answered(phase'[q], current'[q], todo'[q], success'[q], ensured'[q])
  <2>1. CASE Start(q) \/ Select(q)
    BY <2>1 DEF Start, Select, Phased
  <2>2. CASE GoOn(q)
    BY <1>1, <2>2 DEF GoOn, Phased
  <2>3. CASE GiveUp(q)
    BY <2>3 DEF GiveUp, Phased
  <2>4. CASE Take(q) \/ Report(q)
    BY <2>4 DEF Take, Report, Phased
  <2> QED BY <2>1, <2>2, <2>3, <2>4 DEF Operation
<1> QED BY <1>2, <1>4, <1>5 DEF EveryTargetIsReported

\* When a deployment answers, each of its targets is reported, as a success or as a
\* failure and not as both, whichever reads and applies fail and whatever other
\* requests do; and nothing is a success in a namespace that could not be ensured.
THEOREM AllReported == Spec => []EveryTargetIsReported
<1> DEFINE I == Typed /\ Phased /\ EveryTargetIsReported
<1>1. Init => I
  <2>1. Init => EveryTargetIsReported
    BY SentinelAssumption DEF Init, EveryTargetIsReported
  <2> QED BY <2>1, ShapeInit
<1>2. I /\ [Next]_vars => I'
  <2> SUFFICES ASSUME I, [Next]_vars PROVE EveryTargetIsReported'
    BY ShapeInductive
  <2>1. UNCHANGED request => EveryTargetIsReported'
    BY DEF request, EveryTargetIsReported
  <2> QED BY <2>1, StepIs, ReportedOperation
<1> QED BY <1>1, <1>2, PTL DEF Spec

------------------------------------------------------------------------------
\* Dependencies come first.

\* No entry still to be deployed goes before one that is dealt with.
InOrder ==
  \A q \in Requests, t, u \in Entries :
    (t \in success[q] \cup failed[q] \cup {current[q]} /\ u \in todo[q]) => ~Before(u, t)

\* An operation keeps the order: what is taken is a first one.
LEMMA InOrderOperation ==
  ASSUME Typed, Phased, InOrder, NEW q \in Requests, Operation(q)
  PROVE  InOrder'
<1> DEFINE Ordered(c, td, sc, fl) == \A t, u \in Entries :
             (t \in sc \cup fl \cup {c} /\ u \in td) => ~Before(u, t)
<1>1. \A p \in Requests : Ordered(current[p], todo[p], success[p], failed[p])
  BY DEF InOrder
<1>2. \A p \in Requests \ {q} : Ordered(current'[p], todo'[p], success'[p], failed'[p])
  BY <1>1 DEF Operation, Alone
<1>3. NoTarget \notin Entries
  BY SentinelAssumption
<1>4. Ordered(current'[q], todo'[q], success'[q], failed'[q])
  <2>1. CASE Start(q)
    BY <1>3, <2>1 DEF Start
  <2>2. CASE Select(q)
    BY <1>3, <2>2 DEF Select, Phased
  <2>3. CASE GoOn(q)
    BY <1>1, <2>3 DEF GoOn
  <2>4. CASE GiveUp(q)
    BY <2>4 DEF GiveUp
  <2>5. CASE Take(q)
    BY <1>1, <2>5 DEF Take, First
  <2>6. CASE Report(q)
    BY <1>1, <1>3, <2>6 DEF Report
  <2> QED BY <2>1, <2>2, <2>3, <2>4, <2>5, <2>6 DEF Operation
<1> QED BY <1>2, <1>4 DEF InOrder, Before, Priority

\* The priorities of the kinds something needs.
LEMMA Priorities ==
  /\ Priority("ServiceAccount") = 20 /\ Priority("ConfigMap") = 30 /\ Priority("Secret") = 31
  /\ Priority("PersistentVolumeClaim") = 40 /\ Priority("Service") = 50
  /\ Priority("Deployment") = 60 /\ Priority("StatefulSet") = 61 /\ Priority("DaemonSet") = 62
  /\ Priority("Job") = 63 /\ Priority("CronJob") = 64 /\ Priority("Ingress") = 70
  /\ Priority("HorizontalPodAutoscaler") = 72 /\ Priority("Role") = 80
  /\ Priority("RoleBinding") = 81
BY DEF Priority, deployPriority

\* What a kind needs has a lower priority.
LEMMA NeedsAreBefore ==
  ASSUME NEW kind, NEW other, Needs(kind, other)
  PROVE  Priority(other) < Priority(kind)
<1>1. CASE kind \in Workloads
  BY <1>1, Priorities DEF Needs, Workloads
<1>2. CASE kind \in {"Ingress", "HorizontalPodAutoscaler", "RoleBinding"}
  BY <1>2, Priorities DEF Needs, Workloads
<1> QED BY <1>1, <1>2 DEF Needs

\* What an object of a known kind needs is dealt with before it, in every
\* deployment of any set of entries.
THEOREM DependenciesFirst == Spec => []NeedsComeFirst
<1> DEFINE I == Typed /\ Phased /\ InOrder
<1>1. Init => I
  <2>1. Init => InOrder
    BY DEF Init, InOrder
  <2> QED BY <2>1, ShapeInit
<1>2. I /\ [Next]_vars => I'
  <2> SUFFICES ASSUME I, [Next]_vars PROVE InOrder'
    BY ShapeInductive
  <2>1. UNCHANGED request => InOrder'
    BY DEF request, InOrder
  <2> QED BY <2>1, StepIs, InOrderOperation
<1>3. I => NeedsComeFirst
  BY NeedsAreBefore DEF InOrder, NeedsComeFirst, Before
<1> QED BY <1>1, <1>2, <1>3, PTL DEF Spec

------------------------------------------------------------------------------
\* "Deploy missing" changes nothing that is there.

\* What an apply of d makes of a missing object.
Deployed(d) == [data |-> d.data, ours |-> DOMAIN d.data]

\* The rest of the variables are functions, of objects and manifests.
Shaped == /\ asked = [q \in Requests |-> asked[q]] /\ held = [q \in Requests |-> held[q]]
          /\ disturbed = [q \in Requests |-> disturbed[q]]
          /\ live \in [Ids -> Objects \cup {NoObject}]
          /\ \A e \in Entries : view[e] \in Stored[e]
          /\ \A q \in Requests : phase[q] = "applying" => held[q] \in Documents(current[q])

\* What an undisturbed request holds is what is stored.
HeldIsStored ==
  \A q \in Requests :
    phase[q] = "applying" /\ ~disturbed[q] => Readable(current[q]) /\ held[q] = view[current[q]]

\* The entries a request has still to deal with.
Ahead(q) == todo[q] \cup ({current[q]} \ {NoTarget})

\* An object that was missing when an undisturbed request looked is missing still, or
\* as a deployment of its manifest makes it.
MissingAhead ==
  \A q \in Requests, t \in Entries :
    (phase[q] \in {"selecting", "ensuring", "deploying", "applying"} /\ asked[q] = "missing"
       /\ ~disturbed[q] /\ NoneRenamed /\ t \in Ahead(q))
      => Readable(t) /\ live[EntryId(t)] \in {NoObject, Deployed(view[t])}

\* Applying a manifest to what it made, or to nothing, gives what it makes.
LEMMA AppliedIs ==
  ASSUME NEW d, d.data \in Data, NEW o \in {NoObject, Deployed(d)}
  PROVE  Applied(o, d) = Deployed(d)
<1> DEFINE kept == IF o = NoObject THEN {} ELSE DOMAIN o.data \ (o.ours \cup DOMAIN d.data)
<1>1. kept = {}
  BY DEF Deployed
<1>2. d.data = [f \in DOMAIN d.data |-> d.data[f]]
  BY DEF Data
<1>3. Applied(o, d) = [data |-> [f \in kept \cup DOMAIN d.data |->
                                  IF f \in DOMAIN d.data THEN d.data[f] ELSE o.data[f]],
                       ours |-> DOMAIN d.data]
  BY DEF Applied
<1> HIDE DEF kept
<1>4. [f \in kept \cup DOMAIN d.data |-> IF f \in DOMAIN d.data THEN d.data[f] ELSE o.data[f]] = d.data
  BY <1>1, <1>2
<1> QED BY <1>3, <1>4 DEF Deployed

\* Two entries never share a name.
LEMMA EntryIdIs ==
  ASSUME NEW t \in Entries, NEW u \in Entries
  PROVE  EntryId(t) \in Ids /\ (EntryId(t) = EntryId(u) => t = u)
BY DeployerAssumption DEF EntryId, Ids

\* An apply of an undisturbed request, when nothing is renamed, changes at most the
\* object of its entry, and not when that is as its manifest makes it.
LEMMA ApplyChanges ==
  ASSUME Typed, Phased, Shaped, HeldIsStored, NEW q \in Requests, Apply(q),
         ~disturbed[q], NoneRenamed, NEW t \in Entries,
         live[EntryId(t)] \in {NoObject, Deployed(view[t])}
  PROVE  /\ live'[EntryId(t)] \in {live[EntryId(t)], Deployed(view[t])}
         /\ \A id \in Ids : id # EntryId(current[q]) => live'[id] = live[id]
<1> DEFINE c == current[q]
<1>1. c \in Entries /\ Readable(c) /\ held[q] = view[c]
  BY DEF Apply, Phased, HeldIsStored
<1>2. Target(q) = EntryId(c)
  BY <1>1 DEF Target, NoneRenamed
<1>3. UNCHANGED live \/ live' = [live EXCEPT ![EntryId(c)] = Applied(live[EntryId(c)], view[c])]
  BY <1>1, <1>2 DEF Apply, LiveAfterApply
<1>4. \A id \in Ids : id # EntryId(c) => live'[id] = live[id]
  BY <1>3 DEF Shaped
<1>5. CASE t = c
  <2>1. view[c] \in Documents(c)
    BY <1>1 DEF Readable, Shaped, Stored
  <2>2. view[c].data \in Data
    BY <1>1, <2>1, DeployerAssumption
  <2>3. Applied(live[EntryId(c)], view[c]) = Deployed(view[c])
    BY <1>5, <2>2, AppliedIs
  <2>4. EntryId(c) \in Ids
    BY <1>1, EntryIdIs
  <2>5. live'[EntryId(c)] \in {live[EntryId(c)], Deployed(view[c])}
    BY <1>3, <2>3, <2>4 DEF Shaped
  <2> QED BY <1>4, <1>5, <2>5
<1>6. CASE t # c
  BY <1>1, <1>4, <1>6, EntryIdIs
<1> QED BY <1>5, <1>6

\* Any apply makes an object whose fields are those of the manifest, but for some
\* that nobody or somebody else owns.
LEMMA AppliedType ==
  ASSUME NEW d, d.data \in Data, NEW o \in Objects \cup {NoObject}
  PROVE  /\ Applied(o, d) \in Objects
         /\ \A f \in DOMAIN d.data : f \in DOMAIN Applied(o, d).data /\ Applied(o, d).data[f] = d.data[f]
         /\ Applied(o, d).ours = DOMAIN d.data
<1> DEFINE kept == IF o = NoObject THEN {} ELSE DOMAIN o.data \ (o.ours \cup DOMAIN d.data)
           made == [f \in kept \cup DOMAIN d.data |-> IF f \in DOMAIN d.data THEN d.data[f] ELSE o.data[f]]
<1>1. PICK S \in SUBSET Fields : d.data \in [S -> Values]
  BY DEF Data
<1>2. PICK T \in SUBSET Fields : kept \subseteq T /\ \A f \in kept : o.data[f] \in Values
  <2>1. CASE o = NoObject
    BY <2>1
  <2>2. CASE o \in Objects
    <3>1. PICK T \in SUBSET Fields : o.data \in [T -> Values]
      BY <2>2 DEF Objects, Data
    <3> QED BY <3>1
  <2> QED BY <2>1, <2>2
<1>3. Applied(o, d) = [data |-> made, ours |-> DOMAIN d.data]
  BY DEF Applied
<1> HIDE DEF kept
<1>4. made \in [kept \cup S -> Values] /\ kept \cup S \in SUBSET Fields /\ DOMAIN d.data = S
  BY <1>1, <1>2
<1> HIDE DEF made
<1>5. made \in Data
  BY <1>4 DEF Data
<1>6. Applied(o, d) \in Objects
  BY <1>3, <1>4, <1>5 DEF Objects
<1>7. \A f \in DOMAIN d.data : f \in DOMAIN made /\ made[f] = d.data[f]
  BY <1>4 DEF made
<1> QED BY <1>3, <1>6, <1>7

\* Variables stay what they are.
LEMMA ShapedInductive ==
  ASSUME Typed, Phased, Shaped, [Next]_vars
  PROVE  Shaped'
<1>1. ASSUME NEW q \in Requests, NEW what, NEW selected,
             Begins(q, what, selected),
             NEW p \in {"selecting", "ensuring"}, phase' = [phase EXCEPT ![q] = p]
      PROVE  Shaped'
  BY <1>1 DEF Begins, Shaped, Typed
<1>2. ASSUME NEW q \in Requests, NEW e, NEW filter,
             DeployOne(q, e) \/ DeployAll(q) \/ DeployFiltered(q, filter)
      PROVE  Shaped'
  BY <1>1, <1>2 DEF DeployOne, DeployAll, DeployFiltered
<1>3. ASSUME NEW q \in Requests, Deploying(q) PROVE Shaped'
  <2>1. ASSUME NEW e \in Entries, Compare(q, e) PROVE Shaped'
    BY <2>1 DEF Compare, Shaped
  <2>2. CASE EnsureNamespace(q)
    BY <2>2 DEF EnsureNamespace, NamespaceFailed, Shaped, Typed
  <2>3. ASSUME NEW t \in Entries, Read(q, t) PROVE Shaped'
    <3>1. Readable(t) => view[t] \in Documents(t)
      BY DEF Readable, Shaped, Stored
    <3> QED BY <2>3, <3>1 DEF Read, ReadFailed, Shaped, Typed
  <2>4. CASE Apply(q)
    <3>1. held[q] \in Documents(current[q]) /\ current[q] \in Entries
      BY <2>4 DEF Apply, Shaped, Phased
    <3>2. held[q].data \in Data
      BY <3>1, DeployerAssumption
    <3>3. live' \in [Ids -> Objects \cup {NoObject}]
      <4>1. CASE UNCHANGED live
        BY <4>1 DEF Shaped
      <4>2. CASE live' = [live EXCEPT ![Target(q)] = Applied(@, held[q])] /\ Target(q) \in Ids
        BY <4>2, <3>2, AppliedType DEF Shaped
      <4>3. CASE live' = [live EXCEPT ![Target(q)] = Applied(@, held[q])] /\ Target(q) \notin Ids
        BY <4>3 DEF Shaped
      <4> QED BY <2>4, <4>1, <4>2, <4>3 DEF Apply, LiveAfterApply
    <3>4. /\ UNCHANGED <<view, asked>>
          /\ phase' = [phase EXCEPT ![q] = "deploying"]
          /\ current' = [current EXCEPT ![q] = NoTarget]
          /\ held' = [held EXCEPT ![q] = NoEntry]
          /\ disturbed' = [p \in Requests |-> disturbed[p] \/ (disturbed[q] /\ phase[p] # "idle")]
      BY <2>4 DEF Apply, NotedBy
    <3>5. disturbed' = [p \in Requests |-> disturbed'[p]]
      BY <3>4
    <3>6. \A p \in Requests : phase'[p] = "applying" => held'[p] \in Documents(current'[p])
      BY <3>4 DEF Shaped, Typed
    <3>7. asked' = [p \in Requests |-> asked'[p]] /\ held' = [p \in Requests |-> held'[p]]
          /\ \A e \in Entries : view'[e] \in Stored[e]
      BY <3>4 DEF Shaped
    <3> QED BY <3>3, <3>5, <3>6, <3>7 DEF Shaped
  <2>5. CASE Answer(q)
    BY <2>5 DEF Answer, Shaped, Typed
  <2> QED BY <1>3, <2>1, <2>2, <2>3, <2>4, <2>5 DEF Deploying
<1>4. ASSUME NEW e \in Entries, StoreChanges(e) PROVE Shaped'
  BY <1>4 DEF StoreChanges, Noted, request, Stored, Shaped
<1>5. ASSUME NEW id \in Ids, ObjectChanges(id) PROVE Shaped'
  <2>1. ForeignObjects \subseteq Objects
    BY DeployerAssumption DEF ForeignObjects, Objects
  <2> QED BY <1>5, <2>1 DEF ObjectChanges, Noted, request, Shaped
<1>6. ASSUME NEW n, NamespaceDeleted(n) PROVE Shaped'
  BY <1>6 DEF NamespaceDeleted, Noted, request, Shaped
<1>7. CASE UNCHANGED vars
  <2>1. asked' = asked /\ held' = held /\ disturbed' = disturbed /\ live' = live
        /\ view' = view /\ phase' = phase /\ current' = current
    BY <1>7 DEF vars, request
  <2>2. asked' = [q \in Requests |-> asked'[q]] /\ held' = [q \in Requests |-> held'[q]]
        /\ disturbed' = [q \in Requests |-> disturbed'[q]]
    BY <2>1, Zenon DEF Shaped
  <2> QED BY <2>1, <2>2 DEF Shaped
<1> QED BY <1>2, <1>3, <1>4, <1>5, <1>6, <1>7 DEF Next

\* What comes from outside disturbs every request it could mislead.
LEMMA OutsideDisturbs ==
  ASSUME Typed, Phased, Shaped, Noted
  PROVE  HeldIsStored' /\ MissingAhead'
<1>1. \A q \in Requests : phase'[q] = phase[q] /\ (phase[q] # "idle" => disturbed'[q])
  BY DEF Noted, request
<1> QED BY <1>1 DEF HeldIsStored, MissingAhead

\* Every step keeps what is held and what is ahead as described.
LEMMA MissingInductive ==
  ASSUME Typed, Phased, Shaped, HeldIsStored, MissingAhead, [Next]_vars
  PROVE  HeldIsStored' /\ MissingAhead'
<1> USE DEF Ahead
<1>1. ASSUME NEW q \in Requests, NEW what, NEW selected,
             Begins(q, what, selected), what = "missing" => selected = {},
             NEW p \in {"selecting", "ensuring"}, phase' = [phase EXCEPT ![q] = p]
      PROVE  HeldIsStored' /\ MissingAhead'
  <2>1. /\ UNCHANGED <<view, live, current, held>>
        /\ current[q] = NoTarget /\ phase'[q] = p /\ asked'[q] = what /\ todo'[q] = selected
        /\ \A r \in Requests \ {q} : /\ phase'[r] = phase[r] /\ asked'[r] = asked[r]
                                     /\ todo'[r] = todo[r] /\ disturbed'[r] = disturbed[r]
    BY <1>1 DEF Begins, Typed, Phased, Shaped
  <2>2. HeldIsStored'
    BY <2>1 DEF HeldIsStored, Readable
  <2>3. MissingAhead'
    BY <1>1, <2>1 DEF MissingAhead, NoneRenamed, Readable
  <2> QED BY <2>2, <2>3
<1>2. ASSUME NEW q \in Requests, NEW e \in Entries, DeployOne(q, e)
      PROVE  HeldIsStored' /\ MissingAhead'
  BY <1>1, <1>2 DEF DeployOne
<1>3. ASSUME NEW q \in Requests, NEW filter, DeployAll(q) \/ DeployFiltered(q, filter)
      PROVE  HeldIsStored' /\ MissingAhead'
  BY <1>1, <1>3 DEF DeployAll, DeployFiltered
<1>4. ASSUME NEW q \in Requests, NEW e \in Entries, Compare(q, e)
      PROVE  HeldIsStored' /\ MissingAhead'
  <2>1. /\ UNCHANGED <<view, live, phase, asked, current, held>> /\ phase[q] = "selecting"
        /\ \A r \in Requests \ {q} : todo'[r] = todo[r] /\ disturbed'[r] = disturbed[r]
        /\ disturbed'[q] \/ disturbed'[q] = disturbed[q]
    BY <1>4 DEF Compare, Selected, Typed, Shaped
  <2>2. \/ disturbed'[q] \/ todo'[q] = todo[q]
        \/ /\ Readable(e) /\ Status(e) = asked[q] /\ todo'[q] = todo[q] \cup {e}
    BY <1>4 DEF Compare, Selected, Typed, Shaped
  <2>3. HeldIsStored'
    BY <2>1 DEF HeldIsStored, Readable
  <2>4. Status(e) = "missing" => live[EntryId(e)] = NoObject
    BY DEF Status
  <2>5. MissingAhead'
    BY <2>1, <2>2, <2>4 DEF MissingAhead, NoneRenamed, Readable
  <2> QED BY <2>3, <2>5
<1>5. ASSUME NEW q \in Requests, EnsureNamespace(q) \/ Answer(q)
      PROVE  HeldIsStored' /\ MissingAhead'
  <2>1. /\ UNCHANGED <<view, live, asked, current, held, disturbed>>
        /\ phase[q] # "applying" /\ phase'[q] \in {"deploying", "done"}
        /\ phase'[q] = "done" \/ (phase[q] \in {"selecting", "ensuring"} /\ todo'[q] = todo[q])
        /\ \A r \in Requests \ {q} : phase'[r] = phase[r] /\ todo'[r] = todo[r]
    BY <1>5 DEF EnsureNamespace, NamespaceFailed, Compared, Answer, Typed
  <2> QED BY <2>1 DEF HeldIsStored, MissingAhead, NoneRenamed, Readable
<1>6. ASSUME NEW q \in Requests, NEW t \in Entries, Read(q, t)
      PROVE  HeldIsStored' /\ MissingAhead'
  <2>1. /\ UNCHANGED <<view, live, asked, disturbed>>
        /\ phase[q] = "deploying" /\ t \in todo[q] /\ todo'[q] = todo[q] \ {t}
        /\ \/ /\ Readable(t) /\ phase'[q] = "applying" /\ current'[q] = t /\ held'[q] = view[t]
           \/ phase'[q] = "deploying" /\ current'[q] = current[q]
        /\ \A r \in Requests \ {q} : /\ phase'[r] = phase[r] /\ todo'[r] = todo[r]
                                     /\ current'[r] = current[r] /\ held'[r] = held[r]
    BY <1>6 DEF Read, ReadFailed, First, Typed, Shaped
  <2>2. HeldIsStored'
    BY <2>1 DEF HeldIsStored, Readable
  <2>3. MissingAhead'
    BY <2>1 DEF MissingAhead, NoneRenamed, Readable
  <2> QED BY <2>2, <2>3
<1>7. ASSUME NEW q \in Requests, Apply(q)
      PROVE  HeldIsStored' /\ MissingAhead'
  <2>1. /\ UNCHANGED <<view, asked, todo>>
        /\ phase'[q] = "deploying" /\ current'[q] = NoTarget /\ phase[q] = "applying"
        /\ \A r \in Requests \ {q} : /\ phase'[r] = phase[r] /\ current'[r] = current[r]
                                     /\ held'[r] = held[r]
        /\ \A r \in Requests : disturbed'[r] <=> disturbed[r] \/ (disturbed[q] /\ phase[r] # "idle")
    <3>1. /\ phase[q] = "applying" /\ UNCHANGED <<view, asked, todo>>
          /\ phase' = [phase EXCEPT ![q] = "deploying"]
          /\ current' = [current EXCEPT ![q] = NoTarget]
          /\ held' = [held EXCEPT ![q] = NoEntry]
          /\ NotedBy(q)
      BY <1>7 DEF Apply
    <3>2. \A r \in Requests : disturbed'[r] = (disturbed[r] \/ (disturbed[q] /\ phase[r] # "idle"))
      BY <3>1, Zenon DEF NotedBy
    <3>3. \A r \in Requests : disturbed'[r] <=> disturbed[r] \/ (disturbed[q] /\ phase[r] # "idle")
      BY <3>2, Zenon
    <3> QED BY <3>1, <3>3 DEF Typed, Shaped
  <2>2. HeldIsStored'
    BY <2>1 DEF HeldIsStored, Readable
  <2>3. CASE disturbed[q]
    <3>1. MissingAhead'
      BY <2>1, <2>3 DEF MissingAhead
    <3> QED BY <2>2, <3>1
  <2>4. CASE ~disturbed[q]
    <3>1. \A t \in Entries : NoneRenamed /\ live[EntryId(t)] \in {NoObject, Deployed(view[t])}
            => live'[EntryId(t)] \in {live[EntryId(t)], Deployed(view[t])}
      BY <1>7, <2>4, ApplyChanges
    <3>2. MissingAhead'
      BY <2>1, <2>4, <3>1 DEF MissingAhead, NoneRenamed, Readable, EntryId
    <3> QED BY <2>2, <3>2
  <2> QED BY <2>2, <2>3, <2>4
<1>8. CASE \/ \E e \in Entries : StoreChanges(e)
           \/ \E id \in Ids : ObjectChanges(id)
           \/ \E n \in {Namespace, Elsewhere} : NamespaceDeleted(n)
  BY <1>8, OutsideDisturbs DEF StoreChanges, ObjectChanges, NamespaceDeleted
<1>9. CASE UNCHANGED vars
  BY <1>9 DEF vars, request, HeldIsStored, MissingAhead, NoneRenamed, Readable
<1> QED BY <1>2, <1>3, <1>4, <1>5, <1>6, <1>7, <1>8, <1>9 DEF Next, Deploying

\* "Deploy missing" changes no object that is there, whatever other requests
\* deploy meanwhile, for any number of requests and entries.
THEOREM MissingIsHarmless == Spec => MissingTouchesNothing
<1> DEFINE I == Typed /\ Phased /\ Shaped /\ HeldIsStored /\ MissingAhead
<1>1. Init => I
  <2>1. Init => Shaped /\ HeldIsStored /\ MissingAhead
    <3>1. ForeignObjects \subseteq Objects
      BY DeployerAssumption DEF ForeignObjects, Objects
    <3> QED BY <3>1 DEF Init, Shaped, Stored, HeldIsStored, MissingAhead
  <2> QED BY <2>1, ShapeInit
<1>2. I /\ [Next]_vars => I'
  BY ShapeInductive, ShapedInductive, MissingInductive
<1> DEFINE Harmless == \A q \in Requests, id \in Ids :
             (phase[q] = "applying" /\ phase'[q] = "deploying" /\ asked[q] = "missing"
                /\ ~disturbed[q] /\ NoneRenamed /\ live[id] # NoObject)
               => live'[id] = live[id]
<1>3. I /\ [Next]_vars => [Harmless]_vars
  <2> SUFFICES ASSUME I, Next,
                      NEW q \in Requests, NEW id \in Ids,
                      phase[q] = "applying", phase'[q] = "deploying", asked[q] = "missing",
                      ~disturbed[q], NoneRenamed, live[id] # NoObject
               PROVE  live'[id] = live[id]
    OBVIOUS
  <2>1. CASE UNCHANGED live
    BY <2>1
  <2>2. ASSUME NEW p \in Requests, Apply(p) PROVE live'[id] = live[id]
    <3>1. p = q
      BY <2>2 DEF Apply, Typed
    <3>2. current[q] \in Entries /\ current[q] # NoTarget
      BY SentinelAssumption DEF Phased
    <3>3. live[EntryId(current[q])] \in {NoObject, Deployed(view[current[q]])}
      BY <3>2 DEF MissingAhead, Ahead
    <3>4. /\ live'[EntryId(current[q])] \in {live[EntryId(current[q])], Deployed(view[current[q]])}
          /\ id # EntryId(current[q]) => live'[id] = live[id]
      BY <2>2, <3>1, <3>2, <3>3, ApplyChanges
    <3> QED BY <3>3, <3>4
  <2>3. ASSUME NEW p \in Requests, Deploying(p), ~Apply(p) PROVE live'[id] = live[id]
    BY <2>3 DEF Deploying, Compare, EnsureNamespace, Read, Answer
  <2>4. ASSUME NEW p \in Requests, NEW e, NEW filter,
               DeployOne(p, e) \/ DeployAll(p) \/ DeployFiltered(p, filter)
        PROVE  live'[id] = live[id]
    BY <2>4 DEF DeployOne, DeployAll, DeployFiltered, Begins
  <2>5. ~Noted
    BY DEF Noted, request
  <2> QED BY <2>2, <2>3, <2>4, <2>5 DEF Next, StoreChanges, ObjectChanges, NamespaceDeleted
<1> QED BY <1>1, <1>2, <1>3, PTL DEF Spec, MissingTouchesNothing

------------------------------------------------------------------------------
\* What is reported as deployed is deployed.

\* Object o is what manifest d says, but for fields somebody else owns.
Follows(o, d) ==
  /\ o # NoObject
  /\ \A f \in Fields : /\ f \in DOMAIN d.data => f \in DOMAIN o.data /\ o.data[f] = d.data[f]
                       /\ f \in o.ours => f \in DOMAIN d.data

\* No other entry has the object of t.
OneObject(t) == \A u \in Entries \ {t} : ~SameObject(t, u)

\* The successes of an undisturbed request are live, whether it has answered or not.
DeployedIsLive ==
  \A q \in Requests, t \in Entries :
    (phase[q] # "idle" /\ ~disturbed[q] /\ t \in success[q])
      => Readable(t) /\ (OneObject(t) => Follows(live[Object(t, view[t])], view[t]))

\* The kind is part of an object.
LEMMA ObjectIs ==
  ASSUME NEW t \in Entries, NEW u \in Entries, Readable(t), Readable(u),
         Object(t, view[t]) = Object(u, view[u])
  PROVE  SameObject(t, u)
BY DEF Object, SameObject

\* An apply of an undisturbed request leaves what was deployed as it is, and deploys
\* what it reports.
LEMMA ApplyFollows ==
  ASSUME Typed, Phased, Shaped, HeldIsStored, NEW q \in Requests, Apply(q), ~disturbed[q],
         NEW t \in Entries, Readable(t), OneObject(t),
         \/ Follows(live[Object(t, view[t])], view[t])
         \/ t = current[q] /\ live' = LiveAfterApply(q)
  PROVE  Follows(live'[Object(t, view[t])], view[t])
<1> DEFINE c == current[q]
           id == Object(t, view[t])
<1>1. c \in Entries /\ Readable(c) /\ held[q] = view[c]
  BY DEF Apply, Phased, HeldIsStored
<1>2. UNCHANGED live \/ live' = [live EXCEPT ![Object(c, view[c])] = Applied(live[Object(c, view[c])], view[c])]
  BY <1>1 DEF Apply, LiveAfterApply, Target
<1>3. view[t] \in Documents(t) /\ id \in Ids
  <2>1. view[t] \in Documents(t)
    BY DEF Readable, Shaped, Stored
  <2> QED BY <2>1 DEF Ids
<1>4. CASE t = c /\ live' = [live EXCEPT ![id] = Applied(live[id], view[t])]
  <2>1. live[id] \in Objects \cup {NoObject} /\ view[t].data \in Data
    BY <1>3, DeployerAssumption DEF Shaped
  <2>2. live'[id] = Applied(live[id], view[t])
    BY <1>3, <1>4 DEF Shaped
  <2>3. live'[id] \in Objects /\ live'[id].ours = DOMAIN view[t].data
        /\ \A f \in DOMAIN view[t].data : f \in DOMAIN live'[id].data /\ live'[id].data[f] = view[t].data[f]
    BY <2>1, <2>2, AppliedType
  <2>4. live'[id] # NoObject
    BY <2>3, SentinelAssumption DEF Objects
  <2> QED BY <2>3, <2>4 DEF Follows
<1>5. CASE t # c
  <2>1. Object(c, view[c]) # id
    BY <1>1, <1>5, ObjectIs DEF OneObject
  <2>2. live'[id] = live[id]
    BY <1>2, <1>3, <2>1 DEF Shaped
  <2> QED BY <1>5, <2>2
<1>6. CASE UNCHANGED live /\ Follows(live[id], view[t])
  BY <1>6
<1>7. live' = LiveAfterApply(q) => live' = [live EXCEPT ![Object(c, view[c])] = Applied(live[Object(c, view[c])], view[c])]
  BY <1>1 DEF LiveAfterApply, Target
<1> QED BY <1>2, <1>4, <1>5, <1>6, <1>7

\* Every step leaves what was reported by undisturbed requests deployed.
LEMMA DeployedInductive ==
  ASSUME Typed, Phased, Shaped, HeldIsStored, DeployedIsLive, [Next]_vars
  PROVE  DeployedIsLive'
<1>1. CASE /\ UNCHANGED <<view, live>>
           /\ \A r \in Requests : /\ success'[r] \subseteq success[r]
                                  /\ phase'[r] # "idle" /\ ~disturbed'[r] /\ success'[r] # {}
                                       => phase[r] # "idle" /\ ~disturbed[r]
  BY <1>1 DEF DeployedIsLive, Readable, OneObject, SameObject, Object
<1>2. ASSUME NEW q \in Requests, NEW what, NEW selected, Begins(q, what, selected),
             NEW p, phase' = [phase EXCEPT ![q] = p]
      PROVE  DeployedIsLive'
  <2>1. UNCHANGED <<view, live>> /\ success'[q] = {}
        /\ \A r \in Requests \ {q} : /\ success'[r] = success[r] /\ phase'[r] = phase[r]
                                     /\ disturbed'[r] = disturbed[r]
    BY <1>2 DEF Begins, Typed, Shaped
  <2> QED BY <1>1, <2>1
<1>3. ASSUME NEW q \in Requests, NEW e, NEW filter,
             DeployOne(q, e) \/ DeployAll(q) \/ DeployFiltered(q, filter)
      PROVE  DeployedIsLive'
  BY <1>2, <1>3 DEF DeployOne, DeployAll, DeployFiltered
<1>4. ASSUME NEW q \in Requests, Deploying(q), ~Apply(q) PROVE DeployedIsLive'
  <2>1. /\ UNCHANGED <<view, live, success>> /\ phase[q] # "idle"
        /\ \A r \in Requests \ {q} : phase'[r] = phase[r] /\ disturbed'[r] = disturbed[r]
        /\ disturbed'[q] \/ disturbed'[q] = disturbed[q]
    BY <1>4 DEF Deploying, Compare, Compared, EnsureNamespace, NamespaceFailed, Read, ReadFailed,
       Answer, Typed, Shaped
  <2> QED BY <1>1, <2>1
<1>5. ASSUME NEW q \in Requests, Apply(q) PROVE DeployedIsLive'
  <2>1. /\ UNCHANGED view /\ phase[q] = "applying" /\ phase'[q] = "deploying"
        /\ NotedBy(q)
        /\ \A r \in Requests \ {q} : phase'[r] = phase[r] /\ success'[r] = success[r]
        /\ \/ success'[q] = success[q]
           \/ success'[q] = success[q] \cup {current[q]} /\ live' = LiveAfterApply(q)
    BY <1>5 DEF Apply, Reported, Typed
  <2>2. \A r \in Requests : disturbed'[r] = (disturbed[r] \/ (disturbed[q] /\ phase[r] # "idle"))
    BY <2>1, Zenon DEF NotedBy
  <2>3. CASE disturbed[q]
    <3>1. \A r \in Requests : phase[r] # "idle" => disturbed'[r]
      BY <2>2, <2>3
    <3> QED BY <2>1, <3>1 DEF DeployedIsLive
  <2>4. CASE ~disturbed[q]
    <3> SUFFICES ASSUME NEW r \in Requests, NEW t \in Entries, phase'[r] # "idle", ~disturbed'[r],
                        t \in success'[r]
                 PROVE  Readable(t)' /\ (OneObject(t)' => Follows(live'[Object(t, view[t])], view[t]))
      BY <2>1 DEF DeployedIsLive, Object
    <3>1. phase[r] # "idle" /\ ~disturbed[r]
      BY <2>1, <2>2
    <3>2. t \in success[r] \/ (t = current[q] /\ live' = LiveAfterApply(q))
      BY <2>1
    <3>3. Readable(current[q])
      BY <2>1, <2>4 DEF HeldIsStored
    <3>4. t \in success[r] => Readable(t) /\ (OneObject(t) => Follows(live[Object(t, view[t])], view[t]))
      BY <3>1 DEF DeployedIsLive
    <3>5. OneObject(t)' = OneObject(t) /\ Readable(t)' = Readable(t)
      BY <2>1 DEF OneObject, SameObject, Readable, Object
    <3> QED BY <1>5, <2>4, <3>2, <3>3, <3>4, <3>5, ApplyFollows
  <2> QED BY <2>3, <2>4
<1>6. CASE Noted
  <2>1. \A r \in Requests : phase'[r] # "idle" => disturbed'[r]
    BY <1>6 DEF Noted, request
  <2> QED BY <2>1 DEF DeployedIsLive
<1>7. CASE UNCHANGED vars
  BY <1>1, <1>7 DEF vars, request
<1> QED BY <1>3, <1>4, <1>5, <1>6, <1>7 DEF Next, StoreChanges, ObjectChanges, NamespaceDeleted

\* A target an undisturbed deployment reports as a success is live as its manifest
\* says, whatever other requests deployed meanwhile and whichever calls failed.
THEOREM SuccessesAreLive == Spec => []SuccessIsLive
<1> DEFINE I == Typed /\ Phased /\ Shaped /\ HeldIsStored /\ MissingAhead /\ DeployedIsLive
<1>1. Init => I
  <2>1. Init => Shaped /\ HeldIsStored /\ MissingAhead /\ DeployedIsLive
    <3>1. ForeignObjects \subseteq Objects
      BY DeployerAssumption DEF ForeignObjects, Objects
    <3> QED BY <3>1 DEF Init, Shaped, Stored, HeldIsStored, MissingAhead, DeployedIsLive
  <2> QED BY <2>1, ShapeInit
<1>2. I /\ [Next]_vars => I'
  BY ShapeInductive, ShapedInductive, MissingInductive, DeployedInductive
<1>3. I => SuccessIsLive
  BY DEF DeployedIsLive, SuccessIsLive, Follows, OneObject
<1> QED BY <1>1, <1>2, <1>3, PTL DEF Spec
------------------------------------------------------------------------------
\* The type invariant.

\* What the variables hold that the arguments above did not need to know.
Ranges ==
  /\ exists \subseteq {Namespace, Elsewhere}
  /\ \A q \in Requests : asked[q] \in Filters \cup {"one"}
  /\ \A q \in Requests : held[q] \in AllDocuments \cup {NoEntry}
  /\ \A q \in Requests : disturbed[q] \in BOOLEAN
  /\ events \in 0..MaxEvents

\* A failing call, or a change from outside, is one more event.
LEMMA EventCounts ==
  ASSUME events \in 0..MaxEvents, Event PROVE events' \in 0..MaxEvents
BY DeployerAssumption DEF Event

\* Only some operations change the namespaces, and those are two.
LEMMA ExistsInductive ==
  ASSUME exists \subseteq {Namespace, Elsewhere}, [Next]_vars
  PROVE  exists' \subseteq {Namespace, Elsewhere}
<1>1. ASSUME NEW q \in Requests, Deploying(q) PROVE exists' \subseteq {Namespace, Elsewhere}
  BY <1>1 DEF Deploying, Compare, EnsureNamespace, Read, Apply, Answer
<1> QED BY <1>1 DEF Next, DeployOne, DeployAll, DeployFiltered, Begins, StoreChanges, ObjectChanges,
                    NamespaceDeleted, vars

\* Events are counted up to their bound.
LEMMA EventsInductive ==
  ASSUME events \in 0..MaxEvents, [Next]_vars
  PROVE  events' \in 0..MaxEvents
<1>1. ASSUME NEW q \in Requests, Deploying(q) PROVE events' = events \/ Event
  BY <1>1 DEF Deploying, Compare, EnsureNamespace, Read, Apply, Answer
<1>2. events' = events \/ Event
  BY <1>1 DEF Next, DeployOne, DeployAll, DeployFiltered, Begins, StoreChanges, ObjectChanges,
              NamespaceDeleted, Noted, vars
<1> QED BY <1>2, EventCounts

\* A request is asked for what the handler accepts.
LEMMA AskedInductive ==
  ASSUME Shaped, Ranges, [Next]_vars
  PROVE  \A q \in Requests : asked'[q] \in Filters \cup {"one"}
<1>1. ASSUME NEW q \in Requests, NEW what \in Filters \cup {"one"}, NEW selected, Begins(q, what, selected)
      PROVE  \A p \in Requests : asked'[p] \in Filters \cup {"one"}
  BY <1>1 DEF Begins, Shaped, Ranges
<1>2. ASSUME NEW q \in Requests, NEW e, NEW filter \in {"missing", "drifted"},
             DeployOne(q, e) \/ DeployAll(q) \/ DeployFiltered(q, filter)
      PROVE  \A p \in Requests : asked'[p] \in Filters \cup {"one"}
  BY <1>1, <1>2 DEF DeployOne, DeployAll, DeployFiltered, Filters
<1>3. ASSUME NEW q \in Requests, Deploying(q) PROVE UNCHANGED asked
  BY <1>3 DEF Deploying, Compare, EnsureNamespace, Read, Apply, Answer
<1>4. CASE UNCHANGED asked
  BY <1>4 DEF Ranges
<1>5. ASSUME Noted PROVE UNCHANGED asked
  BY <1>5 DEF Noted, request
<1> QED BY <1>2, <1>3, <1>4, <1>5 DEF Next, StoreChanges, ObjectChanges, NamespaceDeleted, vars, request

\* It holds a manifest of some entry, or none.
LEMMA HeldInductive ==
  ASSUME Shaped, Ranges, [Next]_vars
  PROVE  \A q \in Requests : held'[q] \in AllDocuments \cup {NoEntry}
<1>1. ASSUME NEW q \in Requests, NEW t \in Entries, Read(q, t)
      PROVE  \A p \in Requests : held'[p] \in AllDocuments \cup {NoEntry}
  <2>1. Readable(t) => view[t] \in AllDocuments
    BY DEF Readable, Shaped, Stored, AllDocuments
  <2> QED BY <1>1, <2>1 DEF Read, ReadFailed, Shaped, Ranges
<1>2. ASSUME NEW q \in Requests, Apply(q)
      PROVE  \A p \in Requests : held'[p] \in AllDocuments \cup {NoEntry}
  BY <1>2 DEF Apply, Shaped, Ranges
<1>3. CASE UNCHANGED held
  BY <1>3 DEF Ranges
<1>4. ASSUME NEW q \in Requests, Deploying(q)
      PROVE  \A p \in Requests : held'[p] \in AllDocuments \cup {NoEntry}
  BY <1>1, <1>2, <1>3, <1>4 DEF Deploying, Compare, EnsureNamespace, Answer
<1>5. ASSUME Noted PROVE UNCHANGED held
  BY <1>5 DEF Noted, request
<1> QED BY <1>3, <1>4, <1>5 DEF Next, DeployOne, DeployAll, DeployFiltered, Begins, StoreChanges,
                               ObjectChanges, NamespaceDeleted, vars, request

\* It is disturbed or it is not.
LEMMA DisturbedInductive ==
  ASSUME Shaped, Ranges, [Next]_vars
  PROVE  \A q \in Requests : disturbed'[q] \in BOOLEAN
<1>1. ASSUME NEW q \in Requests, NEW b \in BOOLEAN, disturbed' = [disturbed EXCEPT ![q] = b]
      PROVE  \A p \in Requests : disturbed'[p] \in BOOLEAN
  BY <1>1 DEF Shaped, Ranges
<1>2. CASE UNCHANGED disturbed
  BY <1>2 DEF Ranges
<1>3. ASSUME NEW q \in Requests, Apply(q) PROVE \A p \in Requests : disturbed'[p] \in BOOLEAN
  BY <1>3 DEF Apply, NotedBy
<1>4. ASSUME NEW q \in Requests, Deploying(q) PROVE \A p \in Requests : disturbed'[p] \in BOOLEAN
  BY <1>1, <1>2, <1>3, <1>4 DEF Deploying, Compare, EnsureNamespace, Read, Answer
<1>5. ASSUME Noted PROVE \A p \in Requests : disturbed'[p] \in BOOLEAN
  BY <1>5 DEF Noted
<1>6. ASSUME NEW q \in Requests, NEW what, NEW selected, Begins(q, what, selected)
      PROVE  \A p \in Requests : disturbed'[p] \in BOOLEAN
  BY <1>1, <1>6 DEF Begins
<1> QED BY <1>2, <1>4, <1>5, <1>6 DEF Next, DeployOne, DeployAll, DeployFiltered, StoreChanges,
                                    ObjectChanges, NamespaceDeleted, vars

\* The type invariant: whatever requests, the store and the cluster do, what a
\* request holds is a manifest, what is live is an object, and each target an entry.
THEOREM DeployerTyping == Spec => []TypeOK
<1> DEFINE I == Typed /\ Phased /\ Shaped /\ Ranges
<1>1. Init => I
  <2> SUFFICES ASSUME Init PROVE Shaped /\ Ranges
    BY ShapeInit
  <2>1. ForeignObjects \subseteq Objects
    BY DeployerAssumption DEF ForeignObjects, Objects
  <2>2. Shaped
    BY <2>1 DEF Init, Shaped, Stored
  <2>3. Ranges
    BY DeployerAssumption DEF Init, Ranges, Filters
  <2> QED BY <2>2, <2>3
<1>2. I /\ [Next]_vars => I'
  <2> SUFFICES ASSUME I, [Next]_vars PROVE Ranges'
    BY ShapeInductive, ShapedInductive
  <2>1. (exists \subseteq {Namespace, Elsewhere})' /\ (events \in 0..MaxEvents)'
    BY ExistsInductive, EventsInductive DEF Ranges
  <2> QED BY <2>1, AskedInductive, HeldInductive, DisturbedInductive DEF Ranges
<1>3. I => TypeOK
  <2> SUFFICES ASSUME I PROVE TypeOK
    OBVIOUS
  <2>1. asked \in [Requests -> Filters \cup {"one"}] /\ held \in [Requests -> AllDocuments \cup {NoEntry}]
    BY DEF Shaped, Ranges
  <2>2. disturbed \in [Requests -> BOOLEAN]
    BY Zenon DEF Shaped, Ranges
  <2> QED BY <2>1, <2>2 DEF TypeOK, Typed, Phases, Shaped, Ranges
<1> QED BY <1>1, <1>2, <1>3, PTL DEF Spec
=============================================================================
