-------------------------------- MODULE Scraper --------------------------------
(***************************************************************************)
(* One scrape after another (internal/k8s/scraper.go): which objects of    *)
(* the source cluster end up in the store, and what the result says when   *)
(* parts of it fail.  A scrape takes minutes: the cluster changes while it *)
(* runs, discovery and lists fail, its deadline passes between any two     *)
(* calls, and a save or a deletion may return an error.                    *)
(*                                                                         *)
(* The store is reduced to the manifests it lists; what a save does with   *)
(* an overlay, and what a crash leaves, is in ManifestStore, and when a    *)
(* scrape may begin in StatusRefresh.                                      *)
(***************************************************************************)
EXTENDS Configuration, FiniteSets

CONSTANTS Apis,       \* [group, kind, listable]; the last for a namespaced resource
                      \* that is no subresource and has the verb list
          Objects,    \* [group, kind, namespace, name]: what the cluster may hold
          Configs,    \* [namespaces, excludeKinds, excludeNames]
          Existing,   \* the namespaces of the source cluster
          MaxVersion, \* bound: versions of the objects
          MaxFaults,  \* bound: calls that fail
          MaxChanges, \* bound: changes of the cluster or of the configuration
          NoObject, NoEntry

Groups == {a.group : a \in Apis}
Key(o) == <<o.namespace, o.kind, o.name>>
Keys == {Key(o) : o \in Objects}

\* Configurations pass Load, and the cluster's objects have an API and a namespace.
ASSUME ScraperAssumption ==
  /\ \A c \in Configs : /\ ValidNamespaces(c.namespaces)
                        /\ c.namespaces.defaultExclude \in {"unset", "true", "false"}
  /\ \A o \in Objects : /\ o.namespace \in Existing
                        /\ \E a \in Apis : a.group = o.group /\ a.kind = o.kind
  /\ MaxVersion \in Nat \ {0} /\ MaxFaults \in Nat /\ MaxChanges \in Nat

\* A cluster holds finitely many objects, and discovery, which answers with the
\* preferred version of a resource only, has one resource for a kind of a group.
ASSUME ClusterAssumption ==
  /\ IsFiniteSet(Objects)
  /\ \A a, b \in Apis : a.listable /\ b.listable /\ a.group = b.group /\ a.kind = b.kind => a = b

\* The sentinels are none of the values they stand beside.
ASSUME SentinelAssumption == /\ NoObject \notin 1..MaxVersion
                             /\ NoEntry \notin [group : Groups, version : 1..MaxVersion]

VARIABLES source,     \* object -> version, or NoObject
          config,
          stored,     \* key -> [group, version], or NoEntry
          stats,      \* namespaces and count of the last UpdateScrapeStats
          phase, allowed,  \* of the scrape: where it is, and the namespaces selected
          groups,     \* API groups it has yet to go through
          apis,       \* APIs of the group it is at
          items,      \* what the API it is at has listed: object -> version
          count, errors,   \* of the result; is the list of errors empty
          cancelled,  \* is its context done
          outcome,    \* how Run ended: "none", "ok", "partial" or "failed"
          disturbed,  \* history: has the cluster changed since it began
          faults, changes

result == <<count, errors, outcome>>
run == <<phase, allowed, groups, apis, items, cancelled, disturbed>>
vars == <<source, config, stored, stats, run, result, faults, changes>>

Versions == 1..MaxVersion
NoItems == [o \in {} |-> 1]

\* Those that are there, and those asked for by name, which are not looked up.
Namespaces == Existing \cup UNION {c.namespaces.include : c \in Configs}

TypeOK ==
  /\ source \in [Objects -> Versions \cup {NoObject}]
  /\ config \in Configs
  /\ stored \in [Keys -> [group : Groups, version : Versions] \cup {NoEntry}]
  /\ stats \in [namespaces : SUBSET Namespaces, count : 0..Cardinality(Objects)]
  /\ phase \in {"idle", "discover", "groups", "apis", "items"}
  /\ allowed \subseteq Namespaces
  /\ groups \subseteq Groups /\ apis \subseteq Apis
  /\ items \in UNION {[S -> Versions] : S \in SUBSET {o \in Objects : o.namespace \in allowed}}
  /\ count \in 0..Cardinality(Objects) /\ errors \in BOOLEAN /\ cancelled \in BOOLEAN
  /\ outcome \in {"none", "ok", "partial", "failed"} /\ disturbed \in BOOLEAN
  /\ faults \in 0..MaxFaults /\ changes \in 0..MaxChanges

Init ==
  /\ source \in [Objects -> {1, NoObject}] /\ config \in Configs
  /\ stored = [k \in Keys |-> NoEntry] /\ stats = [namespaces |-> {}, count |-> 0]
  /\ phase = "idle" /\ allowed = {} /\ groups = {} /\ apis = {} /\ items = NoItems
  /\ count = 0 /\ errors = FALSE /\ cancelled = FALSE /\ outcome = "none"
  /\ disturbed = FALSE /\ faults = 0 /\ changes = 0

Fails == faults < MaxFaults /\ faults' = faults + 1

------------------------------------------------------------------------------
\* What is scraped.

defaultExcludedKinds == {"Event", "Binding", "Endpoints", "EndpointSlice", "PodMetrics",
                         "NodeMetrics", "ReplicaSet", "Pod", "ControllerRevision", "Lease"}
defaultExcludedNames == {<<"ConfigMap", "kube-root-ca.crt">>, <<"ServiceAccount", "default">>}

IsExcludedKind(kind) == kind \in defaultExcludedKinds \cup config.excludeKinds
\* Mutation: names given for a kind replace the default ones.
IsExcludedResourceMutant(kind, name) ==
  <<kind, name>> \in IF config.excludeNames = {} THEN defaultExcludedNames ELSE config.excludeNames
IsExcludedResource(kind, name) == <<kind, name>> \in defaultExcludedNames \cup config.excludeNames

Wanted(a) == a.listable /\ ~IsExcludedKind(a.kind)

------------------------------------------------------------------------------
\* Run.

\* The deferred Flush and UpdateScrapeStats, and the result.
Ends(how) ==
  /\ phase' = "idle" /\ outcome' = how
  /\ stats' = [namespaces |-> allowed, count |-> count]
  /\ groups' = {} /\ apis' = {}
  /\ UNCHANGED <<source, config, stored, allowed, items, count, errors, cancelled, disturbed, changes>>

\* A failing list of the namespaces, which an include list does without, ends the
\* scrape before there is a result.
Begin ==
  /\ phase = "idle"
  /\ cancelled' = FALSE /\ disturbed' = FALSE /\ count' = 0 /\ errors' = FALSE
  /\ \/ /\ allowed' = ResolveNamespaces(config.namespaces, Existing)
        /\ phase' = "discover" /\ outcome' = "none"
        /\ UNCHANGED faults
     \/ /\ config.namespaces.include = {} /\ Fails
        /\ outcome' = "failed"
        /\ UNCHANGED <<phase, allowed>>
  /\ UNCHANGED <<source, config, stored, stats, groups, apis, items, changes>>

\* Mutation: a partial discovery is not noted.
PartlyMutant == errors' = errors
Partly == errors' = TRUE

\* ServerPreferredNamespacedResources: all groups, some of them, or none.
Discover ==
  /\ phase = "discover"
  /\ \/ /\ groups' = Groups /\ phase' = "groups"
        /\ UNCHANGED <<errors, faults>>
     \/ /\ Fails
        /\ \E g \in (SUBSET Groups) \ {Groups} : groups' = g
        /\ phase' = "groups" /\ Partly
  /\ UNCHANGED <<source, config, stored, stats, allowed, apis, items, count, cancelled, outcome,
                 disturbed, changes>>

NothingDiscovered == phase = "discover" /\ Fails /\ Ends("partial")

\* The context is looked at between two groups only.
NextGroup(g) ==
  /\ phase = "groups" /\ g \in groups /\ ~cancelled
  /\ groups' = groups \ {g}
  /\ apis' = {a \in Apis : a.group = g /\ Wanted(a)}
  /\ phase' = "apis"
  /\ UNCHANGED <<source, config, stored, stats, allowed, items, result, cancelled, disturbed,
                 faults, changes>>

GroupDone == /\ phase = "apis" /\ apis = {}
             /\ phase' = "groups"
             /\ UNCHANGED <<source, config, stored, stats, allowed, groups, apis, items, result,
                            cancelled, disturbed, faults, changes>>

RunEnds == /\ phase = "groups"
           /\ \/ groups = {} /\ Ends("ok")
              \/ groups # {} /\ cancelled /\ Ends("partial")
           /\ UNCHANGED faults

\* Mutation: objects of every namespace are taken.
ListedMutant(a) == {o \in Objects : source[o] # NoObject /\ o.group = a.group /\ o.kind = a.kind}
Listed(a) == {o \in Objects : /\ source[o] # NoObject
                              /\ o.group = a.group /\ o.kind = a.kind /\ o.namespace \in allowed}

\* scrapeGVR lists all namespaces at once and keeps what is selected.
List(a) ==
  /\ phase = "apis" /\ a \in apis
  /\ apis' = apis \ {a}
  /\ \/ /\ ~cancelled
        /\ items' = [o \in Listed(a) |-> source[o]]
        /\ phase' = "items"
        /\ UNCHANGED <<errors, faults>>
     \/ /\ IF cancelled THEN UNCHANGED faults ELSE Fails
        /\ errors' = TRUE
        /\ UNCHANGED <<phase, items>>
  /\ UNCHANGED <<source, config, stored, stats, allowed, groups, count, cancelled, outcome,
                 disturbed, changes>>

\* Mutation: a failing save ends the walk through the list silently.
SaveFailedMutant == UNCHANGED errors
SaveFailed == errors' = TRUE

\* The items in the order of the list: an excluded one is deleted from the store.
TakeItem ==
  /\ phase = "items" /\ items # NoItems
  /\ LET o == CHOOSE x \in DOMAIN items : TRUE
         excluded == IsExcludedResource(o.kind, o.name)
     IN /\ items' = [x \in DOMAIN items \ {o} |-> items[x]]
        /\ \/ /\ stored' = [stored EXCEPT ![Key(o)] =
                   IF excluded THEN NoEntry ELSE [group |-> o.group, version |-> items[o]]]
              /\ count' = IF excluded THEN count ELSE count + 1
              /\ UNCHANGED <<errors, faults>>
           \/ /\ Fails /\ SaveFailed
              /\ UNCHANGED <<stored, count>>
  /\ UNCHANGED <<source, config, stats, phase, allowed, groups, apis, cancelled, outcome, disturbed,
                 changes>>

ListDone == /\ phase = "items" /\ items = NoItems
            /\ phase' = "apis"
            /\ UNCHANGED <<source, config, stored, stats, allowed, groups, apis, items, result,
                           cancelled, disturbed, faults, changes>>

------------------------------------------------------------------------------
\* What happens meanwhile: the deadline passes, the cluster changes, and between
\* two scrapes DrKate is started with another configuration.

Cancel == /\ phase # "idle" /\ ~cancelled /\ Fails
          /\ cancelled' = TRUE
          /\ UNCHANGED <<source, config, stored, stats, phase, allowed, groups, apis, items, result,
                         disturbed, changes>>

Changes == changes < MaxChanges /\ changes' = changes + 1

SourceChanges(o) ==
  /\ Changes
  /\ \E v \in (Versions \cup {NoObject}) \ {source[o]} : source' = [source EXCEPT ![o] = v]
  /\ disturbed' = TRUE
  /\ UNCHANGED <<config, stored, stats, phase, allowed, groups, apis, items, result, cancelled, faults>>

Restart == /\ phase = "idle" /\ Changes
           /\ \E c \in Configs \ {config} : config' = c
           /\ outcome' = "none"
           /\ UNCHANGED <<source, stored, stats, run, count, errors, faults>>

Next == \/ Begin \/ Discover \/ NothingDiscovered \/ GroupDone \/ RunEnds \/ TakeItem \/ ListDone
        \/ \E g \in Groups : NextGroup(g)
        \/ \E a \in Apis : List(a)
        \/ Cancel \/ Restart
        \/ \E o \in Objects : SourceChanges(o)

Spec == Init /\ [][Next]_vars

------------------------------------------------------------------------------
\* Properties.

\* The namespaces an operator asked for: those of the list, or all but the excluded
\* ones and, unless told otherwise, the system's.
Asked(ns) ==
  LET n == config.namespaces
  IN /\ ns \notin n.exclude
     /\ n.include # {} => ns \in n.include
     /\ n.include = {} /\ n.defaultExclude \in {"unset", "true"}
          => ns \notin {"kube-system", "kube-public", "kube-node-lease"}

Excluded(o) == IsExcludedKind(o.kind) \/ <<o.kind, o.name>> \in config.excludeNames \cup
                  {<<"ConfigMap", "kube-root-ca.crt">>, <<"ServiceAccount", "default">>}

Selected(o) == /\ source[o] # NoObject /\ Asked(o.namespace) /\ ~Excluded(o)
               /\ \E a \in Apis : a.group = o.group /\ a.kind = o.kind /\ a.listable

\* A scrape that reports no error has stored everything it should, as it is now, if
\* the cluster did not change under it: partial discovery, a failing list or save,
\* and a deadline all leave a mark.  Two objects of one name whose kinds differ in
\* the API group only share an entry, and the one that came last has it.
CleanScrapeIsComplete ==
  (outcome = "ok" /\ ~errors /\ ~disturbed) =>
    \A o \in Objects : Selected(o) =>
      \E p \in Objects : /\ Key(p) = Key(o) /\ Selected(p)
                         /\ stored[Key(o)] = [group |-> p.group, version |-> source[p]]

\* Whatever fails, nothing is stored that was not asked for, and what is stored is
\* never removed but on request: not when the object is gone, its namespace is no
\* longer selected, or the source cluster does not answer.
StoreChangesAsAsked ==
  [][\A o \in Objects :
       /\ stored'[Key(o)] # stored[Key(o)] /\ stored'[Key(o)] # NoEntry
            => Asked(o.namespace) /\ \E p \in Objects : Key(p) = Key(o) /\ ~Excluded(p)
       /\ stored[Key(o)] # NoEntry /\ stored'[Key(o)] = NoEntry => Excluded(o)]_vars

\* "It copies namespaced resources from a source cluster" (README.md:6): after a
\* clean scrape every selected object is in the store.
EverySelectedObjectIsStored ==
  (outcome = "ok" /\ ~errors /\ ~disturbed) =>
    \A o \in Objects : Selected(o) => stored[Key(o)] = [group |-> o.group, version |-> source[o]]
=============================================================================
