----------------------------- MODULE ScraperProofs -----------------------------
(***************************************************************************)
(* Proofs about Scraper for all APIs, objects, namespaces and              *)
(* configurations, and any number of failures and changes.                 *)
(***************************************************************************)
EXTENDS Scraper, FiniteSetTheorems, TLAPS

------------------------------------------------------------------------------
\* What the variables are in each phase.

\* The part of the type invariant that concerns the store and what was listed.
Typed ==
  /\ source \in [Objects -> Versions \cup {NoObject}] /\ config \in Configs
  /\ stored = [k \in Keys |-> stored[k]]
  /\ phase \in {"idle", "discover", "groups", "apis", "items"}
  /\ items = [o \in DOMAIN items |-> items[o]]
  /\ DOMAIN items \subseteq Objects
  /\ \A o \in DOMAIN items : items[o] \in Versions

\* A scrape goes through what it selected when it began: it has items only while it
\* goes through them, and APIs only while it goes through a group.
Phased ==
  /\ phase # "items" => items = NoItems
  /\ phase \notin {"items", "apis"} => apis = {}
  /\ phase # "idle" => allowed = ResolveNamespaces(config.namespaces, Existing)
  /\ phase # "idle" => outcome = "none"
  /\ \A a \in apis : a \in Apis /\ Wanted(a)
  /\ \A o \in DOMAIN items : o.namespace \in allowed /\ ~IsExcludedKind(o.kind)

\* The list of an API holds objects of its kind, in the namespaces selected.
LEMMA ListedIs ==
  ASSUME Typed, NEW a
  PROVE  \A o \in Listed(a) : /\ o \in Objects /\ source[o] \in Versions
                             /\ o.kind = a.kind /\ o.namespace \in allowed
BY DEF Listed, Typed

\* A record of an object is no sentinel.
LEMMA EntryIs ==
  ASSUME NEW o \in Objects, NEW v \in Versions
  PROVE  Key(o) \in Keys /\ [group |-> o.group, version |-> v] # NoEntry
<1>1. o.group \in Groups
  BY ScraperAssumption DEF Groups
<1>2. [group |-> o.group, version |-> v] \in [group : Groups, version : 1..MaxVersion]
  BY <1>1 DEF Versions
<1> QED BY <1>2, SentinelAssumption DEF Keys

\* The start.
LEMMA ShapeInit == Init => Typed /\ Phased
<1> SUFFICES ASSUME Init PROVE Typed /\ Phased
  OBVIOUS
<1>1. source \in [Objects -> Versions \cup {NoObject}]
  BY ScraperAssumption DEF Init, Versions
<1>2. DOMAIN NoItems = {} /\ NoItems = [o \in DOMAIN NoItems |-> NoItems[o]]
  BY DEF NoItems
<1> QED BY <1>1, <1>2 DEF Init, Typed, Phased

\* A step that leaves the store, the listed items and the configuration alone.
LEMMA TypedKept ==
  ASSUME Typed, UNCHANGED <<source, config, stored, items>>,
         phase' \in {"idle", "discover", "groups", "apis", "items"}
  PROVE  Typed'
<1>1. stored' = [k \in Keys |-> stored'[k]]
  BY Zenon DEF Typed
<1>2. items' = [o \in DOMAIN items' |-> items'[o]]
  BY Zenon DEF Typed
<1> QED BY <1>1, <1>2 DEF Typed

\* And one that leaves where the scrape is alone, too.
LEMMA ShapeKept ==
  ASSUME Typed, Phased, UNCHANGED <<source, config, stored, phase, allowed, apis, items, outcome>>
  PROVE  Typed' /\ Phased'
<1>1. Typed'
  BY TypedKept DEF Typed
<1>2. Phased'
  BY DEF Phased, Wanted, IsExcludedKind
<1> QED BY <1>1, <1>2

\* Every step keeps types and phases.
LEMMA ShapeInductive ==
  ASSUME Typed, Phased, [Next]_vars
  PROVE  Typed' /\ Phased'
<1> USE DEF Wanted, IsExcludedKind
<1>1. CASE Begin
  <2>1. Typed'
    BY <1>1, TypedKept DEF Begin, Typed
  <2>2. apis' = {} /\ items' = NoItems /\ DOMAIN NoItems = {}
    BY <1>1 DEF Begin, Phased, NoItems
  <2> QED BY <1>1, <2>1, <2>2 DEF Begin, Phased
<1>2. CASE Discover
  BY <1>2 DEF Discover, Typed, Phased
<1>3. CASE NothingDiscovered
  BY <1>3 DEF NothingDiscovered, Ends, Typed, Phased
<1>4. CASE GroupDone
  BY <1>4 DEF GroupDone, result, Typed, Phased
<1>5. CASE RunEnds
  BY <1>5 DEF RunEnds, Ends, Typed, Phased
<1>6. CASE TakeItem
  <2>1. PICK o \in DOMAIN items : items' = [x \in DOMAIN items \ {o} |-> items[x]]
    <3>1. DOMAIN items # {}
      BY <1>6 DEF TakeItem, Typed, NoItems
    <3> QED BY <1>6, <3>1 DEF TakeItem
  <2>2. stored' = [k \in Keys |-> stored'[k]]
    BY <1>6 DEF TakeItem, Typed
  <2> QED BY <1>6, <2>1, <2>2 DEF TakeItem, Typed, Phased
<1>7. CASE ListDone
  BY <1>7 DEF ListDone, result, Typed, Phased
<1>8. ASSUME NEW g \in Groups, NextGroup(g) PROVE Typed' /\ Phased'
  BY <1>8 DEF NextGroup, result, Typed, Phased
<1>9. ASSUME NEW a \in Apis, List(a) PROVE Typed' /\ Phased'
  <2>1. CASE items' = [o \in Listed(a) |-> source[o]] /\ phase' = "items"
    BY <1>9, <2>1, ListedIs DEF List, Typed, Phased
  <2>2. CASE UNCHANGED <<phase, items>>
    BY <1>9, <2>2 DEF List, Typed, Phased
  <2> QED BY <1>9, <2>1, <2>2 DEF List
<1>10. CASE Cancel
  BY <1>10, ShapeKept DEF Cancel, result
<1>11. CASE Restart
  <2>1. phase = "idle" /\ items = NoItems /\ apis = {} /\ DOMAIN NoItems = {}
    BY <1>11 DEF Restart, Phased, NoItems
  <2> QED BY <1>11, <2>1 DEF Restart, run, Typed, Phased
<1>12. ASSUME NEW o \in Objects, SourceChanges(o) PROVE Typed' /\ Phased'
  BY <1>12 DEF SourceChanges, result, Typed, Phased
<1>13. CASE UNCHANGED vars
  BY <1>13, ShapeKept DEF vars, run, result
<1> QED BY <1>1, <1>2, <1>3, <1>4, <1>5, <1>6, <1>7, <1>8, <1>9, <1>10, <1>11, <1>12, <1>13 DEF Next

------------------------------------------------------------------------------
\* What is stored and removed.

\* The namespaces resolved are those an operator asked for.
LEMMA ResolvedIsAsked ==
  ASSUME config \in Configs, NEW ns
  PROVE  /\ ns \in ResolveNamespaces(config.namespaces, Existing) => Asked(ns)
         /\ Asked(ns) /\ ns \in Existing => ns \in ResolveNamespaces(config.namespaces, Existing)
BY ScraperAssumption DEF ResolveNamespaces, Exclusions, UseDefaultExclude, defaultSystemNamespaces, Asked

\* Exclusion by name is what the operator sees of it.
LEMMA ExcludedIs ==
  ASSUME NEW o
  PROVE  Excluded(o) <=> IsExcludedKind(o.kind) \/ IsExcludedResource(o.kind, o.name)
BY DEF Excluded, IsExcludedResource, defaultExcludedNames

\* What taking an item does to the store: an entry of an object that is asked for,
\* or the removal of an excluded one.
LEMMA TakeItemIs ==
  ASSUME Typed, Phased, TakeItem
  PROVE  \E p \in DOMAIN items :
           /\ p \in Objects /\ Asked(p.namespace) /\ ~IsExcludedKind(p.kind)
           /\ items' = [x \in DOMAIN items \ {p} |-> items[x]]
           /\ \/ Excluded(p) /\ stored' = [stored EXCEPT ![Key(p)] = NoEntry]
              \/ /\ ~Excluded(p)
                 /\ stored' = [stored EXCEPT ![Key(p)] = [group |-> p.group, version |-> items[p]]]
              \/ errors' = TRUE /\ UNCHANGED stored
<1> DEFINE p == CHOOSE x \in DOMAIN items : TRUE
<1>1. DOMAIN items # {}
  BY DEF TakeItem, Typed, NoItems
<1>2. p \in DOMAIN items
  BY <1>1
<1>3. p \in Objects /\ Asked(p.namespace) /\ ~IsExcludedKind(p.kind)
  <2>1. p.namespace \in allowed /\ allowed = ResolveNamespaces(config.namespaces, Existing)
    BY <1>2 DEF TakeItem, Phased
  <2> QED BY <1>2, <2>1, ResolvedIsAsked DEF Typed, Phased
<1>4. /\ items' = [x \in DOMAIN items \ {p} |-> items[x]]
      /\ \/ stored' = [stored EXCEPT ![Key(p)] = IF IsExcludedResource(p.kind, p.name) THEN NoEntry
                                                 ELSE [group |-> p.group, version |-> items[p]]]
         \/ errors' = TRUE /\ UNCHANGED stored
  BY DEF TakeItem, SaveFailed
<1> HIDE DEF p
<1> QED BY <1>2, <1>3, <1>4, ExcludedIs

\* Of the steps only this one changes the store.
LEMMA OnlyTakeItemStores == [Next]_vars => UNCHANGED stored \/ TakeItem
BY DEF Next, Begin, Discover, NothingDiscovered, Ends, GroupDone, RunEnds, ListDone, NextGroup, List,
       Cancel, Restart, SourceChanges, vars

\* Whatever fails, no entry is made that was not asked for, and none is removed but
\* of an excluded object.
THEOREM StoresAsAsked == Spec => StoreChangesAsAsked
<1> DEFINE A == \A o \in Objects :
       /\ stored'[Key(o)] # stored[Key(o)] /\ stored'[Key(o)] # NoEntry
            => Asked(o.namespace) /\ \E p \in Objects : Key(p) = Key(o) /\ ~Excluded(p)
       /\ stored[Key(o)] # NoEntry /\ stored'[Key(o)] = NoEntry => Excluded(o)
<1>1. Init => Typed /\ Phased
  BY ShapeInit
<1>2. Typed /\ Phased /\ [Next]_vars => (Typed /\ Phased)'
  BY ShapeInductive
<1>3. Typed /\ Phased /\ [Next]_vars => [A]_vars
  <2> SUFFICES ASSUME Typed, Phased, [Next]_vars, NEW o \in Objects
               PROVE  /\ stored'[Key(o)] # stored[Key(o)] /\ stored'[Key(o)] # NoEntry
                           => Asked(o.namespace) /\ \E p \in Objects : Key(p) = Key(o) /\ ~Excluded(p)
                      /\ stored[Key(o)] # NoEntry /\ stored'[Key(o)] = NoEntry => Excluded(o)
    OBVIOUS
  <2>1. CASE UNCHANGED stored
    BY <2>1
  <2>2. CASE TakeItem
    <3> PICK p \in DOMAIN items :
           /\ p \in Objects /\ Asked(p.namespace) /\ ~IsExcludedKind(p.kind)
           /\ \/ Excluded(p) /\ stored' = [stored EXCEPT ![Key(p)] = NoEntry]
              \/ /\ ~Excluded(p)
                 /\ stored' = [stored EXCEPT ![Key(p)] = [group |-> p.group, version |-> items[p]]]
              \/ errors' = TRUE /\ UNCHANGED stored
      BY <2>2, TakeItemIs
    <3>1. Key(p) \in Keys /\ [group |-> p.group, version |-> items[p]] # NoEntry
      BY EntryIs DEF Typed
    <3>2. Key(p) # Key(o) => stored'[Key(o)] = stored[Key(o)]
      BY EntryIs DEF Typed
    <3>3. Key(p) = Key(o) => o.namespace = p.namespace /\ o.kind = p.kind /\ o.name = p.name
      BY DEF Key
    <3>4. Key(p) = Key(o) => (Excluded(o) <=> Excluded(p))
      BY <3>3, ExcludedIs
    <3> QED BY <3>1, <3>2, <3>3, <3>4 DEF Typed
  <2> QED BY <2>1, <2>2, OnlyTakeItemStores
<1> QED BY <1>1, <1>2, <1>3, PTL DEF Spec, StoreChangesAsAsked

------------------------------------------------------------------------------
\* A clean scrape is complete.

\* What the scrape has yet to come to.
Pending(o) == \/ phase = "discover" \/ o.group \in groups
              \/ \E a \in apis : a.group = o.group /\ a.kind = o.kind
              \/ o \in DOMAIN items

\* What is stored of an object, or of one that shares its entry.
Done(o) == \E p \in Objects : /\ Key(p) = Key(o) /\ Selected(p)
                              /\ stored[Key(o)] = [group |-> p.group, version |-> source[p]]

Clean == ~errors /\ ~disturbed

\* What is listed has an API that says so.
Listable == \A o \in DOMAIN items : \E a \in Apis : a.group = o.group /\ a.kind = o.kind /\ a.listable

\* As long as nothing failed and nothing changed, whatever is selected is stored or
\* ahead of the scrape, and what is listed is what there is.
OnCourse ==
  /\ Clean /\ phase # "idle" => /\ \A o \in DOMAIN items : items[o] = source[o]
                                /\ \A o \in Objects : Selected(o) => Pending(o) \/ Done(o)
  /\ Clean /\ outcome = "ok" => \A o \in Objects : Selected(o) => Done(o)

Shaped == Typed /\ Phased /\ Listable

\* A selected object is in a namespace of the scrape, and its API is gone through.
LEMMA SelectedIs ==
  ASSUME Typed, Phased, phase # "idle", NEW o \in Objects, Selected(o)
  PROVE  /\ o.namespace \in allowed /\ o.group \in Groups
         /\ \E a \in Apis : a.group = o.group /\ a.kind = o.kind /\ Wanted(a)
<1>1. o.namespace \in allowed
  BY ResolvedIsAsked, ScraperAssumption DEF Selected, Typed, Phased
<1>2. PICK a \in Apis : a.group = o.group /\ a.kind = o.kind /\ a.listable
  BY DEF Selected
<1> QED BY <1>1, <1>2 DEF Groups, Wanted, Selected, Excluded

\* Selection and what is done depend on the cluster, the configuration and the store.
LEMMA DoneKept ==
  ASSUME UNCHANGED <<source, config, stored>>, NEW o
  PROVE  (Selected(o)' <=> Selected(o)) /\ (Done(o)' <=> Done(o))
BY DEF Selected, Done, Asked, Excluded, IsExcludedKind

\* What is listed has an API that says so, in every step.
LEMMA ListableInductive == ASSUME Typed, Phased, Listable, [Next]_vars PROVE Listable'
<1>1. CASE UNCHANGED items
  BY <1>1 DEF Listable
<1>2. CASE TakeItem
  BY <1>2, TakeItemIs DEF Listable
<1>3. ASSUME NEW a \in Apis, List(a) PROVE Listable'
  <2>1. a \in apis /\ a.listable
    BY <1>3 DEF List, Phased, Wanted
  <2> QED BY <1>3, <2>1, ListedIs DEF List, Listable, Listed
<1> QED BY <1>1, <1>2, <1>3 DEF Next, Begin, Discover, NothingDiscovered, Ends, GroupDone, RunEnds,
           ListDone, NextGroup, Cancel, Restart, SourceChanges, vars, run

\* Taking an item puts it, and nothing that is done, out of the way.
LEMMA TakeItemOnCourse ==
  ASSUME Shaped, OnCourse, TakeItem
  PROVE  OnCourse'
<1>1. UNCHANGED <<source, config, phase, groups, apis, outcome, disturbed>> /\ phase = "items"
  BY DEF TakeItem
<1>2. outcome' # "ok"
  BY <1>1 DEF Shaped, Phased
<1>3. (errors => errors') /\ outcome # "ok"
  BY <1>1, <1>2 DEF TakeItem, SaveFailed
<1> SUFFICES ASSUME ~errors', ~disturbed'
             PROVE  /\ \A o \in DOMAIN items' : items'[o] = source'[o]
                    /\ \A o \in Objects : Selected(o)' => Pending(o)' \/ Done(o)'
  BY <1>2 DEF OnCourse, Clean
<1>4. Clean
  BY <1>1, <1>3 DEF Clean
<1> PICK p \in DOMAIN items :
       /\ p \in Objects /\ Asked(p.namespace) /\ ~IsExcludedKind(p.kind)
       /\ items' = [x \in DOMAIN items \ {p} |-> items[x]]
       /\ \/ Excluded(p) /\ stored' = [stored EXCEPT ![Key(p)] = NoEntry]
          \/ /\ ~Excluded(p)
             /\ stored' = [stored EXCEPT ![Key(p)] = [group |-> p.group, version |-> items[p]]]
  BY TakeItemIs DEF Shaped
<1>5. \A o \in DOMAIN items' : items'[o] = source'[o]
  BY <1>1, <1>4 DEF OnCourse
<1>6. ASSUME NEW o \in Objects, Selected(o)' PROVE Pending(o)' \/ Done(o)'
  <2>1. Selected(o)
    BY <1>1, <1>6 DEF Selected, Asked, Excluded, IsExcludedKind
  <2>2. CASE Key(p) = Key(o)
    <3>1. ~Excluded(p)
      BY <2>1, <2>2, ExcludedIs DEF Key, Selected
    <3>2. items[p] = source[p] /\ source[p] # NoObject
      BY <1>1, <1>4, SentinelAssumption DEF OnCourse, Shaped, Typed, Versions
    <3>3. Selected(p)
      BY <3>1, <3>2 DEF Selected, Shaped, Listable
    <3>4. Selected(p)'
      BY <1>1, <3>3 DEF Selected, Asked, Excluded, IsExcludedKind
    <3>5. Key(p) \in Keys /\ stored'[Key(o)] = [group |-> p.group, version |-> source[p]]
      BY <2>2, <3>1, <3>2 DEF Shaped, Typed, Keys
    <3> QED BY <1>1, <2>2, <3>4, <3>5 DEF Done
  <2>3. CASE Key(p) # Key(o)
    <3>1. stored'[Key(o)] = stored[Key(o)]
      BY <2>3 DEF Shaped, Typed, Keys
    <3>2. Pending(o) \/ Done(o)
      BY <1>1, <1>4, <2>1 DEF OnCourse
    <3>3. CASE Pending(o)
      BY <1>1, <2>3, <3>3 DEF Pending
    <3>4. CASE Done(o)
      <4>1. PICK q \in Objects : /\ Key(q) = Key(o) /\ Selected(q)
                                 /\ stored[Key(o)] = [group |-> q.group, version |-> source[q]]
        BY <3>4 DEF Done
      <4>2. Selected(q)'
        BY <1>1, <4>1 DEF Selected, Asked, Excluded, IsExcludedKind
      <4> QED BY <1>1, <3>1, <4>1, <4>2 DEF Done
    <3> QED BY <3>2, <3>3, <3>4
  <2> QED BY <2>2, <2>3
<1> QED BY <1>5, <1>6

\* Listing an API puts its selected objects among the items.
LEMMA ListOnCourse ==
  ASSUME Shaped, OnCourse, NEW a \in Apis, List(a)
  PROVE  OnCourse'
<1>1. /\ UNCHANGED <<source, config, stored, allowed, groups, outcome, disturbed>>
      /\ phase = "apis" /\ apis' = apis \ {a}
      /\ \/ items' = [o \in Listed(a) |-> source[o]] /\ UNCHANGED errors /\ phase' = "items"
         \/ errors'
  BY DEF List
<1>2. outcome' # "ok"
  BY <1>1 DEF Shaped, Phased
<1> SUFFICES ASSUME ~errors', ~disturbed'
             PROVE  /\ \A o \in DOMAIN items' : items'[o] = source'[o]
                    /\ \A o \in Objects : Selected(o)' => Pending(o)' \/ Done(o)'
  BY <1>2 DEF OnCourse, Clean
<1>3. items' = [o \in Listed(a) |-> source[o]] /\ Clean
  BY <1>1 DEF Clean
<1>4. ASSUME NEW o \in Objects, Selected(o)' PROVE Pending(o)' \/ Done(o)'
  <2>1. Selected(o)
    BY <1>1, <1>4, DoneKept
  <2>2. Pending(o) \/ Done(o)
    BY <1>1, <1>3, <2>1 DEF OnCourse
  <2>3. CASE Done(o)
    BY <1>1, <2>3, DoneKept
  <2>4. CASE o.group \in groups
    BY <1>1, <2>4 DEF Pending
  <2>5. ASSUME NEW b \in apis, b.group = o.group, b.kind = o.kind PROVE Pending(o)'
    <3>1. CASE b = a
      <4>1. o \in Listed(a)
        BY <1>1, <2>1, <2>5, <3>1, SelectedIs DEF Shaped, Listed, Selected
      <4> QED BY <1>3, <4>1 DEF Pending
    <3>2. CASE b # a
      BY <1>1, <2>5, <3>2 DEF Pending
    <3> QED BY <3>1, <3>2
  <2>6. o \notin DOMAIN items
    BY <1>1 DEF Shaped, Phased, NoItems
  <2> QED BY <1>1, <2>2, <2>3, <2>4, <2>5, <2>6 DEF Pending
<1>5. \A o \in DOMAIN items' : items'[o] = source'[o]
  BY <1>1, <1>3
<1> QED BY <1>4, <1>5

\* Going on to a group puts its APIs ahead.
LEMMA NextGroupOnCourse ==
  ASSUME Shaped, OnCourse, NEW g \in Groups, NextGroup(g)
  PROVE  OnCourse'
<1>1. /\ UNCHANGED <<source, config, stored, items, outcome, errors, disturbed>>
      /\ phase = "groups" /\ groups' = groups \ {g}
      /\ apis' = {a \in Apis : a.group = g /\ Wanted(a)}
  BY DEF NextGroup, result
<1>2. outcome # "ok" /\ items = NoItems /\ DOMAIN NoItems = {} /\ apis = {}
  BY <1>1 DEF Shaped, Phased, NoItems
<1>3. ASSUME NEW o \in Objects, Clean, Selected(o)' PROVE Pending(o)' \/ Done(o)'
  <2>1. Selected(o)
    BY <1>1, <1>3, DoneKept
  <2>2. o.group \in groups \/ Done(o)
    BY <1>1, <1>2, <1>3, <2>1 DEF OnCourse, Pending
  <2>3. CASE Done(o)
    BY <1>1, <2>3, DoneKept
  <2>4. CASE o.group = g
    BY <1>1, <2>1, <2>4, SelectedIs DEF Shaped, Pending
  <2> QED BY <1>1, <2>2, <2>3, <2>4 DEF Pending
<1> QED BY <1>1, <1>2, <1>3 DEF OnCourse, Clean

\* The steps that neither store nor list.
LEMMA OthersOnCourse ==
  ASSUME Shaped, OnCourse, UNCHANGED <<source, config, stored, items>>,
         Clean' => Clean /\ phase # "idle",
         Clean' /\ outcome' = "ok" => groups = {} /\ phase = "groups",
         Clean' => \A o \in Objects : Selected(o) /\ Pending(o) => Pending(o)' \/ phase' = "idle"
  PROVE  OnCourse'
<1>1. ASSUME NEW o \in Objects, Clean', Selected(o)', phase' # "idle" PROVE Pending(o)' \/ Done(o)'
  BY <1>1, DoneKept DEF OnCourse
<1>2. ASSUME NEW o \in Objects, Clean', outcome' = "ok", Selected(o)' PROVE Done(o)'
  <2>1. items = NoItems /\ DOMAIN NoItems = {} /\ apis = {}
    BY <1>2 DEF Shaped, Phased, NoItems
  <2>2. ~Pending(o)
    BY <1>2, <2>1 DEF Pending
  <2> QED BY <1>2, <2>2, DoneKept DEF OnCourse
<1> QED BY <1>1, <1>2 DEF OnCourse

\* Every step stays on course.
LEMMA CourseInductive ==
  ASSUME Shaped, OnCourse, [Next]_vars
  PROVE  OnCourse'
<1>1. CASE Begin
  <2>1. items' = NoItems /\ DOMAIN NoItems = {}
    BY <1>1 DEF Begin, Shaped, Phased, NoItems
  <2> QED BY <1>1, <2>1 DEF Begin, OnCourse, Pending, Shaped, Phased
<1>2. CASE Discover
  <2>1. \A o \in Objects : Selected(o) => o.group \in Groups
    BY <1>2, SelectedIs DEF Discover, Shaped
  <2>2. Clean' => groups' = Groups
    BY <1>2 DEF Discover, Partly, Clean
  <2>3. outcome' # "ok"
    BY <1>2 DEF Discover, Shaped, Phased
  <2>4. Clean' => Clean
    BY <1>2 DEF Discover, Partly, Clean
  <2> QED BY <1>2, <2>1, <2>2, <2>3, <2>4, OthersOnCourse DEF Discover, Pending
<1>3. CASE NothingDiscovered
  BY <1>3, OthersOnCourse DEF NothingDiscovered, Ends, Clean
<1>4. CASE GroupDone
  <2>1. outcome' # "ok"
    BY <1>4 DEF GroupDone, result, Shaped, Phased
  <2> QED BY <1>4, <2>1, OthersOnCourse DEF GroupDone, result, Clean, Pending
<1>5. CASE RunEnds
  BY <1>5, OthersOnCourse DEF RunEnds, Ends, Clean
<1>6. CASE TakeItem
  BY <1>6, TakeItemOnCourse
<1>7. CASE ListDone
  <2>1. outcome' # "ok"
    BY <1>7 DEF ListDone, result, Shaped, Phased
  <2> QED BY <1>7, <2>1, OthersOnCourse DEF ListDone, result, Clean, Pending
<1>8. ASSUME NEW g \in Groups, NextGroup(g) PROVE OnCourse'
  BY <1>8, NextGroupOnCourse
<1>9. ASSUME NEW a \in Apis, List(a) PROVE OnCourse'
  BY <1>9, ListOnCourse
<1>10. CASE Cancel
  <2>1. outcome' # "ok"
    BY <1>10 DEF Cancel, result, Shaped, Phased
  <2> QED BY <1>10, <2>1, OthersOnCourse DEF Cancel, result, Clean, Pending
<1>11. CASE Restart
  BY <1>11 DEF Restart, run, OnCourse
<1>12. ASSUME NEW o \in Objects, SourceChanges(o) PROVE OnCourse'
  BY <1>12 DEF SourceChanges, OnCourse, Clean
<1>13. CASE UNCHANGED vars
  <2>1. UNCHANGED <<source, config, stored, phase, groups, apis, items, errors, outcome, disturbed>>
    BY <1>13 DEF vars, run, result
  <2> QED BY <2>1, DoneKept DEF OnCourse, Clean, Pending
<1> QED BY <1>1, <1>2, <1>3, <1>4, <1>5, <1>6, <1>7, <1>8, <1>9, <1>10, <1>11, <1>12, <1>13 DEF Next

\* A scrape that reports no error, of a cluster that did not change, has stored
\* everything that was selected: whatever may fail, and however often.
THEOREM CleanIsComplete == Spec => []CleanScrapeIsComplete
<1>1. Init => Shaped /\ OnCourse
  <2> SUFFICES ASSUME Init PROVE Shaped /\ OnCourse
    OBVIOUS
  <2>1. DOMAIN items = {}
    BY DEF Init, NoItems
  <2> QED BY <2>1, ShapeInit DEF Init, Shaped, Listable, OnCourse
<1>2. Shaped /\ OnCourse /\ [Next]_vars => (Shaped /\ OnCourse)'
  <2> SUFFICES ASSUME Shaped, OnCourse, [Next]_vars PROVE Shaped' /\ OnCourse'
    OBVIOUS
  <2>1. Typed' /\ Phased'
    BY ShapeInductive DEF Shaped
  <2>2. Listable' /\ OnCourse'
    BY ListableInductive, CourseInductive DEF Shaped
  <2> QED BY <2>1, <2>2 DEF Shaped
<1>3. OnCourse => CleanScrapeIsComplete
  BY DEF OnCourse, Clean, Done, CleanScrapeIsComplete
<1> QED BY <1>1, <1>2, <1>3, PTL DEF Spec

\* No two selected objects share an entry of the store.
NoCollision == \A o, p \in Objects : Selected(o) /\ Selected(p) /\ Key(o) = Key(p) => o = p

\* What scrape_collision loses, it loses for that reason alone: where selected objects
\* have entries of their own, a clean scrape leaves each of them in the store, as the
\* README says, whatever failed and whatever was configured before.
THEOREM CollisionsAlone == Spec => [](NoCollision => EverySelectedObjectIsStored)
<1>1. CleanScrapeIsComplete => (NoCollision => EverySelectedObjectIsStored)
  <2> SUFFICES ASSUME CleanScrapeIsComplete, NoCollision, outcome = "ok", ~errors, ~disturbed,
                      NEW o \in Objects, Selected(o)
               PROVE  stored[Key(o)] = [group |-> o.group, version |-> source[o]]
    BY DEF EverySelectedObjectIsStored
  <2>1. PICK p \in Objects : /\ Key(p) = Key(o) /\ Selected(p)
                             /\ stored[Key(o)] = [group |-> p.group, version |-> source[p]]
    BY DEF CleanScrapeIsComplete
  <2>2. p = o
    BY <2>1 DEF NoCollision
  <2> QED
    BY <2>1, <2>2
<1> QED
  BY <1>1, CleanIsComplete, PTL

------------------------------------------------------------------------------
\* The type invariant, and how often an object is counted.

\* What the scrape has yet to come to.
Ahead == {o \in Objects : Pending(o)}

\* It comes to an object in one place: the group it is at is not among those to come,
\* and the API it is at not among those of the group to come.
Apart ==
  /\ groups \subseteq Groups
  /\ \A a \in apis : a.group \notin groups
  /\ \A o \in DOMAIN items : /\ o.group \notin groups
                             /\ \A a \in apis : ~(a.group = o.group /\ a.kind = o.kind)

\* What is counted and what is to come are no more than there is.
Counted ==
  /\ count \in Nat /\ count <= Cardinality(Objects)
  /\ phase # "idle" => count + Cardinality(Ahead) <= Cardinality(Objects)

\* What the variables hold that the arguments above did not need to know.
Ranges ==
  /\ \A k \in Keys : stored[k] \in [group : Groups, version : Versions] \cup {NoEntry}
  /\ stats \in [namespaces : SUBSET Namespaces, count : 0..Cardinality(Objects)]
  /\ allowed \subseteq Namespaces
  /\ errors \in BOOLEAN /\ cancelled \in BOOLEAN /\ disturbed \in BOOLEAN
  /\ outcome \in {"none", "ok", "partial", "failed"}
  /\ faults \in 0..MaxFaults /\ changes \in 0..MaxChanges

\* Sets of objects are finite, and a smaller one has fewer.
LEMMA AheadIs ==
  /\ IsFiniteSet(Ahead) /\ Cardinality(Ahead) \in Nat
  /\ Cardinality(Objects) \in Nat /\ Cardinality(Ahead) <= Cardinality(Objects)
<1>1. Ahead \subseteq Objects
  BY DEF Ahead
<1> QED BY <1>1, ClusterAssumption, FS_Subset, FS_CardinalityType

\* The same after a step.
LEMMA AheadNext ==
  /\ IsFiniteSet(Ahead') /\ Cardinality(Ahead') \in Nat
  /\ Cardinality(Ahead') <= Cardinality(Objects)
<1>1. Ahead' \subseteq Objects
  BY DEF Ahead
<1> QED BY <1>1, ClusterAssumption, FS_Subset, FS_CardinalityType

\* A step that counts nothing and has nothing more to come to.
LEMMA NothingCounted ==
  ASSUME Counted, UNCHANGED count, phase # "idle", Ahead' \subseteq Ahead
  PROVE  Counted'
<1>1. Cardinality(Ahead') <= Cardinality(Ahead)
  BY AheadIs, FS_Subset
<1> QED BY <1>1, AheadIs, AheadNext DEF Counted

\* The APIs of a scrape can be listed.
LEMMA ApartInductive ==
  ASSUME Typed, Phased, Apart, [Next]_vars
  PROVE  Apart'
<1>1. CASE UNCHANGED <<groups, apis, items>>
  BY <1>1 DEF Apart
<1>2. CASE Discover
  <2>1. apis' = {} /\ items' = NoItems /\ DOMAIN NoItems = {}
    BY <1>2 DEF Discover, Phased, NoItems
  <2> QED BY <1>2, <2>1 DEF Discover, Apart
<1>3. CASE NothingDiscovered \/ RunEnds
  <2>1. groups' = {} /\ apis' = {} /\ UNCHANGED items
    BY <1>3 DEF NothingDiscovered, RunEnds, Ends
  <2> QED BY <2>1 DEF Apart
<1>4. CASE TakeItem
  BY <1>4, TakeItemIs DEF TakeItem, Apart
<1>5. ASSUME NEW g \in Groups, NextGroup(g) PROVE Apart'
  <2>1. items' = NoItems /\ DOMAIN NoItems = {}
    BY <1>5 DEF NextGroup, Phased, NoItems
  <2> QED BY <1>5, <2>1 DEF NextGroup, Apart
<1>6. ASSUME NEW a \in Apis, List(a) PROVE Apart'
  <2>1. /\ UNCHANGED groups /\ a \in apis /\ apis' = apis \ {a}
        /\ \/ items' = [o \in Listed(a) |-> source[o]]
           \/ UNCHANGED items
    BY <1>6 DEF List
  <2>2. \A o \in Listed(a) : o.group = a.group /\ o.kind = a.kind
    BY DEF Listed
  <2>3. \A b \in apis' : ~(b.group = a.group /\ b.kind = a.kind)
    BY <2>1, ClusterAssumption DEF Phased, Wanted
  <2> QED BY <2>1, <2>2, <2>3 DEF Apart
<1> QED BY <1>1, <1>2, <1>3, <1>4, <1>5, <1>6 DEF Next, Begin, GroupDone, ListDone, Cancel, Restart,
           SourceChanges, vars, run

\* Taking an item counts an object that is not to come again.
LEMMA TakeItemCounts ==
  ASSUME Typed, Phased, Apart, Counted, TakeItem
  PROVE  Counted'
<1>1. PICK p \in DOMAIN items : p \in Objects /\ items' = [x \in DOMAIN items \ {p} |-> items[x]]
  BY TakeItemIs
<1>2. /\ phase = "items" /\ UNCHANGED <<phase, groups, apis>>
      /\ count' \in {count, count + 1}
  BY DEF TakeItem
<1>3. Ahead' = Ahead \ {p}
  BY <1>1, <1>2 DEF Ahead, Pending, Apart
<1>4. p \in Ahead
  BY <1>1 DEF Ahead, Pending
<1>5. Cardinality(Ahead') = Cardinality(Ahead) - 1
  BY <1>3, <1>4, AheadIs, FS_RemoveElement
<1> QED BY <1>2, <1>5, AheadIs, AheadNext DEF Counted

\* An object is counted once in every step.
LEMMA CountedInductive ==
  ASSUME Typed, Phased, Apart, Counted, [Next]_vars
  PROVE  Counted'
<1>1. CASE Begin
  BY <1>1, AheadIs, AheadNext DEF Begin, Counted
<1>2. CASE Discover
  BY <1>2, NothingCounted DEF Discover, Ahead, Pending
<1>3. CASE NothingDiscovered \/ RunEnds
  BY <1>3 DEF NothingDiscovered, RunEnds, Ends, Counted
<1>4. CASE TakeItem
  BY <1>4, TakeItemCounts
<1>5. ASSUME NEW g \in Groups, NextGroup(g) PROVE Counted'
  <2>1. Ahead' \subseteq Ahead
    BY <1>5 DEF NextGroup, Ahead, Pending
  <2> QED BY <1>5, <2>1, NothingCounted DEF NextGroup, result
<1>6. ASSUME NEW a \in Apis, List(a) PROVE Counted'
  <2>1. /\ phase = "apis" /\ phase' \in {"apis", "items"} /\ UNCHANGED <<groups, count>>
        /\ a \in apis /\ apis' = apis \ {a}
        /\ items' = [o \in Listed(a) |-> source[o]] \/ UNCHANGED items
    BY <1>6 DEF List
  <2>2. \A o \in Listed(a) : a.group = o.group /\ a.kind = o.kind
    BY DEF Listed
  <2>3. Ahead' \subseteq Ahead
    BY <2>1, <2>2 DEF Ahead, Pending
  <2> QED BY <2>1, <2>3, NothingCounted
<1>7. CASE GroupDone \/ ListDone
  BY <1>7, NothingCounted DEF GroupDone, ListDone, result, Ahead, Pending
<1>8. CASE UNCHANGED <<phase, groups, apis, items, count>>
  <2>1. Ahead' = Ahead
    BY <1>8 DEF Ahead, Pending
  <2> QED BY <1>8, <2>1 DEF Counted
<1> QED BY <1>1, <1>2, <1>3, <1>4, <1>5, <1>6, <1>7, <1>8 DEF Next, Cancel, Restart, SourceChanges,
           vars, run, result

\* What is stored is a version of an object.
LEMMA StoredInductive ==
  ASSUME Typed, Phased, Ranges, [Next]_vars
  PROVE  \A k \in Keys : stored'[k] \in [group : Groups, version : Versions] \cup {NoEntry}
<1>1. CASE UNCHANGED stored
  BY <1>1 DEF Ranges
<1>2. CASE TakeItem
  <2>1. PICK p \in DOMAIN items :
           /\ p \in Objects
           /\ \/ stored' = [stored EXCEPT ![Key(p)] = NoEntry]
              \/ stored' = [stored EXCEPT ![Key(p)] = [group |-> p.group, version |-> items[p]]]
              \/ UNCHANGED stored
    BY <1>2, TakeItemIs
  <2>2. [group |-> p.group, version |-> items[p]] \in [group : Groups, version : Versions]
    BY <2>1, ScraperAssumption DEF Typed, Groups
  <2> QED BY <2>1, <2>2 DEF Typed, Ranges
<1> QED BY <1>1, <1>2, OnlyTakeItemStores

\* The namespaces of a scrape are there, or asked for by name.
LEMMA ResolvedType ==
  ASSUME config \in Configs
  PROVE  ResolveNamespaces(config.namespaces, Existing) \subseteq Namespaces
BY DEF ResolveNamespaces, Namespaces

\* Every variable keeps to its values.
LEMMA RangesInductive ==
  ASSUME Typed, Phased, Counted, Ranges, [Next]_vars
  PROVE  Ranges'
<1>1. \A k \in Keys : stored'[k] \in [group : Groups, version : Versions] \cup {NoEntry}
  BY StoredInductive
<1>2. ASSUME Fails PROVE faults' \in 0..MaxFaults
  BY <1>2, ScraperAssumption DEF Fails, Ranges
<1>3. ASSUME Changes PROVE changes' \in 0..MaxChanges
  BY <1>3, ScraperAssumption DEF Changes, Ranges
<1> DEFINE Rest == /\ stats' \in [namespaces : SUBSET Namespaces, count : 0..Cardinality(Objects)]
                   /\ allowed' \subseteq Namespaces
                   /\ errors' \in BOOLEAN /\ cancelled' \in BOOLEAN /\ disturbed' \in BOOLEAN
                   /\ outcome' \in {"none", "ok", "partial", "failed"}
                   /\ faults' \in 0..MaxFaults /\ changes' \in 0..MaxChanges
<1>4. ASSUME NEW how \in {"ok", "partial"}, Ends(how), faults' \in 0..MaxFaults PROVE Rest
  <2>1. count \in 0..Cardinality(Objects)
    BY AheadIs DEF Counted
  <2> QED BY <1>4, <2>1 DEF Ends, Ranges
<1>5. ASSUME Begin PROVE Rest
  BY <1>2, <1>5, ResolvedType DEF Begin, Ranges, Typed
<1>6. ASSUME Discover PROVE Rest
  BY <1>2, <1>6 DEF Discover, Partly, Ranges
<1>7. ASSUME NothingDiscovered \/ RunEnds PROVE Rest
  BY <1>2, <1>4, <1>7 DEF NothingDiscovered, RunEnds, Ranges
<1>8. ASSUME TakeItem PROVE Rest
  BY <1>2, <1>8 DEF TakeItem, SaveFailed, Ranges
<1>9. ASSUME NEW a \in Apis, List(a) PROVE Rest
  BY <1>2, <1>9 DEF List, Ranges
<1>10. ASSUME Cancel PROVE Rest
  BY <1>2, <1>10 DEF Cancel, result, Ranges
<1>11. ASSUME Restart PROVE Rest
  BY <1>3, <1>11 DEF Restart, run, Ranges
<1>12. ASSUME NEW o \in Objects, SourceChanges(o) PROVE Rest
  BY <1>3, <1>12 DEF SourceChanges, result, Ranges
<1>13. ASSUME UNCHANGED <<stats, allowed, errors, cancelled, disturbed, outcome, faults, changes>> PROVE Rest
  BY <1>13 DEF Ranges
<1>14. Rest
  BY <1>5, <1>6, <1>7, <1>8, <1>9, <1>10, <1>11, <1>12, <1>13 DEF Next, GroupDone, ListDone, NextGroup,
     vars, run, result
<1> QED BY <1>1, <1>14 DEF Ranges

\* The type invariant: what a scrape lists is in a namespace it selected, and it
\* counts no object twice, however many versions, failures and changes there are.
THEOREM ScraperTyping == Spec => []TypeOK
<1> DEFINE I == Typed /\ Phased /\ Apart /\ Counted /\ Ranges
<1>1. Init => I
  <2> SUFFICES ASSUME Init PROVE Apart /\ Counted /\ Ranges
    BY ShapeInit
  <2>1. DOMAIN items = {}
    BY DEF Init, NoItems
  <2>2. stats \in [namespaces : SUBSET Namespaces, count : 0..Cardinality(Objects)]
    BY AheadIs DEF Init
  <2>3. Apart /\ Counted
    BY <2>1, AheadIs DEF Init, Apart, Counted
  <2>4. 0 \in 0..MaxFaults /\ 0 \in 0..MaxChanges
    BY ScraperAssumption
  <2>5. Ranges
    BY <2>2, <2>4 DEF Init, Ranges
  <2> QED BY <2>3, <2>5
<1>2. I /\ [Next]_vars => I'
  BY ShapeInductive, ApartInductive, CountedInductive, RangesInductive
<1>3. I => TypeOK
  <2> SUFFICES ASSUME I PROVE TypeOK
    OBVIOUS
  <2>1. stored \in [Keys -> [group : Groups, version : Versions] \cup {NoEntry}]
    BY DEF Typed, Ranges
  <2>2. DOMAIN items \subseteq {o \in Objects : o.namespace \in allowed}
    BY DEF Typed, Phased
  <2>3. items \in [DOMAIN items -> Versions]
    BY DEF Typed
  <2>4. items \in UNION {[S -> Versions] : S \in SUBSET {o \in Objects : o.namespace \in allowed}}
    BY <2>2, <2>3
  <2>5. count \in 0..Cardinality(Objects)
    BY AheadIs DEF Counted
  <2>6. groups \subseteq Groups /\ apis \subseteq Apis
    BY DEF Apart, Phased
  <2> QED BY <2>1, <2>4, <2>5, <2>6 DEF TypeOK, Typed, Ranges
<1> QED BY <1>1, <1>2, <1>3, PTL DEF Spec
=============================================================================
