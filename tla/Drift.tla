-------------------------------- MODULE Drift --------------------------------
(***************************************************************************)
(* When a stored manifest and a live object count as synced: driftBetween, *)
(* compareView and diffPaths of internal/k8s/comparator.go.  Both sides    *)
(* are sanitized, reduced to what is compared, and walked key by key in    *)
(* sorted order; the walk stops when MaxDriftPaths paths are noted, and    *)
(* the status is read off the noted paths.                                 *)
(***************************************************************************)
EXTENDS Sanitizer, SequencesExt

CONSTANTS SortedKeys,     \* the keys, in byte order
          MaxDriftPaths   \* maxDriftPaths

\* A walk may note at least one path.  The order has every key in one place.
ASSUME DriftAssumption ==
  /\ MaxDriftPaths \in Nat \ {0}
  /\ SortedKeys \in Seq(Keys)
  /\ \A k \in Keys : \E n \in DOMAIN SortedKeys : SortedKeys[n] = k
  /\ \A m, n \in DOMAIN SortedKeys : SortedKeys[m] = SortedKeys[n] => m = n

\* Labels and annotations are all that is compared of the metadata.
ComparedMetadata == {"labels", "annotations"}
Compared(p) == /\ p[1] # "status"
               /\ p[1] = "metadata" => Len(p) > 1 /\ p[2] \in ComparedMetadata

\* They stand beside the other fields whether or not there is any metadata.
CompareView(o) ==
  [p \in {<<"metadata">>} \cup {p \in DOMAIN o.doc : Compared(p)} |->
     IF p = <<"metadata">> THEN Map ELSE o.doc[p]]

SameView(stored, live) == CompareView(SanitizeObject(stored)) = CompareView(SanitizeObject(live))

\* sort.Strings.
Sorted(keys) ==
  LET upTo[n \in 0..Len(SortedKeys)] ==
        IF n = 0 THEN <<>>
        ELSE IF SortedKeys[n] \in keys THEN Append(upTo[n - 1], SortedKeys[n])
        ELSE upTo[n - 1]
  IN upTo[Len(SortedKeys)]

\* Mutation: of the keys only those the manifest has are visited.
KeysOfMutant(x, y, path) == {k \in Keys : Append(path, k) \in DOMAIN x}
KeysOf(x, y, path) == {k \in Keys : Append(path, k) \in DOMAIN x \cup DOMAIN y}

Children(x, y, path) ==
  LET keys == Sorted(KeysOf(x, y, path)) IN [i \in DOMAIN keys |-> Append(path, keys[i])]

\* Mutation: the walk stops one path late.
FullMutant(noted) == Len(noted) > MaxDriftPaths
Full(noted) == Len(noted) >= MaxDriftPaths

Below(x, path) == [p \in {p \in DOMAIN x : Begins(path, p)} |-> x[p]]

\* diffPaths at one path, and its loop over the keys of two maps.  The calls and
\* loops that are still to go on are the paths they come to next, in todo.
Visit(x, y, walk) ==
  LET path == Head(walk.todo)
      rest == Tail(walk.todo)
  IN IF walk.todo = <<>> \/ Full(walk.noted) THEN walk
     ELSE IF path \notin DOMAIN x \cap DOMAIN y THEN [todo |-> rest, noted |-> Append(walk.noted, path)]
     ELSE IF Below(x, path) = Below(y, path) THEN [walk EXCEPT !.todo = rest]
     ELSE IF x[path] = Map /\ y[path] = Map THEN [walk EXCEPT !.todo = Children(x, y, path) \o rest]
     ELSE [todo |-> rest, noted |-> Append(walk.noted, path)]

\* The whole walk, from the two views.  It comes to no path twice.
DiffPaths(x, y) ==
  LET last == Cardinality(DOMAIN x \cup DOMAIN y)
      walk[n \in 0..last] ==
        IF n = 0 THEN [todo |-> Children(x, y, <<>>), noted |-> <<>>]
        ELSE Visit(x, y, walk[n - 1])
  IN IF x = y THEN <<>> ELSE walk[last].noted

\* driftBetween: the status, and the paths it is explained with.
DriftBetween(stored, live) ==
  LET paths == DiffPaths(CompareView(SanitizeObject(stored)), CompareView(SanitizeObject(live)))
  IN [status |-> IF paths = <<>> THEN "synced" ELSE "drifted", paths |-> paths]

------------------------------------------------------------------------------
\* Reference: the same without a walk.  Two views differ at a path that leads,
\* through maps on both sides, to a key only one of them has, or to two values
\* that are not equal and not both maps.

Differences(x, y) ==
  LET both == DOMAIN x \cap DOMAIN y
      open(p) == p \in both /\ x[p] = Map /\ y[p] = Map
  IN {p \in DOMAIN x \cup DOMAIN y : /\ Len(p) = 1 \/ open(Front(p))
                                     /\ p \notin both \/ x[p] # y[p]}
=============================================================================
