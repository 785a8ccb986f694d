------------------------------ MODULE Manifests ------------------------------
(***************************************************************************)
(* One resource on its way from the source cluster to the DR cluster: it   *)
(* is scraped (scraper.go), kept and edited (handlers.go), warned about,   *)
(* deployed (deployer.go) and compared (comparator.go), and each of these  *)
(* applies the sanitizer or the warning detection to its own input.  The   *)
(* store is reduced to what a fault-free ManifestStore keeps of one        *)
(* resource; all documents sent for it have its kind and name.             *)
(***************************************************************************)
EXTENDS Drift, Warnings

CONSTANTS Objects,      \* objects a cluster may hold, as its API returns them
          Edits,        \* the objects an operator may send
          ServerSets,   \* kind -> document of what an API server sets in an object
          Defaults,     \* kind -> document of what it fills in where it is left out
          NoObject

\* y is laid over x: what y has stays, and of x what is not under a scalar of y.
Merge(x, y) ==
  [p \in DOMAIN y \cup {p \in DOMAIN x : \A q \in DOMAIN y : Begins(q, p) => y[q] = Map} |->
     IF p \in DOMAIN y THEN y[p] ELSE x[p]]

HasDefaults(o) == Merge(Defaults[o.kind], o.doc) = o.doc

IsObject(o) == o = [kind |-> o.kind, doc |-> o.doc] /\ IsDocument(o.doc)

\* What an API returns has its defaults, and its annotations are strings.
ASSUME ManifestsAssumption ==
  /\ NoObject \notin Objects \cup Edits
  /\ \A o \in Objects \cup Edits :
       IsObject(o) /\ IsDocument(ServerSets[o.kind]) /\ IsDocument(Defaults[o.kind])
  /\ \A o \in Objects : /\ HasDefaults(o)
                        /\ \A k \in AnnotationsOf(o) : o.doc[<<"metadata", "annotations", k>>] # Map

VARIABLES source,     \* the object in the source cluster
          scraped,    \* the scraped manifest, or NoObject
          copy,       \* the local copy, or NoObject
          warnings, checked,  \* of the index entry
          live,       \* the object in the DR cluster, or NoObject
          ours        \* history: the manifest DrKate last applied to a live object
                      \* that nobody else has written, or NoObject

vars == <<source, scraped, copy, warnings, checked, live, ours>>

View == IF copy # NoObject THEN copy ELSE scraped

TypeOK == /\ source \in Objects
          /\ \A o \in {scraped, copy, live, ours} \ {NoObject} : IsObject(o) /\ o.kind = source.kind
          /\ copy # NoObject => scraped # NoObject /\ copy # scraped
          /\ checked \in BOOLEAN
          /\ ~checked => warnings = {}

Init == /\ source \in Objects
        /\ scraped = NoObject /\ copy = NoObject
        /\ warnings = {} /\ checked = FALSE
        /\ live \in {NoObject} \cup {o \in Objects : o.kind = source.kind}
        /\ ours = NoObject

------------------------------------------------------------------------------
\* scrapeGVR for this object: what is stored is sanitized, what is warned of is
\* found in the object as the cluster returned it.

\* Mutation: the warnings of the scraped object are recorded for an edited one.
WarningsAfterScrapeMutant(o, edited) == DetectWarnings(o)
WarningsAfterScrape(o, edited) == IF edited THEN {} ELSE DetectWarnings(o)

Scrape ==
  LET cleaned == SanitizeObject(source)
      kept == IF copy = cleaned THEN NoObject ELSE copy
  IN /\ scraped' = cleaned
     /\ copy' = kept
     /\ warnings' = WarningsAfterScrape(source, kept # NoObject)
     /\ checked' = (kept = NoObject)
     /\ UNCHANGED <<source, live, ours>>

------------------------------------------------------------------------------
\* The handlers.

\* Mutation: an edit keeps the warnings of what it replaces.
UpdateResourceMutant(o) ==
  /\ scraped # NoObject
  /\ LET cleaned == SanitizeObject(o)
     IN copy' = IF cleaned = scraped THEN NoObject ELSE cleaned
  /\ UNCHANGED <<source, scraped, warnings, checked, live, ours>>
UpdateResource(o) ==
  /\ scraped # NoObject
  /\ LET cleaned == SanitizeObject(o)
     IN /\ copy' = IF cleaned = scraped THEN NoObject ELSE cleaned
        /\ warnings' = DetectWarnings(cleaned)
  /\ checked' = TRUE
  /\ UNCHANGED <<source, scraped, live, ours>>

DiscardEdit ==
  /\ scraped # NoObject
  /\ copy' = NoObject
  /\ warnings' = {} /\ checked' = FALSE
  /\ UNCHANGED <<source, scraped, live, ours>>

\* EnsureWarnings, or a comparison: the stored document is looked at.
EnsureWarnings ==
  /\ scraped # NoObject /\ ~checked
  /\ warnings' = DetectWarnings(View)
  /\ checked' = TRUE
  /\ UNCHANGED <<source, scraped, copy, live, ours>>

------------------------------------------------------------------------------
\* deployOne, and what an API server makes of an applied document: fields are
\* filled in and added; an object others have written keeps their fields.

Served(o) == [o EXCEPT !.doc = Merge(Merge(Defaults[o.kind], o.doc), ServerSets[o.kind])]

Deploy ==
  /\ scraped # NoObject
  /\ LET cleaned == SanitizeObject(View)
     IN IF live = NoObject \/ ours # NoObject
          THEN live' = Served(cleaned) /\ ours' = View
          ELSE live' = [live EXCEPT !.doc = Merge(live.doc, cleaned.doc)] /\ ours' = NoObject
  /\ UNCHANGED <<source, scraped, copy, warnings, checked>>

\* What others do in the two clusters.
SourceChanges == /\ \E o \in Objects : o.kind = source.kind /\ source' = o
                 /\ UNCHANGED <<scraped, copy, warnings, checked, live, ours>>

DRChanges == /\ \E o \in Objects \cup {NoObject} :
                  (o # NoObject => o.kind = source.kind) /\ live' = o
             /\ ours' = NoObject
             /\ UNCHANGED <<source, scraped, copy, warnings, checked>>

Next == \/ Scrape
        \/ \E o \in Edits : o.kind = source.kind /\ UpdateResource(o)
        \/ DiscardEdit \/ EnsureWarnings \/ Deploy
        \/ SourceChanges \/ DRChanges

Spec == Init /\ [][Next]_vars

------------------------------------------------------------------------------
\* Properties.

\* Sanitizing drops the noise and nothing else, whatever the order in which
\* fields, kind-specific fields and emptied maps are removed.
SanitizingKeepsMeaning ==
  \A o \in {source, live} \ {NoObject} : Leaves(SanitizeObject(o).doc) = Meaning(o)

\* What is stored needs no more sanitizing: a deploy applies exactly the document
\* the editor shows, and an edit sent back unchanged is recognised as no edit.
StoredIsClean == \A o \in {scraped, copy} \ {NoObject} : SanitizeObject(o) = o

ComparedMeaning(o) == {l \in Meaning(o) : Compared(l[1])}

Comparable == scraped # NoObject /\ live # NoObject

\* A resource is synced if and only if the two clusters would be told the same,
\* however many differences the walk stops at and whatever noise there is.
SyncedMeansSame ==
  Comparable => (DriftBetween(View, live).status = "synced"
                   <=> ComparedMeaning(View) = ComparedMeaning(live))

\* The paths shown for a drifted resource are differences, none is shown twice,
\* and none is left out unless there are more than maxDriftPaths.
DriftPathsAreExact ==
  Comparable =>
    LET paths == DriftBetween(View, live).paths
        all == Differences(CompareView(SanitizeObject(View)), CompareView(SanitizeObject(live)))
    IN /\ ToSet(paths) \subseteq all
       /\ Cardinality(ToSet(paths)) = Len(paths)
       /\ Len(paths) = IF Cardinality(all) < MaxDriftPaths THEN Cardinality(all) ELSE MaxDriftPaths

\* What DrKate has deployed, and nobody else has touched, compares as the same: what
\* the API server sets is never mistaken for drift, nor what it fills in, which a
\* scraped manifest has already; only a local copy may have left that out.
DeployedIsSynced ==
  (scraped # NoObject /\ ours = View /\ (copy = NoObject \/ HasDefaults(copy)))
     => SameView(View, live)

IsClassWarning(w) == w.code = "ingress" /\ w.subject = "Ingress"

\* The recorded warnings are those of the document a deploy would apply, except
\* the notice that an ingress class was stripped, which only a scrape can give:
\* nothing the sanitizer removes takes another warning with it.
WarningsDescribeView ==
  (scraped # NoObject /\ checked) => {w \in warnings : ~IsClassWarning(w)} = DetectWarnings(View)
=============================================================================
