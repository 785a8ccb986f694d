---------------------------- MODULE ComparisonProofs ----------------------------
(***************************************************************************)
(* Proofs about Comparison for every set of resources and contents, any    *)
(* number of editors, and every combination and number of faults.          *)
(***************************************************************************)
EXTENDS Comparison, OverlayRefinement

------------------------------------------------------------------------------
\* What the comparison and the handlers hold.

\* A batch to write back, or nothing, gives every resource of its domain a value.
LEMMA PartialMapIs ==
  ASSUME NEW V, NEW f \in PartialMaps(V)
  PROVE  /\ DOMAIN f \subseteq Resources
         /\ \A r \in DOMAIN f : f[r] \in V
<1>1. CASE f = Nothing
  BY <1>1 DEF Nothing
<1>2. CASE f \in Batches(V)
  <2>1. PICK S \in (SUBSET Resources) \ {{}} : f \in [S -> V]
    BY <1>2 DEF Batches
  <2> QED BY <2>1
<1> QED BY <1>1, <1>2 DEF PartialMaps

\* One more entry makes a batch.
LEMMA PartialMapExtended ==
  ASSUME NEW V, NEW f \in PartialMaps(V), NEW r \in Resources, NEW v \in V
  PROVE  With(f, r, v) \in Batches(V)
<1> DEFINE S == DOMAIN f \cup {r}
<1>1. S \in (SUBSET Resources) \ {{}}
  BY PartialMapIs
<1>2. With(f, r, v) \in [S -> V]
  BY PartialMapIs DEF With
<1> QED BY <1>1, <1>2 DEF Batches

\* The locals and the handlers.
LocalsTyped ==
  /\ phase \in {"idle", "listed", "looking", "warned", "done"}
  /\ listed \in [Resources -> Contents \cup {Absent}]
  /\ pending \subseteq Resources /\ unchecked \subseteq Resources
  /\ verdict \in PartialMaps(Verdicts) /\ findings \in PartialMaps(Warnings)
  /\ editing \in [Editors -> Batches(Warnings) \cup {NoBatch}]
  /\ viewing \in Batches(Warnings) \cup {NoBatch}

\* What is abandoned is well typed.
LEMMA GoneTyped ==
  /\ LocalsGone => /\ listed' \in [Resources -> Contents \cup {Absent}]
                   /\ pending' = {} /\ unchecked' = {}
                   /\ verdict' \in PartialMaps(Verdicts) /\ findings' \in PartialMaps(Warnings)
  /\ Abandoned => LocalsTyped'
BY DEF LocalsGone, Abandoned, LocalsTyped, NoLive, NoEdits, PartialMaps

\* What goes on or ends with the process keeps its types.
LEMMA ContinuesTyped == ASSUME LocalsTyped, Continues PROVE LocalsTyped'
BY GoneTyped DEF Continues, LocalsTyped, comparison, handlers

\* Content that can be read is one, and its warnings are warnings.
LEMMA ViewIs ==
  ASSUME TypeOK, NEW r \in Resources, Gettable(r)
  PROVE  View(r) \in Contents /\ WarningsOf[View(r)] \in Warnings
<1>1. View(r) \in Contents
  BY EditFileType DEF View, Gettable, Readable, HasOverlay, TypeOK, ManifestFile, Files
<1> QED BY <1>1 DEF Warnings

\* The start.
LEMMA ComparisonTypeInit == ComparisonInit => TypeOKComparison
<1> SUFFICES ASSUME ComparisonInit PROVE TypeOKComparison
  OBVIOUS
<1>1. TypeOK
  BY TypeInit DEF ComparisonInit
<1>2. edits \in 0..MaxEdits /\ drChanges \in 0..MaxDRChanges
  BY ComparisonBounds DEF ComparisonInit
<1> QED BY <1>1, <1>2 DEF ComparisonInit, TypeOKComparison, NoLive, NoEdits, PartialMaps

\* Writing nothing back changes nothing in the store.
LEMMA NothingApplied ==
  ASSUME TypeOK, ApplyStatuses(Nothing) \/ ApplyWarnings(Nothing)
  PROVE  UNCHANGED vars
<1>1. DOMAIN Nothing = {}
  BY DEF Nothing
<1>2. index = [r \in Resources |-> index[r]]
  BY DEF TypeOK, Index
<1> QED BY <1>1, <1>2 DEF ApplyStatuses, ApplyWarnings, SaveIfChanged, vars

\* What a comparison or a handler writes back is a batch, or nothing.
LEMMA WrittenBack ==
  ASSUME TypeOK
  PROVE  /\ \A f \in PartialMaps(Verdicts) : ApplyStatuses(f) => [Next]_vars
         /\ \A f \in PartialMaps(Warnings) : ApplyWarnings(f) => [Next]_vars
BY NothingApplied DEF PartialMaps, Next

\* Every step of the composition is a step of the store, or leaves it alone.
LEMMA StoreStep ==
  ASSUME TypeOKComparison, [ComparisonNext]_allVars
  PROVE  [Next]_vars
<1> TypeOK
  BY DEF TypeOKComparison
<1>1. CASE UNCHANGED store
  BY <1>1 DEF store, vars
<1>2. CASE CompareWarn \/ ComparePersist
  BY <1>2, WrittenBack DEF CompareWarn, ComparePersist, TypeOKComparison
<1>3. ASSUME NEW e \in Editors, UpdateWarnings(e) PROVE [Next]_vars
  BY <1>3, WrittenBack DEF UpdateWarnings, TypeOKComparison, PartialMaps
<1>4. CASE EnsureApplies
  BY <1>4, WrittenBack DEF EnsureApplies, TypeOKComparison, PartialMaps
<1>5. ASSUME NEW e \in Editors, NEW r \in Resources, NEW c \in Contents, UpdateResource(e, r, c)
      PROVE  [Next]_vars
  BY <1>5 DEF UpdateResource, Next
<1>6. ASSUME NEW r \in Resources, DiscardEdit(r) \/ ScrapeSave(r) \/ ScrapeDelete(r) PROVE [Next]_vars
  BY <1>6 DEF DiscardEdit, ScrapeSave, ScrapeDelete, Next
<1>7. CASE ScrapeEnds \/ Start \/ Die
  BY <1>7 DEF ScrapeEnds, Start, Die, Next
<1> QED BY <1>1, <1>2, <1>3, <1>4, <1>5, <1>6, <1>7
        DEF ComparisonNext, Compares, CompareList, CompareEntries, CompareResource, EnsureDetects,
            DRChange, allVars

\* So it keeps the store's types.
LEMMA StoreTyped ==
  ASSUME TypeOKComparison, [ComparisonNext]_allVars
  PROVE  TypeOK'
BY StoreStep, TypeInductive DEF TypeOKComparison

\* A verdict is one of the three.
LEMMA VerdictIs == ASSUME NEW r PROVE VerdictOf(r) \in Verdicts
BY VerdictsAssumption DEF VerdictOf

\* Every step keeps the types of what the comparison and the handlers hold.
LEMMA LocalsInductive ==
  ASSUME TypeOKComparison, [ComparisonNext]_allVars
  PROVE  LocalsTyped'
<1> TypeOK /\ LocalsTyped
  BY DEF TypeOKComparison, LocalsTyped
<1>1. CASE UNCHANGED <<comparison, handlers>>
  BY <1>1 DEF LocalsTyped, comparison, handlers
<1>2. CASE CompareList
  BY <1>2 DEF CompareList, LoadLive, LocalsTyped, handlers, NoLive, TypeOKComparison
<1>3. CASE CompareEntries
  BY <1>3 DEF CompareEntries, LocalsTyped, handlers
<1>4. ASSUME NEW r \in Resources, CompareResource(r) PROVE LocalsTyped'
  <2>1. verdict' \in PartialMaps(Verdicts)
    BY <1>4, VerdictIs, PartialMapExtended DEF CompareResource, LocalsTyped, PartialMaps
  <2>2. findings' \in PartialMaps(Warnings)
    <3>1. CASE ToCheck(r)
      BY <1>4, <3>1, ViewIs, PartialMapExtended DEF CompareResource, LocalsTyped, PartialMaps, ToCheck
    <3>2. CASE ~ToCheck(r)
      BY <1>4, <3>2 DEF CompareResource, LocalsTyped
    <3> QED BY <3>1, <3>2
  <2> QED BY <1>4, <2>1, <2>2 DEF CompareResource, LocalsTyped, handlers
<1>5. CASE CompareWarn
  BY <1>5, GoneTyped DEF CompareWarn, LocalsTyped, handlers
<1>6. CASE ComparePersist
  BY <1>6, GoneTyped DEF ComparePersist, LocalsTyped, handlers
<1>7. ASSUME NEW e \in Editors, NEW r \in Resources, NEW c \in Contents, UpdateResource(e, r, c)
      PROVE  LocalsTyped'
  <2>1. With(Nothing, r, WarningsOf[c]) \in Batches(Warnings)
    BY PartialMapExtended DEF PartialMaps, Warnings
  <2>2. CASE /\ editing' = [editing EXCEPT ![e] = With(Nothing, r, WarningsOf[c])]
             /\ UNCHANGED <<comparison, viewing>>
    BY <2>1, <2>2 DEF LocalsTyped, comparison
  <2> QED BY <1>7, <2>2, ContinuesTyped DEF UpdateResource, EditFinished
<1>8. ASSUME NEW e \in Editors, UpdateWarnings(e) PROVE LocalsTyped'
  BY <1>8, GoneTyped DEF UpdateWarnings, LocalsTyped, comparison
<1>9. CASE EnsureDetects
  <2>1. PICK fresh : /\ fresh # {} /\ fresh \subseteq {r \in Resources : Gettable(r)}
                     /\ viewing' = [r \in fresh |-> WarningsOf[View(r)]]
    BY <1>9 DEF EnsureDetects
  <2>2. fresh \in (SUBSET Resources) \ {{}} /\ viewing' \in [fresh -> Warnings]
    BY <2>1, ViewIs
  <2>3. viewing' \in Batches(Warnings)
    BY <2>2 DEF Batches
  <2> QED BY <1>9, <2>3 DEF EnsureDetects, LocalsTyped, comparison
<1>10. CASE EnsureApplies
  BY <1>10, GoneTyped DEF EnsureApplies, LocalsTyped, comparison
<1>11. CASE Continues
  BY <1>11, ContinuesTyped
<1>12. CASE Die
  BY <1>12, GoneTyped DEF Die
<1> QED BY <1>1, <1>2, <1>3, <1>4, <1>5, <1>6, <1>7, <1>8, <1>9, <1>10, <1>11, <1>12
        DEF ComparisonNext, Compares, DiscardEdit, ScrapeSave, ScrapeDelete, ScrapeEnds, Start,
            DRChange, allVars

\* Every step keeps the types of the rest.
LEMMA ClusterInductive ==
  ASSUME TypeOKComparison, [ComparisonNext]_allVars
  PROVE  /\ live' \in [Resources -> Contents \cup {Absent}]
         /\ drChanges' \in 0..MaxDRChanges /\ edits' \in 0..MaxEdits /\ disturbed' \in BOOLEAN
<1>1. disturbed' \in BOOLEAN
  BY Zenon DEF TypeOKComparison, ComparisonNext, Compares, CompareList, LoadLive, CompareEntries,
               CompareResource, CompareWarn, ComparePersist, UpdateResource, UpdateWarnings, DiscardEdit,
               EnsureDetects, EnsureApplies, ScrapeSave, ScrapeDelete, ScrapeEnds, Start, Die, DRChange,
               Noted, allVars
<1>2. live' \in [Resources -> Contents \cup {Absent}] /\ drChanges' \in 0..MaxDRChanges
  <2>1. ASSUME NEW r \in Resources, DRChange(r)
        PROVE  live' \in [Resources -> Contents \cup {Absent}] /\ drChanges' \in 0..MaxDRChanges
    BY <2>1, ComparisonBounds DEF DRChange, TypeOKComparison
  <2>2. CASE UNCHANGED cluster
    BY <2>2 DEF cluster, TypeOKComparison
  <2> QED BY <2>1, <2>2 DEF ComparisonNext, Compares, CompareList, CompareEntries, CompareResource,
             CompareWarn, ComparePersist, UpdateResource, UpdateWarnings, DiscardEdit, EnsureDetects,
             EnsureApplies, ScrapeSave, ScrapeDelete, ScrapeEnds, Start, Die, allVars
<1>3. edits' \in 0..MaxEdits
  <2>1. CASE edits < MaxEdits /\ edits' = edits + 1
    BY <2>1, ComparisonBounds DEF TypeOKComparison
  <2>2. CASE UNCHANGED edits
    BY <2>2 DEF TypeOKComparison
  <2> QED BY <2>1, <2>2 DEF ComparisonNext, Compares, CompareList, CompareEntries, CompareResource,
             CompareWarn, ComparePersist, UpdateResource, UpdateWarnings, DiscardEdit, EnsureDetects,
             EnsureApplies, ScrapeSave, ScrapeDelete, ScrapeEnds, Start, Die, DRChange, allVars
<1> QED BY <1>1, <1>2, <1>3

\* Types, of the store and of what works on it, under every fault.
THEOREM ComparisonTyping == ComparisonSpec => []TypeOKComparison
<1>1. TypeOKComparison /\ [ComparisonNext]_allVars => TypeOKComparison'
  BY StoreTyped, LocalsInductive, ClusterInductive DEF LocalsTyped, TypeOKComparison
<1> QED BY <1>1, ComparisonTypeInit, PTL DEF ComparisonSpec

------------------------------------------------------------------------------
\* The store inside the composition.

\* Comparisons, handlers and scrapes that take the store's lock in any order use it
\* only as its methods allow: all that is proved of the store alone holds beside them.
THEOREM StoreInComparison == ComparisonSpec => Spec
<1>1. ComparisonInit => Init
  BY DEF ComparisonInit
<1>2. TypeOKComparison /\ [ComparisonNext]_allVars => [Next]_vars
  BY StoreStep
<1> QED BY <1>1, <1>2, ComparisonTyping, PTL DEF ComparisonSpec, Spec

\* In particular, through crashes and cut files, beside any comparison, request and
\* change of the DR cluster: manifests are listed, verdicts survive, few entries are
\* behind, flags tell of local copies, and those belong to the operators.
THEOREM StoreStaysSafe ==
  ASSUME NoAlias, "error" \notin Faults
  PROVE  ComparisonSpec => /\ []EveryManifestListed
                           /\ []VerdictsAreDurable
                           /\ []LagIsBounded
                           /\ []EditedFlagTracksOverlay
                           /\ OverlaysBelongToOperators
BY StoreInComparison, ManifestsListed, DurableVerdicts, BoundedLag, EditedFlags, OverlaysOfOperators

\* And, as long as no write is torn, the store a comparison works on implements the
\* abstract one, whose copies only operators make.
THEOREM OverlaysInComparison ==
  ASSUME NoAlias, "torn" \notin Faults
  PROVE  ComparisonSpec => ImplementsOverlayStore
BY StoreInComparison, OverlayRefinementHolds

------------------------------------------------------------------------------
\* An undisturbed comparison is true.

\* In the store, statuses stay as they are, and an entry that is new says its API.
StatusesStay ==
  up' => \A r \in Resources : Listed(r)' =>
           \/ Listed(r) /\ index'[r].status = index[r].status
           \/ ~Listed(r) /\ index'[r].typed

\* What is saved is in memory, if the process lives.
LEMMA SavedIs ==
  /\ \A m, n : SaveIndexLocked(m, n) => index' = m \/ ~up'
  /\ \A m : SaveIfChanged(m) => index' = m \/ ~up'
BY DEF SaveIndexLocked, SaveIfChanged, Crash

\* Index and status after a change of one entry.
LEMMA OneEntryChanged ==
  ASSUME TypeOK, NEW r \in Resources, NEW m,
         m \in Meta /\ Listed(r) => m.status = index[r].status,
         ~Listed(r) /\ m # NoMeta => m.typed,
         m \in Meta \cup {NoMeta},
         index' = [index EXCEPT ![r] = m]
  PROVE  StatusesStay
BY DEF StatusesStay, TypeOK, Index, Listed

\* A scraped entry keeps the status of the old one, and says its API.
LEMMA SaveStays == ASSUME TypeOK, NEW r \in Resources, NEW c \in Contents, Save(r, c) PROVE StatusesStay
<1>1. CASE UNCHANGED index \/ ~up'
  BY <1>1 DEF StatusesStay, Listed
<1>2. CASE Upserted(r, c)
  <2>1. index' = [index EXCEPT ![r] = ScrapedMeta(r, c)] \/ ~up'
    BY <1>2, SavedIs DEF Upserted
  <2>2. ScrapedMeta(r, c) \in Meta /\ ScrapedMeta(r, c).typed
    BY ScrapedMetaType DEF ScrapedMeta
  <2>3. Listed(r) => ScrapedMeta(r, c).status = index[r].status
    BY DEF ScrapedMeta, KeptStatus, StatusIn, Listed
  <2> QED BY <1>1, <2>1, <2>2, <2>3, OneEntryChanged
<1> QED BY <1>1, <1>2 DEF Save, WriteCut, Crash, Fails

\* The flag of a local copy is written beside the status.
LEMMA SaveEditStays == ASSUME TypeOK, NEW r \in Resources, NEW c, SaveEdit(r, c) PROVE StatusesStay
<1>1. CASE UNCHANGED index \/ ~up'
  BY <1>1 DEF StatusesStay, Listed
<1>2. ASSUME NEW e \in BOOLEAN, index' = [index EXCEPT ![r].edited = e] PROVE StatusesStay
  <2> DEFINE m == [index[r] EXCEPT !.edited = e]
  <2>1. Listed(r) /\ index[r] \in Meta
    BY DEF SaveEdit, Listed, TypeOK, Index
  <2>2. m \in Meta /\ m.status = index[r].status
    BY <2>1 DEF Meta
  <2>3. index' = [index EXCEPT ![r] = m]
    BY <1>2 DEF TypeOK, Index
  <2> QED BY <2>1, <2>2, <2>3, OneEntryChanged
<1> QED BY <1>1, <1>2, SavedIs DEF SaveEdit, RemoveFails, Fails, WriteCut, DiesBeforeIndex, Crash

\* So is what a discarded one leaves.
LEMMA ClearEditStays == ASSUME TypeOK, NEW r \in Resources, ClearEdit(r) PROVE StatusesStay
<1>1. CASE UNCHANGED index \/ ~up'
  BY <1>1 DEF StatusesStay, Listed
<1>2. CASE /\ Listed(r)
           /\ index' = [index EXCEPT ![r].edited = FALSE, ![r].checked = FALSE, ![r].warnings = NoWarnings]
  <2> DEFINE m == [index[r] EXCEPT !.edited = FALSE, !.checked = FALSE, !.warnings = NoWarnings]
  <2>1. m \in Meta /\ m.status = index[r].status
    BY <1>2 DEF Meta, Warnings, Listed, TypeOK, Index
  <2>2. index' = [index EXCEPT ![r] = m]
    BY <1>2 DEF TypeOK, Index
  <2> QED BY <1>2, <2>1, <2>2, OneEntryChanged
<1> QED BY <1>1, <1>2, SavedIs DEF ClearEdit, RemoveFails, Fails, DiesBeforeIndex, Crash

\* A deleted entry has no status.
LEMMA DeleteStays == ASSUME TypeOK, NEW r \in Resources, Delete(r) PROVE StatusesStay
<1>1. CASE UNCHANGED index \/ ~up'
  BY <1>1 DEF StatusesStay, Listed
<1>2. CASE index' = [index EXCEPT ![r] = NoMeta]
  BY <1>2, SentinelAssumption, OneEntryChanged
<1> QED BY <1>1, <1>2, SavedIs DEF Delete, RemoveFails, Fails, DiesBeforeIndex, Crash

\* Warnings are written beside the status.
LEMMA ApplyWarningsStays == ASSUME TypeOK, NEW u, ApplyWarnings(u) PROVE StatusesStay
<1> DEFINE m == [r \in Resources |->
       IF r \in DOMAIN u /\ Listed(r)
         THEN [index[r] EXCEPT !.warnings = u[r], !.checked = TRUE]
         ELSE index[r]]
<1>1. index' = m \/ ~up'
  BY SavedIs DEF ApplyWarnings
<1>2. \A r \in Resources : m[r] # NoMeta => Listed(r)
  BY DEF Listed
<1>3. \A r \in Resources : Listed(r) => m[r].status = index[r].status
  BY DEF Listed, TypeOK, Index, Meta
<1> QED BY <1>1, <1>2, <1>3 DEF StatusesStay, Listed

\* A comparison that is on its way has listed what is there, and what it has found is
\* true; one that is done has written it.  Nothing is on its way in a dead process.
OnTrack ==
  /\ phase # "idle" => up
  /\ phase # "idle" /\ ~disturbed /\ Typed =>
       /\ phase # "done" => listed = live
       /\ phase = "looking" => \A r \in Resources : Listed(r) =>
            r \in pending \/ (r \in DOMAIN verdict /\ verdict[r] = TrueStatus(r))
       /\ phase = "warned" => \A r \in Resources : Listed(r) =>
            (r \in DOMAIN verdict /\ verdict[r] = TrueStatus(r))
       /\ phase = "done" => \A r \in Resources : Listed(r) => index[r].status = TrueStatus(r)

\* When the inputs stay, so does what the statuses should be.
LEMMA InputsAre ==
  ASSUME UNCHANGED Inputs
  PROVE  /\ UNCHANGED <<file, live>> /\ (Typed' <=> Typed)
         /\ \A r \in Resources : /\ TrueStatus(r)' = TrueStatus(r)
                                 /\ (Listed(r) /\ index[r].typed)' <=> (Listed(r) /\ index[r].typed)
<1>1. UNCHANGED <<file, live>>
  BY Zenon DEF Inputs
<1>2. \A r \in Resources : (Listed(r) /\ index[r].typed)' = (Listed(r) /\ index[r].typed)
  BY Zenon DEF Inputs
<1>3. Typed' <=> Typed
  BY <1>2, Zenon DEF Typed
<1>4. \A r \in Resources : TrueStatus(r)' = TrueStatus(r)
  BY <1>1 DEF TrueStatus, Gettable, Readable, ManifestFile, EditFile, Shown
<1> QED BY <1>1, <1>2, <1>3, <1>4

\* A step beside the comparison, which disturbs it or leaves the statuses.
LEMMA BesideOnTrack ==
  ASSUME OnTrack, Noted, StatusesStay, (up' /\ UNCHANGED <<phase, listed, pending, verdict>>) \/ phase' = "idle"
  PROVE  OnTrack'
<1> SUFFICES ASSUME phase' # "idle", ~disturbed', Typed' PROVE OnTrack'
  BY DEF OnTrack
<1>1. phase # "idle" /\ ~disturbed /\ UNCHANGED Inputs
  BY DEF Noted
<1>2. Typed
  BY <1>1, InputsAre
<1>3. \A r \in Resources : Listed(r)' => Listed(r) /\ index'[r].status = index[r].status
  BY <1>1, InputsAre DEF StatusesStay
<1> QED BY <1>1, <1>2, <1>3, InputsAre DEF OnTrack

\* What goes on beside the comparison, or ends with the process.
LEMMA ContinuesOnTrack ==
  ASSUME OnTrack, Noted, StatusesStay, Continues
  PROVE  OnTrack'
BY BesideOnTrack DEF Continues, Abandoned, comparison

\* A look at one resource finds its true status.
LEMMA LookOnTrack ==
  ASSUME OnTrack, NEW q \in Resources, CompareResource(q)
  PROVE  OnTrack'
<1>1. UNCHANGED <<up, index, file, live, phase, listed, disturbed>> /\ phase = "looking" /\ q \in pending
  BY DEF CompareResource, store, cluster
<1>2. UNCHANGED Inputs
  BY <1>1 DEF Inputs, Listed
<1>3. DOMAIN verdict' = DOMAIN verdict \cup {q} /\ verdict'[q] = VerdictOf(q)
  BY DEF CompareResource, With
<1>4. \A r \in DOMAIN verdict \ {q} : verdict'[r] = verdict[r]
  BY DEF CompareResource, With
<1>5. pending' = pending \ {q}
  BY DEF CompareResource
<1> SUFFICES ASSUME ~disturbed, Typed, NEW r \in Resources, Listed(r)
             PROVE  r \in pending' \/ (r \in DOMAIN verdict' /\ verdict'[r] = TrueStatus(r)')
  BY <1>1, <1>2, InputsAre DEF OnTrack, Listed
<1>6. listed = live /\ (r \in pending \/ (r \in DOMAIN verdict /\ verdict[r] = TrueStatus(r)))
  BY <1>1 DEF OnTrack
<1>7. listed = live => VerdictOf(q) = TrueStatus(q)
  BY DEF VerdictOf, TrueStatus, View, Shown, HasOverlay
<1>8. CASE r = q
  BY <1>2, <1>3, <1>6, <1>7, <1>8, InputsAre
<1>9. CASE r # q
  <2>1. r \in DOMAIN verdict => r \in DOMAIN verdict' /\ verdict'[r] = verdict[r]
    BY <1>3, <1>4, <1>9
  <2>2. r \in pending => r \in pending'
    BY <1>5, <1>9
  <2> QED BY <1>2, <1>6, <2>1, <2>2, InputsAre
<1> QED BY <1>8, <1>9

\* Writing back the warnings leaves the statuses, and nothing is ahead.
LEMMA WarnOnTrack ==
  ASSUME TypeOK, OnTrack, CompareWarn
  PROVE  OnTrack'
<1> SUFFICES ASSUME phase' # "idle", ~disturbed', Typed' PROVE OnTrack'
  <2>1. phase' # "idle" => up'
    BY DEF CompareWarn, Abandoned
  <2> QED BY <2>1 DEF OnTrack
<1>1. up' /\ phase = "looking" /\ phase' = "warned" /\ pending = {} /\ UNCHANGED <<listed, verdict>>
  BY DEF CompareWarn, Abandoned
<1>2. ~disturbed /\ UNCHANGED Inputs
  BY DEF CompareWarn, Noted
<1>3. \A r \in Resources : Listed(r)' => Listed(r)
  BY <1>1, <1>2, ApplyWarningsStays, InputsAre DEF CompareWarn, StatusesStay
<1> QED BY <1>1, <1>2, <1>3, InputsAre DEF OnTrack

\* The statuses written are those found.
LEMMA PersistOnTrack ==
  ASSUME TypeOKComparison, OnTrack, ComparePersist
  PROVE  OnTrack'
<1> DEFINE m == [r \in Resources |->
       IF r \in DOMAIN verdict /\ Listed(r) THEN [index[r] EXCEPT !.status = verdict[r]] ELSE index[r]]
<1> SUFFICES ASSUME phase' # "idle", ~disturbed', Typed' PROVE OnTrack'
  <2>1. phase' # "idle" => up'
    BY DEF ComparePersist, Abandoned
  <2> QED BY <2>1 DEF OnTrack
<1>1. up' /\ phase = "warned" /\ phase' = "done" /\ index' = m
  BY SavedIs DEF ComparePersist, Abandoned, ApplyStatuses
<1>2. ~disturbed /\ UNCHANGED Inputs
  BY <1>1 DEF ComparePersist, Noted
<1>3. ASSUME NEW r \in Resources, Listed(r)' PROVE index'[r].status = TrueStatus(r)'
  <2>1. Listed(r)
    BY <1>1, <1>3 DEF Listed
  <2>2. (r \in DOMAIN verdict /\ verdict[r] = TrueStatus(r))
    BY <1>1, <1>2, <2>1, InputsAre DEF OnTrack
  <2>3. index[r] \in Meta
    BY <2>1 DEF TypeOKComparison, TypeOK, Index, Listed
  <2>4. index'[r].status = verdict[r]
    BY <1>1, <2>1, <2>2, <2>3 DEF Meta
  <2> QED BY <1>2, <2>2, <2>4, InputsAre
<1> QED BY <1>1, <1>3 DEF OnTrack

\* Every step stays on track.
LEMMA TrackInductive ==
  ASSUME TypeOKComparison, OnTrack, [ComparisonNext]_allVars
  PROVE  OnTrack'
<1> TypeOK
  BY DEF TypeOKComparison
<1>1. CASE CompareList
  <2>1. up' /\ phase' = "listed" /\ UNCHANGED Inputs
    BY <1>1 DEF CompareList, store, cluster, Inputs, Listed
  <2>2. ~disturbed' /\ Typed => listed' = live
    BY <1>1 DEF CompareList, LoadLive
  <2> QED BY <2>1, <2>2, InputsAre DEF OnTrack
<1>2. CASE CompareEntries
  <2>1. up' /\ phase = "listed" /\ phase' = "looking" /\ UNCHANGED <<listed, disturbed, index>>
    BY <1>2 DEF CompareEntries, OnTrack, store
  <2>2. UNCHANGED Inputs
    BY <1>2 DEF CompareEntries, store, cluster, Inputs, Listed
  <2>3. pending' = {r \in Resources : Listed(r)} /\ \A r \in Resources : Listed(r)' <=> Listed(r)
    BY <1>2, <2>1 DEF CompareEntries, Listed
  <2>4. ~disturbed' /\ Typed' => listed' = live'
    BY <2>1, <2>2, InputsAre DEF OnTrack
  <2>5. \A r \in Resources : Listed(r)' => r \in pending'
    BY <2>3
  <2> QED BY <2>1, <2>4, <2>5 DEF OnTrack
<1>3. ASSUME NEW r \in Resources, CompareResource(r) PROVE OnTrack'
  BY <1>3, LookOnTrack
<1>4. CASE CompareWarn
  BY <1>4, WarnOnTrack
<1>5. CASE ComparePersist
  BY <1>5, PersistOnTrack
<1>6. ASSUME NEW e \in Editors, NEW r \in Resources, NEW c \in Contents, UpdateResource(e, r, c)
      PROVE  OnTrack'
  <2>1. StatusesStay
    BY <1>6, SaveEditStays DEF UpdateResource
  <2> QED BY <1>6, <2>1, BesideOnTrack, ContinuesOnTrack DEF UpdateResource, EditFinished, comparison
<1>7. ASSUME NEW e \in Editors, UpdateWarnings(e) PROVE OnTrack'
  BY <1>7, ApplyWarningsStays, BesideOnTrack DEF UpdateWarnings, comparison, Abandoned
<1>8. ASSUME NEW r \in Resources, DiscardEdit(r) PROVE OnTrack'
  BY <1>8, ClearEditStays, ContinuesOnTrack DEF DiscardEdit
<1>9. CASE EnsureDetects
  <2>1. UNCHANGED <<up, index, phase, listed, pending, verdict, disturbed>> /\ UNCHANGED Inputs
    BY <1>9 DEF EnsureDetects, store, cluster, comparison, Inputs, Listed
  <2> QED BY <2>1, InputsAre DEF OnTrack, Listed
<1>10. CASE EnsureApplies
  BY <1>10, ApplyWarningsStays, BesideOnTrack DEF EnsureApplies, comparison, Abandoned
<1>11. ASSUME NEW r \in Resources, ScrapeSave(r) PROVE OnTrack'
  BY <1>11, SaveStays, ContinuesOnTrack DEF ScrapeSave
<1>12. ASSUME NEW r \in Resources, ScrapeDelete(r) PROVE OnTrack'
  BY <1>12, DeleteStays, ContinuesOnTrack DEF ScrapeDelete
<1>13. CASE ScrapeEnds
  <2>1. StatusesStay
    BY <1>13, SavedIs DEF ScrapeEnds, Flush, UpdateScrapeStats, StatusesStay, Listed
  <2> QED BY <1>13, <2>1, ContinuesOnTrack DEF ScrapeEnds
<1>14. CASE Start
  <2>1. phase' = "idle"
    BY <1>14 DEF Start, NewStore, OnTrack, comparison
  <2> QED BY <2>1 DEF OnTrack
<1>15. CASE Die
  BY <1>15 DEF Die, Abandoned, OnTrack
<1>16. ASSUME NEW r \in Resources, DRChange(r) PROVE OnTrack'
  <2>1. UNCHANGED <<up, index, phase, listed, pending, verdict>> /\ Noted
    BY <1>16 DEF DRChange, store, comparison
  <2>2. StatusesStay
    BY <2>1 DEF StatusesStay, Listed
  <2>3. up' \/ phase' = "idle"
    BY <2>1 DEF OnTrack
  <2> QED BY <2>1, <2>2, <2>3, BesideOnTrack
<1>17. CASE UNCHANGED allVars
  <2>1. UNCHANGED <<up, index, phase, listed, pending, verdict, disturbed>> /\ UNCHANGED Inputs
    BY <1>17 DEF allVars, store, cluster, comparison, Inputs, Listed
  <2> QED BY <2>1, InputsAre DEF OnTrack, Listed
<1> QED BY <1>1, <1>2, <1>3, <1>4, <1>5, <1>6, <1>7, <1>8, <1>9, <1>10, <1>11, <1>12, <1>13, <1>14,
           <1>15, <1>16, <1>17 DEF ComparisonNext, Compares

\* A comparison that nothing disturbed stores what is true, whatever crashes, edits
\* and scrapes came before it and whatever writes of the store come beside it.
THEOREM ComparisonsAreTrue == ComparisonSpec => []UndisturbedComparisonIsTrue
<1>1. ComparisonInit => TypeOKComparison /\ OnTrack
  BY ComparisonTypeInit DEF ComparisonInit, OnTrack
<1>2. TypeOKComparison /\ OnTrack /\ [ComparisonNext]_allVars => (TypeOKComparison /\ OnTrack)'
  BY StoreTyped, LocalsInductive, ClusterInductive, TrackInductive DEF LocalsTyped, TypeOKComparison
<1>3. OnTrack => UndisturbedComparisonIsTrue
  BY DEF OnTrack, UndisturbedComparisonIsTrue
<1> QED BY <1>1, <1>2, <1>3, PTL DEF ComparisonSpec

\* What the comparison of recovered entries gets wrong, it gets wrong for that reason
\* alone: as soon as one entry of the kind says its API, a resource stored as missing
\* by a comparison nothing disturbed has no object in the DR cluster.
THEOREM MissingWhereTyped ==
  ASSUME missing \notin {synced, drifted}
  PROVE  ComparisonSpec => [](Typed => MissingIsMissing)
<1>1. UndisturbedComparisonIsTrue => (Typed => MissingIsMissing)
  <2> SUFFICES ASSUME UndisturbedComparisonIsTrue, Typed, phase = "done", ~disturbed,
                      NEW r \in Resources, Listed(r), index[r].status = missing, Gettable(r)
               PROVE  live[r] = Absent
    BY DEF MissingIsMissing
  <2>1. TrueStatus(r) = missing
    BY DEF UndisturbedComparisonIsTrue
  <2> QED
    BY <2>1 DEF TrueStatus
<1> QED
  BY <1>1, ComparisonsAreTrue, PTL
=============================================================================
