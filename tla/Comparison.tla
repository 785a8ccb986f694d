------------------------------ MODULE Comparison ------------------------------
(***************************************************************************)
(* How a resource gets its status and its warnings: the comparator         *)
(* (internal/k8s/comparator.go) over the manifest store, and the handlers  *)
(* that write warnings beside it (handlers.go).  A comparison and a        *)
(* handler take the store's lock again and again, so scrapes, operators,   *)
(* other handlers and changes of the DR cluster come in between.           *)
(*                                                                         *)
(* The resources are of one kind, so loadLive lists them in one call, if   *)
(* at least one entry says which API they belong to.  Two contents differ  *)
(* when a comparison would say so.  Everything that runs in the process    *)
(* stops when it dies.  When a comparison may begin is left to             *)
(* StatusRefresh; here it may begin at any time.                           *)
(***************************************************************************)
EXTENDS ManifestStore

CONSTANTS synced, drifted, missing,  \* the verdicts
          Editors,                   \* concurrent UpdateResource requests
          DRFails,                   \* may a list of the DR cluster fail
          MaxEdits,                  \* bound: UpdateResource and DiscardEdit requests
          MaxDRChanges,              \* bound: changes of the DR cluster
          NoBatch                    \* nothing to write back

\* The verdicts of a comparison; a pending resource has NoStatus.
ASSUME VerdictsAssumption == Verdicts = {synced, drifted, missing}
\* The bounds are numbers.
ASSUME ComparisonBounds == MaxDRChanges \in Nat /\ MaxEdits \in Nat /\ DRFails \in BOOLEAN

VARIABLES live,       \* objects of the DR cluster
          drChanges, edits,
          phase,      \* where the one comparison is
          listed,     \* live objects as it has listed them
          pending,    \* entries it has yet to look at
          unchecked,  \* those whose warnings were unknown when it took them
          verdict,    \* what it found: resource -> status
          findings,   \* warnings it found, to be written back
          editing,    \* warnings each UpdateResource has yet to write back
          viewing,    \* warnings EnsureWarnings has yet to write back
          disturbed   \* history: did something change since it began, or its list fail

store == <<up, index, dirty, file, indexFile, faults>>
cluster == <<live, drChanges>>
comparison == <<phase, listed, pending, unchecked, verdict, findings>>
handlers == <<editing, viewing>>
allVars == <<store, cluster, edits, comparison, handlers, disturbed>>

NoLive == [r \in Resources |-> Absent]
Nothing == [r \in {} |-> NoStatus]

\* A batch f with one more entry.
With(f, r, v) == [q \in DOMAIN f \cup {r} |-> IF q = r THEN v ELSE f[q]]

PartialMaps(V) == {Nothing} \cup Batches(V)

TypeOKComparison ==
  /\ TypeOK
  /\ live \in [Resources -> Contents \cup {Absent}]
  /\ drChanges \in 0..MaxDRChanges /\ edits \in 0..MaxEdits
  /\ phase \in {"idle", "listed", "looking", "warned", "done"}
  /\ listed \in [Resources -> Contents \cup {Absent}]
  /\ pending \subseteq Resources /\ unchecked \subseteq Resources
  /\ verdict \in PartialMaps(Verdicts) /\ findings \in PartialMaps(Warnings)
  /\ editing \in [Editors -> Batches(Warnings) \cup {NoBatch}]
  /\ viewing \in Batches(Warnings) \cup {NoBatch}
  /\ disturbed \in BOOLEAN

NoEdits == [e \in Editors |-> NoBatch]

ComparisonInit ==
  /\ Init
  /\ live \in [Resources -> Contents \cup {Absent}] /\ drChanges = 0 /\ edits = 0
  /\ phase = "idle" /\ listed = NoLive /\ pending = {} /\ unchecked = {}
  /\ verdict = Nothing /\ findings = Nothing
  /\ editing = NoEdits /\ viewing = NoBatch
  /\ disturbed = FALSE

\* A comparison is over, and what it held in its local variables is gone.
LocalsGone == /\ listed' = NoLive /\ pending' = {} /\ unchecked' = {}
              /\ verdict' = Nothing /\ findings' = Nothing

Abandoned == phase' = "idle" /\ LocalsGone /\ editing' = NoEdits /\ viewing' = NoBatch

\* What runs in the process goes on, or ends with it.
Continues == IF up' THEN UNCHANGED <<comparison, handlers>> ELSE Abandoned

\* What the statuses of a comparison depend on.
Inputs == <<file, live, [r \in Resources |-> Listed(r) /\ index[r].typed]>>

Noted == disturbed' = (phase' # "idle" /\ (disturbed \/ Inputs' # Inputs))

------------------------------------------------------------------------------
\* What Get returns.

Gettable(r) == Readable(ManifestFile(r)) /\ file[EditFile(r)] # Torn

View(r) == IF HasOverlay(r) THEN file[EditFile(r)] ELSE file[ManifestFile(r)]

------------------------------------------------------------------------------
\* Snapshot and PersistSnapshot.

\* Some entry says which API to ask.
Typed == \E r \in Resources : Listed(r) /\ index[r].typed

\* loadLive: a kind none of whose entries says its API is not listed at all,
\* and one whose list fails is passed over.
LoadLive == \/ Typed /\ listed' = live /\ disturbed' = FALSE
            \/ ~Typed /\ listed' = NoLive /\ disturbed' = FALSE
            \/ DRFails /\ Typed /\ listed' = NoLive /\ disturbed' = TRUE

CompareList ==
  /\ up /\ phase \in {"idle", "done"}
  /\ phase' = "listed"
  /\ LoadLive
  /\ UNCHANGED <<store, cluster, edits, pending, unchecked, verdict, findings, handlers>>

\* buildSnapshot takes the entries again.
CompareEntries ==
  /\ phase = "listed"
  /\ phase' = "looking"
  /\ pending' = {r \in Resources : Listed(r)}
  /\ unchecked' = {r \in Resources : Listed(r) /\ ~index[r].checked}
  /\ UNCHANGED <<store, cluster, edits, listed, verdict, findings, handlers, disturbed>>

\* A resource whose manifest cannot be read, or without a live object, is missing.
VerdictOf(r) == IF ~Gettable(r) \/ listed[r] = Absent THEN missing
                ELSE IF View(r) = listed[r] THEN synced ELSE drifted

\* Mutation: only resources with a live object are looked at for warnings.
ToCheckMutant(r) == r \in unchecked /\ Gettable(r) /\ listed[r] # Absent
ToCheck(r) == r \in unchecked /\ Gettable(r)

CompareResource(r) ==
  /\ phase = "looking" /\ r \in pending
  /\ pending' = pending \ {r}
  /\ verdict' = With(verdict, r, VerdictOf(r))
  /\ findings' = IF ToCheck(r) THEN With(findings, r, WarningsOf[View(r)]) ELSE findings
  /\ UNCHANGED <<store, cluster, edits, phase, listed, unchecked, handlers, disturbed>>

\* The warnings found are written back first; a failure is only logged.
CompareWarn ==
  /\ phase = "looking" /\ pending = {}
  /\ ApplyWarnings(findings)
  /\ IF up' THEN /\ phase' = "warned"
                 /\ UNCHANGED <<listed, pending, unchecked, verdict, findings, handlers>>
            ELSE Abandoned
  /\ UNCHANGED <<cluster, edits>> /\ Noted

ComparePersist ==
  /\ phase = "warned"
  /\ ApplyStatuses(verdict)
  /\ IF up' THEN phase' = "done" /\ LocalsGone /\ UNCHANGED handlers ELSE Abandoned
  /\ UNCHANGED <<cluster, edits>> /\ Noted

------------------------------------------------------------------------------
\* The handlers that write to the store: the local copy first, then, under
\* the lock taken anew, the warnings of what was read or sent.

EditFinished(e, r, c) ==
  IF up' /\ UNCHANGED faults
    THEN editing' = [editing EXCEPT ![e] = With(Nothing, r, WarningsOf[c])] /\ UNCHANGED <<comparison, viewing>>
    ELSE Continues

UpdateResource(e, r, c) ==
  /\ editing[e] = NoBatch /\ edits < MaxEdits
  /\ Gettable(r)
  /\ SaveEdit(r, c)
  /\ edits' = edits + 1
  /\ EditFinished(e, r, c)
  /\ UNCHANGED cluster /\ Noted

UpdateWarnings(e) ==
  /\ editing[e] # NoBatch
  /\ ApplyWarnings(editing[e])
  /\ IF up' THEN editing' = [editing EXCEPT ![e] = NoBatch] /\ UNCHANGED <<comparison, viewing>>
            ELSE Abandoned
  /\ UNCHANGED <<cluster, edits>> /\ Noted

DiscardEdit(r) ==
  /\ edits < MaxEdits
  /\ ClearEdit(r)
  /\ edits' = edits + 1
  /\ Continues
  /\ UNCHANGED cluster /\ Noted

\* EnsureWarnings, for a namespace an operator opens: detection ...
EnsureDetects ==
  /\ up /\ viewing = NoBatch
  /\ LET fresh == {r \in Resources : Listed(r) /\ ~index[r].checked /\ Gettable(r)}
     IN fresh # {} /\ viewing' = [r \in fresh |-> WarningsOf[View(r)]]
  /\ UNCHANGED <<store, cluster, edits, comparison, editing, disturbed>>

\* ... and writing back.
EnsureApplies ==
  /\ viewing # NoBatch
  /\ ApplyWarnings(viewing)
  /\ IF up' THEN viewing' = NoBatch /\ UNCHANGED <<comparison, editing>> ELSE Abandoned
  /\ UNCHANGED <<cluster, edits>> /\ Noted

------------------------------------------------------------------------------
\* What goes on around them: the scraper, the process, the DR cluster.

ScrapeSave(r) == /\ \E c \in Contents : Save(r, c)
                 /\ Continues /\ UNCHANGED <<cluster, edits>> /\ Noted

ScrapeDelete(r) == Delete(r) /\ Continues /\ UNCHANGED <<cluster, edits>> /\ Noted

ScrapeEnds == (Flush \/ UpdateScrapeStats) /\ Continues /\ UNCHANGED <<cluster, edits>> /\ Noted

Start == NewStore /\ UNCHANGED <<cluster, edits, comparison, handlers, disturbed>>

Die == Kill /\ Abandoned /\ UNCHANGED <<cluster, edits>> /\ Noted

DRChange(r) ==
  /\ drChanges < MaxDRChanges
  /\ drChanges' = drChanges + 1
  /\ \E o \in (Contents \cup {Absent}) \ {live[r]} : live' = [live EXCEPT ![r] = o]
  /\ UNCHANGED <<store, edits, comparison, handlers>> /\ Noted

------------------------------------------------------------------------------
Compares == \/ CompareList
            \/ CompareEntries
            \/ \E r \in Resources : CompareResource(r)
            \/ CompareWarn
            \/ ComparePersist

ComparisonNext ==
  \/ Compares
  \/ \E e \in Editors, r \in Resources, c \in Contents : UpdateResource(e, r, c)
  \/ \E e \in Editors : UpdateWarnings(e)
  \/ \E r \in Resources : DiscardEdit(r)
  \/ EnsureDetects
  \/ EnsureApplies
  \/ \E r \in Resources : ScrapeSave(r)
  \/ \E r \in Resources : ScrapeDelete(r)
  \/ ScrapeEnds
  \/ Start
  \/ Die
  \/ \E r \in Resources : DRChange(r)

ComparisonSpec == ComparisonInit /\ [][ComparisonNext]_allVars

\* The ticker starts a comparison again and again and the goroutine finishes
\* it, handlers run to their end, and what the source has is scraped again.
FairComparisonSpec == /\ ComparisonSpec
                      /\ WF_allVars(Start)
                      /\ WF_allVars(Compares)
                      /\ WF_allVars(EnsureApplies)
                      /\ \A e \in Editors : WF_allVars(UpdateWarnings(e))
                      /\ \A r \in Resources : WF_allVars(ScrapeSave(r))

------------------------------------------------------------------------------
\* Properties.

\* What an operator sees and a deploy sends.
Shown(r) == file[IF file[EditFile(r)] = Absent THEN ManifestFile(r) ELSE EditFile(r)]

\* The status a resource should have.
TrueStatus(r) == IF ~Gettable(r) \/ live[r] = Absent THEN missing
                 ELSE IF Shown(r) = live[r] THEN synced ELSE drifted

\* A comparison whose list succeeded, and during which nothing it depends on
\* has changed, leaves in the store, for every listed resource, whether what a
\* deploy would send differs from the DR cluster - whatever scrapes, edits and
\* crashes came before it, and whatever flushes, warnings and scrapes without a
\* change came beside it.  One entry must say the API of the kind.
UndisturbedComparisonIsTrue ==
  (phase = "done" /\ ~disturbed /\ Typed)
  => \A r \in Resources : Listed(r) => index[r].status = TrueStatus(r)

\* A resource such a comparison calls missing has no object in the DR cluster.
MissingIsMissing ==
  (phase = "done" /\ ~disturbed)
  => \A r \in Resources :
       (Listed(r) /\ index[r].status = missing /\ Gettable(r)) => live[r] = Absent

\* The warnings of an entry are those of the manifest an operator sees.
WarningsRight(r) ==
  /\ up
  /\ (Listed(r) /\ Gettable(r)) => index[r].checked /\ index[r].warnings = WarningsOf[Shown(r)]

\* Warnings are detected and written under different locks, so an edit, a
\* discarded edit or a scrape in between leaves the warnings of a manifest that
\* is no longer there; once operators stop, scrapes and comparisons put that
\* right, and they reach every entry, with a live object or without.
WarningsHeal == \A r \in Resources : ~WarningsRight(r) ~> WarningsRight(r)
=============================================================================
