---------------------------- MODULE ManifestStore ----------------------------
(***************************************************************************)
(* The encrypted manifest store of DrKate (internal/storage/store.go): per *)
(* resource a scraped manifest <name>.enc and, while an operator keeps a   *)
(* local copy, an overlay <name>.edit.enc; and one index.enc that repeats  *)
(* what the process holds in memory about every resource.                  *)
(*                                                                         *)
(* Every method holds Store.mu to its end, so a method is one action; but  *)
(* it writes several files, and the process may die between or inside      *)
(* those writes (main.go returns soon after SIGTERM whatever a scrape is   *)
(* doing).  The faults that may happen are a parameter:                    *)
(*   "crash"  the process dies between two file operations of a method     *)
(*   "torn"   a death or an error inside os.WriteFile leaves a cut file,   *)
(*            which Decrypt rejects ever after                             *)
(*   "error"  a write or a removal returns an error, the process lives     *)
(*                                                                         *)
(* A resource <<s, n>> is named s followed by n times ".edit": the overlay *)
(* of <<s, n>> is the file the manifest of a resource <<s, n+1>> would be. *)
(* A status stands for the pair (status, drift); timestamps and scrape     *)
(* statistics are left out, the index write they cause is not.             *)
(***************************************************************************)
EXTENDS Naturals, FiniteSets

CONSTANTS Stems,       \* name stems
          Resources,   \* the <<stem, n>> the source cluster may hold
          Contents,    \* YAML documents, up to yamlEqual
          Verdicts,    \* statuses a comparison may return
          WarningsOf,  \* what DetectWarnings finds in a content
          NoWarnings,  \* the empty warning list
          FlushEvery,  \* indexFlushEvery
          Faults,      \* which faults may happen
          MaxFaults,   \* bound: faults in a behaviour
          NoStatus, Absent, Torn, NoMeta

Warnings == {NoWarnings} \cup {WarningsOf[c] : c \in Contents}

\* An unchecked entry carries no warnings.
Meta == {m \in [edited : BOOLEAN, typed : BOOLEAN, status : Verdicts \cup {NoStatus},
                checked : BOOLEAN, warnings : Warnings] : m.checked \/ m.warnings = NoWarnings}
Index == [Resources -> Meta \cup {NoMeta}]

ManifestFile(r) == r

EditFile(r) == <<r[1], r[2] + 1>>

Files == Resources \cup {EditFile(r) : r \in Resources}

\* Names are stems with suffixes.
ASSUME NamesAssumption == Resources \subseteq Stems \X Nat
\* Saves are flushed after a positive number of them.
ASSUME BoundsAssumption == FlushEvery \in Nat \ {0} /\ MaxFaults \in Nat
\* Only the faults described above.
ASSUME FaultsAssumption == Faults \subseteq {"crash", "torn", "error"}
\* The sentinels are none of the values they stand beside.
ASSUME SentinelAssumption == /\ Absent \notin Contents
                             /\ Torn \notin Contents \cup {Absent}
                             /\ Torn \notin Index
                             /\ NoMeta \notin Meta
                             /\ NoStatus \notin Verdicts

VARIABLES up,         \* is the process running
          index,      \* Store.index in memory: resource -> meta
          dirty,      \* Store.dirty: saves since the index was written
          file,       \* manifests/: file -> content, Absent or Torn
          indexFile,  \* index.enc; a missing one reads as empty
          faults      \* faults so far

vars == <<up, index, dirty, file, indexFile, faults>>

EmptyIndex == [r \in Resources |-> NoMeta]

TypeOK == /\ up \in BOOLEAN
          /\ index \in Index
          /\ dirty \in Nat
          /\ file \in [Files -> Contents \cup {Absent, Torn}]
          /\ indexFile \in Index \cup {Torn}
          /\ faults \in 0..MaxFaults

\* An empty data directory and no process.
Init == /\ up = FALSE
        /\ index = EmptyIndex
        /\ dirty = 0
        /\ file = [f \in Files |-> Absent]
        /\ indexFile = EmptyIndex
        /\ faults = 0

------------------------------------------------------------------------------
\* Faults.

Fault(kind) == /\ kind \in Faults
               /\ faults < MaxFaults
               /\ faults' = faults + 1

\* The process dies, and with it what it had in memory.
Crash == /\ Fault("crash")
         /\ up' = FALSE
         /\ index' = EmptyIndex
         /\ dirty' = 0

\* A file operation fails and the method returns its error.
Fails == /\ Fault("error")
         /\ UNCHANGED <<up, index, dirty>>

\* A write of f that does not complete leaves the old file or a cut one.
WriteCut(f) ==
  /\ Crash \/ Fails
  /\ \/ UNCHANGED file
     \/ "torn" \in Faults /\ file' = [file EXCEPT ![f] = Torn]
  /\ UNCHANGED indexFile

IndexCut == \/ UNCHANGED indexFile
            \/ "torn" \in Faults /\ indexFile' = Torn

------------------------------------------------------------------------------
\* The index.

Listed(r) == index[r] # NoMeta

StatusIn(m, r) == IF m[r] = NoMeta THEN NoStatus ELSE m[r].status

\* saveIndexLocked with m in memory and n unflushed saves; a failed write
\* leaves m in memory and n as it was.
SaveIndexLocked(m, n) ==
  \/ /\ index' = m /\ indexFile' = m /\ dirty' = 0
     /\ UNCHANGED <<up, faults>>
  \/ Crash /\ (IndexCut \/ indexFile' = m)
  \/ /\ Fault("error") /\ IndexCut
     /\ index' = m /\ dirty' = n
     /\ UNCHANGED up

------------------------------------------------------------------------------
\* Starting the process: loadIndex, then reconcileDisk.

\* Mutation: the index is trusted, the manifests are not walked.
UnlistedMutant(m) == {}
\* Manifests on disk the index does not know; the walk passes over every
\* file named *.edit.enc.
Unlisted(m) == {r \in Resources : file[ManifestFile(r)] # Absent /\ m[r] = NoMeta /\ r[2] = 0}

\* Only the path and the modification time are known of a recovered one.
RecoveredMeta == [edited |-> FALSE, typed |-> FALSE, status |-> NoStatus,
                  checked |-> FALSE, warnings |-> NoWarnings]

NewStore ==
  /\ ~up
  /\ indexFile # Torn
  /\ LET m == [r \in Resources |-> IF r \in Unlisted(indexFile) THEN RecoveredMeta ELSE indexFile[r]]
     IN \/ /\ up' = TRUE /\ index' = m /\ dirty' = 0
           /\ indexFile' = m
           /\ UNCHANGED faults
        \/ /\ m # indexFile
           /\ Crash \/ Fails
           /\ IndexCut \/ indexFile' = m
  /\ UNCHANGED file

------------------------------------------------------------------------------
\* Save: the scraper stores what it read from the source cluster.

HasOverlay(r) == file[EditFile(r)] # Absent

\* Mutation: a scrape that differs from the overlay replaces it.
OverlayAfterScrapeMutant(r, c) == {Absent}
\* What becomes of the overlay: one equal to the scraped content is removed
\* (an error of that removal is ignored), any other stays.
OverlayAfterScrape(r, c) ==
  {IF file[EditFile(r)] = c THEN Absent ELSE file[EditFile(r)]}
  \cup (IF "error" \in Faults THEN {file[EditFile(r)]} ELSE {})

\* Mutation: a scrape forgets the status of the last comparison.
KeptStatusMutant(r) == NoStatus
KeptStatus(r) == StatusIn(index, r)

\* Mutation: the flag of the old entry is kept as it is.
EditedAfterScrapeMutant(r, c) == IF Listed(r) THEN index[r].edited ELSE FALSE
EditedAfterScrape(r, c) == file[EditFile(r)] \notin {Absent, c}

\* Mutation: the warnings of the scraped content stay on an edited resource.
ScrapedMetaMutant(r, c) ==
  LET edited == EditedAfterScrape(r, c)
  IN [edited |-> edited, typed |-> TRUE, status |-> KeptStatus(r),
      checked |-> ~edited, warnings |-> WarningsOf[c]]
ScrapedMeta(r, c) ==
  LET edited == EditedAfterScrape(r, c)
  IN [edited |-> edited, typed |-> TRUE, status |-> KeptStatus(r),
      checked |-> ~edited, warnings |-> IF edited THEN NoWarnings ELSE WarningsOf[c]]

\* Mutation: off by one.
FlushDueMutant(n) == n > FlushEvery
FlushDue(n) == n >= FlushEvery

\* The manifest is written, and nothing after it happened.
ManifestOnly(r, c) == /\ file' = [file EXCEPT ![ManifestFile(r)] = c]
                      /\ UNCHANGED indexFile

\* The new entry is in memory; every FlushEvery-th save writes the index.
Upserted(r, c) ==
  LET m == [index EXCEPT ![r] = ScrapedMeta(r, c)]
  IN IF FlushDue(dirty + 1)
       THEN SaveIndexLocked(m, dirty + 1)
       ELSE /\ index' = m /\ dirty' = dirty + 1
            /\ UNCHANGED <<up, indexFile, faults>>

Save(r, c) ==
  /\ up
  /\ \/ WriteCut(ManifestFile(r))
     \/ Crash /\ ManifestOnly(r, c)
     \/ /\ file[EditFile(r)] = Torn       \* the overlay cannot be read
        /\ ManifestOnly(r, c)
        /\ UNCHANGED <<up, index, dirty, faults>>
     \/ /\ file[EditFile(r)] # Torn
        /\ \E e \in OverlayAfterScrape(r, c) :
             file' = [file EXCEPT ![ManifestFile(r)] = c, ![EditFile(r)] = e]
        /\ Upserted(r, c)

------------------------------------------------------------------------------
\* SaveEdit and ClearEdit: an operator keeps or discards a local copy.

Readable(f) == file[f] \notin {Absent, Torn}

OverlayRemoved(r) == file' = [file EXCEPT ![EditFile(r)] = Absent]

\* Only the file operation happened: the process dies before the index.
DiesBeforeIndex == Crash /\ UNCHANGED indexFile

RemoveFails == Fails /\ UNCHANGED <<file, indexFile>>

SaveEdit(r, c) ==
  /\ up
  /\ Readable(ManifestFile(r))
  /\ Listed(r)
  /\ IF file[ManifestFile(r)] = c
       THEN \/ RemoveFails
            \/ /\ OverlayRemoved(r)
               /\ \/ DiesBeforeIndex
                  \/ SaveIndexLocked([index EXCEPT ![r].edited = FALSE], dirty)
       ELSE \/ WriteCut(EditFile(r))
            \/ /\ file' = [file EXCEPT ![EditFile(r)] = c]
               /\ \/ DiesBeforeIndex
                  \/ SaveIndexLocked([index EXCEPT ![r].edited = TRUE], dirty)

ClearEdit(r) ==
  /\ up
  /\ \/ RemoveFails
     \/ /\ OverlayRemoved(r)
        /\ IF Listed(r)
             THEN \/ DiesBeforeIndex
                  \/ SaveIndexLocked([index EXCEPT ![r].edited = FALSE, ![r].checked = FALSE,
                                                   ![r].warnings = NoWarnings], dirty)
             ELSE UNCHANGED <<up, index, dirty, indexFile, faults>>

------------------------------------------------------------------------------
\* Delete: the scraper drops a resource the configuration excludes.

\* The manifest is removed, and the overlay is still there.
ManifestRemovedOnly(r) == /\ file' = [file EXCEPT ![ManifestFile(r)] = Absent]
                          /\ UNCHANGED indexFile

Delete(r) ==
  /\ up
  /\ \/ RemoveFails
     \/ (Crash \/ Fails) /\ ManifestRemovedOnly(r)
     \/ /\ file' = [file EXCEPT ![ManifestFile(r)] = Absent, ![EditFile(r)] = Absent]
        /\ IF Listed(r)
             THEN \/ DiesBeforeIndex
                  \/ SaveIndexLocked([index EXCEPT ![r] = NoMeta], dirty)
             ELSE UNCHANGED <<up, index, dirty, indexFile, faults>>

------------------------------------------------------------------------------
\* What a comparison and the warning detection write back, for the resources
\* of a batch that are listed; a batch that changes nothing writes nothing.

SaveIfChanged(m) ==
  /\ IF m = index THEN UNCHANGED <<up, index, dirty, indexFile, faults>>
                  ELSE SaveIndexLocked(m, dirty)
  /\ UNCHANGED file

ApplyStatuses(updates) ==
  /\ up
  /\ SaveIfChanged([r \in Resources |->
       IF r \in DOMAIN updates /\ Listed(r) THEN [index[r] EXCEPT !.status = updates[r]]
                                            ELSE index[r]])

ApplyWarnings(updates) ==
  /\ up
  /\ SaveIfChanged([r \in Resources |->
       IF r \in DOMAIN updates /\ Listed(r)
         THEN [index[r] EXCEPT !.warnings = updates[r], !.checked = TRUE]
         ELSE index[r]])

------------------------------------------------------------------------------
\* Flush and UpdateScrapeStats, at the end of a scrape; Flush also at shutdown.

Flush == /\ up
         /\ dirty # 0
         /\ SaveIndexLocked(index, dirty)
         /\ UNCHANGED file

UpdateScrapeStats == /\ up
                     /\ SaveIndexLocked(index, dirty)
                     /\ UNCHANGED file

\* The process is killed between two methods.
Kill == up /\ Crash /\ UNCHANGED <<file, indexFile>>

------------------------------------------------------------------------------
Batches(V) == UNION {[S -> V] : S \in (SUBSET Resources) \ {{}}}

Next ==
  \/ NewStore
  \/ \E r \in Resources, c \in Contents : Save(r, c)
  \/ \E r \in Resources, c \in Contents : SaveEdit(r, c)
  \/ \E r \in Resources : ClearEdit(r)
  \/ \E r \in Resources : Delete(r)
  \/ \E updates \in Batches(Verdicts) : ApplyStatuses(updates)
  \/ \E updates \in Batches(Warnings) : ApplyWarnings(updates)
  \/ Flush
  \/ UpdateScrapeStats
  \/ Kill

Spec == Init /\ [][Next]_vars

\* The process is restarted when it is down, every resource the source cluster
\* keeps is scraped again and again (by the periodic scrape, which an empty interval
\* disables, or on request), and removing an overlay the scraped content has caught
\* up with does not fail for ever.
FairSpec == /\ Spec
            /\ WF_vars(NewStore)
            /\ \A r \in Resources :
                 WF_vars(\E c \in Contents : Save(r, c) /\ file'[EditFile(r)] # c)

------------------------------------------------------------------------------
\* Properties.

\* A running process lists every manifest on disk, whatever scrapes a crash cut
\* short: a manifest nobody lists is never compared and never deployed.
EveryManifestListed ==
  up => \A r \in Resources : file[ManifestFile(r)] # Absent => Listed(r)

\* The status a comparison wrote for a resource is on disk, whatever scrapes
\* have since changed in memory only: a crash does not take it away.
VerdictsAreDurable ==
  up => \A r \in Resources : StatusIn(index, r) = StatusIn(indexFile, r)

\* The entries a crash would lose or set back are at most the saves counted in
\* dirty, and there are fewer of them than indexFlushEvery.
LagIsBounded ==
  up => /\ dirty < FlushEvery
        /\ Cardinality({r \in Resources : index[r] # indexFile[r]}) <= dirty

\* As long as nothing has failed, the edited flag of an entry, which the lists and the
\* dashboard show, says whether an overlay is there, which Get and a deploy use.
EditedFlagTracksOverlay ==
  (up /\ faults = 0) => \A r \in Resources : Listed(r) => (index[r].edited <=> HasOverlay(r))

\* A scrape never writes an overlay: one appears, changes or goes away only by
\* the operator's own SaveEdit or ClearEdit, by Delete, or because the scraped
\* content has become equal to it.  Torn files and errors change nothing of it.
OverlaysBelongToOperators ==
  [][\A r \in Resources : file'[EditFile(r)] # file[EditFile(r)] =>
       \/ \E c \in Contents : SaveEdit(r, c)
       \/ ClearEdit(r)
       \/ Delete(r)
       \/ file'[EditFile(r)] = Absent /\ file[EditFile(r)] = file'[ManifestFile(r)]]_vars

\* What the store promises about scraped contents and local copies.
Overlays == INSTANCE OverlayStore WITH
              source <- [r \in Resources |-> file[ManifestFile(r)]],
              copy <- [r \in Resources |-> file[EditFile(r)]],
              None <- Absent

\* As long as no write is torn and no name ends in ".edit", the files are the
\* abstract store, through crashes, restarts and failing operations.
ImplementsOverlayStore == Overlays!Spec

\* An entry a crash left wrong - recovered without its type, or with an edited
\* flag that belies the overlay - is put right by later scrapes.
Sound(r) == /\ up
            /\ Listed(r) => index[r].typed /\ (index[r].edited <=> HasOverlay(r))
EntriesHeal == \A r \in Resources : ~Sound(r) ~> Sound(r)

\* A store that was up can be opened again after a crash.
ReopenSucceeds == ~up ~> up
=============================================================================
