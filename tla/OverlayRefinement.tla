--------------------------- MODULE OverlayRefinement ---------------------------
(***************************************************************************)
(* The manifest store implements OverlayStore, and it lists what it holds, *)
(* for all values of the constants: proofs.                                *)
(***************************************************************************)
EXTENDS ManifestStoreProofs

\* No resource is named like the overlay of another.
NoAlias == \A r \in Resources : r[2] = 0

\* The two halves of the refinement mapping.
Source == [r \in Resources |-> file[ManifestFile(r)]]
Copy == [r \in Resources |-> file[EditFile(r)]]

------------------------------------------------------------------------------
\* Manifests and overlays are different files, and no two overlays are one.
LEMMA FilesApart ==
  ASSUME NoAlias, NEW r \in Resources, NEW q \in Resources
  PROVE  /\ EditFile(r) # ManifestFile(q)
         /\ EditFile(r) = EditFile(q) => r = q
         /\ ManifestFile(r) \in Files /\ EditFile(r) \in Files
<1>1. /\ r = <<r[1], r[2]>> /\ q = <<q[1], q[2]>>
      /\ r[2] = 0 /\ q[2] = 0
  BY NamesAssumption DEF NoAlias
<1>2. EditFile(r)[2] = 1 /\ EditFile(q)[2] = 1 /\ EditFile(r)[1] = r[1] /\ EditFile(q)[1] = q[1]
  BY <1>1 DEF EditFile
<1>3. EditFile(r) # q
  BY <1>1, <1>2
<1>4. EditFile(r) = EditFile(q) => r = q
  BY <1>1, <1>2
<1> QED BY <1>3, <1>4 DEF ManifestFile, Files

\* Writing the manifest of r changes its source and no copy.
LEMMA ManifestWrite ==
  ASSUME TypeOK, NoAlias, NEW r \in Resources, NEW c,
         file' = [file EXCEPT ![ManifestFile(r)] = c]
  PROVE  Source' = [Source EXCEPT ![r] = c] /\ Copy' = Copy
<1>1. \A q \in Resources : file'[ManifestFile(q)] = IF q = r THEN c ELSE file[ManifestFile(q)]
  BY FilesApart DEF TypeOK, ManifestFile
<1>2. \A q \in Resources : file'[EditFile(q)] = file[EditFile(q)]
  BY FilesApart DEF TypeOK
<1> QED BY <1>1, <1>2 DEF Source, Copy

\* Writing the overlay of r changes its copy and no source.
LEMMA OverlayWrite ==
  ASSUME TypeOK, NoAlias, NEW r \in Resources, NEW e,
         file' = [file EXCEPT ![EditFile(r)] = e]
  PROVE  Copy' = [Copy EXCEPT ![r] = e] /\ Source' = Source
<1>1. \A q \in Resources : file'[EditFile(q)] = IF q = r THEN e ELSE file[EditFile(q)]
  BY FilesApart DEF TypeOK
<1>2. \A q \in Resources : file'[ManifestFile(q)] = file[ManifestFile(q)]
  BY FilesApart DEF TypeOK
<1> QED BY <1>1, <1>2 DEF Source, Copy

\* Writing both changes both.
LEMMA BothWritten ==
  ASSUME TypeOK, NoAlias, NEW r \in Resources, NEW c, NEW e,
         file' = [file EXCEPT ![ManifestFile(r)] = c, ![EditFile(r)] = e]
  PROVE  Source' = [Source EXCEPT ![r] = c] /\ Copy' = [Copy EXCEPT ![r] = e]
<1>1. \A q \in Resources : file'[ManifestFile(q)] = IF q = r THEN c ELSE file[ManifestFile(q)]
  BY FilesApart DEF TypeOK, ManifestFile
<1>2. \A q \in Resources : file'[EditFile(q)] = IF q = r THEN e ELSE file[EditFile(q)]
  BY FilesApart DEF TypeOK
<1> QED BY <1>1, <1>2 DEF Source, Copy

\* Files as they are: a stutter of the abstract store.
LEMMA FilesKept ==
  ASSUME UNCHANGED file
  PROVE  UNCHANGED <<Source, Copy>>
BY DEF Source, Copy

------------------------------------------------------------------------------
\* One lemma per method that touches the manifests.

AbstractStep == Overlays!Next \/ UNCHANGED <<Source, Copy>>

\* Save is a scrape of the abstract store, or changes none of its files.
LEMMA SaveRefines ==
  ASSUME TypeOK, NoAlias, "torn" \notin Faults,
         NEW r \in Resources, NEW c \in Contents, Save(r, c)
  PROVE  AbstractStep
<1>1. CASE WriteCut(ManifestFile(r))
  BY <1>1, FilesKept DEF WriteCut, AbstractStep
<1>2. CASE ManifestOnly(r, c)
  <2>1. Source' = [Source EXCEPT ![r] = c] /\ Copy' = Copy
    BY <1>2, ManifestWrite DEF ManifestOnly
  <2>2. Overlays!Scrape(r, c)
    BY <2>1 DEF Overlays!Scrape, Source, Copy
  <2> QED BY <2>2 DEF AbstractStep, Overlays!Next
<1>3. ASSUME NEW e \in OverlayAfterScrape(r, c),
             file' = [file EXCEPT ![ManifestFile(r)] = c, ![EditFile(r)] = e]
      PROVE  AbstractStep
  <2>1. Source' = [Source EXCEPT ![r] = c] /\ Copy' = [Copy EXCEPT ![r] = e]
    BY <1>3, BothWritten
  <2>2. e = Copy[r] \/ (Copy[r] = c /\ e = Absent)
    BY DEF OverlayAfterScrape, Copy
  <2>3. Copy' = Copy \/ (Copy[r] = c /\ Copy' = [Copy EXCEPT ![r] = Absent])
    BY <2>1, <2>2 DEF Copy
  <2>4. Overlays!Scrape(r, c)
    BY <2>1, <2>3 DEF Overlays!Scrape, Source, Copy
  <2> QED BY <2>4 DEF AbstractStep, Overlays!Next
<1> QED BY <1>1, <1>2, <1>3 DEF Save

\* SaveEdit is an edit or a discard of the abstract store, or changes nothing.
LEMMA SaveEditRefines ==
  ASSUME TypeOK, NoAlias, "torn" \notin Faults,
         NEW r \in Resources, NEW c \in Contents, SaveEdit(r, c)
  PROVE  AbstractStep
<1>1. CASE UNCHANGED file
  BY <1>1, FilesKept DEF AbstractStep
<1>2. ASSUME NEW e, e = (IF file[ManifestFile(r)] = c THEN Absent ELSE c),
             file' = [file EXCEPT ![EditFile(r)] = e]
      PROVE  AbstractStep
  <2>1. Copy' = [Copy EXCEPT ![r] = e] /\ Source' = Source
    BY <1>2, OverlayWrite
  <2>2. Source[r] # Absent /\ e = IF Source[r] = c THEN Absent ELSE c
    BY <1>2 DEF Source, SaveEdit, Readable
  <2>3. Overlays!Edit(r, c)
    BY <2>1, <2>2 DEF Overlays!Edit, Source, Copy
  <2> QED BY <2>3 DEF AbstractStep, Overlays!Next
<1> QED BY <1>1, <1>2 DEF SaveEdit, RemoveFails, WriteCut, OverlayRemoved

\* ClearEdit is a discard of the abstract store, or changes nothing.
LEMMA ClearEditRefines ==
  ASSUME TypeOK, NoAlias, NEW r \in Resources, ClearEdit(r)
  PROVE  AbstractStep
<1>1. CASE UNCHANGED file
  BY <1>1, FilesKept DEF AbstractStep
<1>2. CASE OverlayRemoved(r)
  <2>1. Copy' = [Copy EXCEPT ![r] = Absent] /\ Source' = Source
    BY <1>2, OverlayWrite DEF OverlayRemoved
  <2>2. Overlays!Discard(r)
    BY <2>1 DEF Overlays!Discard, Source, Copy
  <2> QED BY <2>2 DEF AbstractStep, Overlays!Next
<1> QED BY <1>1, <1>2 DEF ClearEdit, RemoveFails

\* Delete removes a source, with its copy or before it, as the abstract store may.
LEMMA DeleteRefines ==
  ASSUME TypeOK, NoAlias, NEW r \in Resources, Delete(r)
  PROVE  AbstractStep
<1>1. CASE UNCHANGED file
  BY <1>1, FilesKept DEF AbstractStep
<1>2. CASE ManifestRemovedOnly(r)
  <2>1. Source' = [Source EXCEPT ![r] = Absent] /\ Copy' = Copy
    BY <1>2, ManifestWrite DEF ManifestRemovedOnly
  <2>2. Overlays!Drop(r)
    BY <2>1 DEF Overlays!Drop, Source, Copy
  <2> QED BY <2>2 DEF AbstractStep, Overlays!Next
<1>3. CASE file' = [file EXCEPT ![ManifestFile(r)] = Absent, ![EditFile(r)] = Absent]
  <2>1. Source' = [Source EXCEPT ![r] = Absent] /\ Copy' = [Copy EXCEPT ![r] = Absent]
    BY <1>3, BothWritten
  <2>2. Overlays!Drop(r)
    BY <2>1 DEF Overlays!Drop, Source, Copy
  <2> QED BY <2>2 DEF AbstractStep, Overlays!Next
<1> QED BY <1>1, <1>2, <1>3 DEF Delete, RemoveFails

\* Every step of the manifest store is a step of the abstract store or a stutter.
LEMMA StepRefines ==
  ASSUME TypeOK, NoAlias, "torn" \notin Faults, [Next]_vars
  PROVE  AbstractStep
<1>1. CASE UNCHANGED file
  BY <1>1, FilesKept DEF AbstractStep
<1>2. ASSUME NEW r \in Resources, NEW c \in Contents, Save(r, c) PROVE AbstractStep
  BY <1>2, SaveRefines
<1>3. ASSUME NEW r \in Resources, NEW c \in Contents, SaveEdit(r, c) PROVE AbstractStep
  BY <1>3, SaveEditRefines
<1>4. ASSUME NEW r \in Resources, ClearEdit(r) PROVE AbstractStep
  BY <1>4, ClearEditRefines
<1>5. ASSUME NEW r \in Resources, Delete(r) PROVE AbstractStep
  BY <1>5, DeleteRefines
<1> QED BY <1>1, <1>2, <1>3, <1>4, <1>5
    DEF Next, vars, NewStore, ApplyStatuses, ApplyWarnings, SaveIfChanged, Flush, UpdateScrapeStats, Kill

\* Through crashes, restarts and failing operations, as long as no write is
\* torn, scraped contents and local copies change only as OverlayStore allows:
\* a scrape never changes a copy, it may only drop one equal to what it brings.
THEOREM OverlayRefinementHolds ==
  ASSUME NoAlias, "torn" \notin Faults
  PROVE  Spec => ImplementsOverlayStore
<1>1. Init => Overlays!Init
  BY EditFileType DEF Init, Overlays!Init, ManifestFile, Files
<1>2. TypeOK /\ [Next]_vars => [Overlays!Next]_(Overlays!view)
  BY StepRefines DEF AbstractStep, Overlays!view, Source, Copy
<1> QED BY <1>1, <1>2, Typing, PTL DEF Spec, Overlays!Spec, ImplementsOverlayStore

------------------------------------------------------------------------------
\* A running process lists every manifest.  Alone this is not inductive: a scrape
\* that finds a torn overlay returns before it lists the resource.  So a torn
\* overlay must belong to a listed resource, and stay so through a crash.

TornOverlay(r) == file[EditFile(r)] = Torn

ListedInv ==
  /\ up => \A r \in Resources : file[ManifestFile(r)] # Absent \/ TornOverlay(r) => Listed(r)
  /\ indexFile # Torn => \A r \in Resources : TornOverlay(r) =>
       indexFile[r] # NoMeta \/ (~up /\ file[ManifestFile(r)] # Absent)

\* A method that dies leaves torn only overlays of resources still on disk.
LEMMA ListedCrash ==
  ASSUME ListedInv, up, Crash, UNCHANGED indexFile,
         \A r \in Resources : TornOverlay(r)' => TornOverlay(r) \/ file'[ManifestFile(r)] # Absent
  PROVE  ListedInv'
BY DEF ListedInv, Crash

\* A method that gets as far as the index lists what the files need.
LEMMA ListedSaveIndex ==
  ASSUME ListedInv, up, "error" \notin Faults, NEW m, NEW n, SaveIndexLocked(m, n),
         \A r \in Resources : file'[ManifestFile(r)] # Absent \/ TornOverlay(r)' => m[r] # NoMeta,
         \A r \in Resources : TornOverlay(r)' => TornOverlay(r)
  PROVE  ListedInv'
<1>1. CASE index' = m /\ indexFile' = m /\ UNCHANGED up
  BY <1>1 DEF ListedInv, Listed
<1>2. CASE Crash /\ (IndexCut \/ indexFile' = m)
  BY <1>2 DEF ListedInv, Crash, IndexCut
<1> QED BY <1>1, <1>2 DEF SaveIndexLocked, Fault

\* Nothing but files changed, and they need nothing that is not listed.
LEMMA ListedInMemory ==
  ASSUME ListedInv, up, UNCHANGED <<up, indexFile>>,
         \A r \in Resources : file'[ManifestFile(r)] # Absent \/ TornOverlay(r)' => index'[r] # NoMeta,
         \A r \in Resources : TornOverlay(r)' => TornOverlay(r)
  PROVE  ListedInv'
BY DEF ListedInv, Listed

\* Save keeps every manifest listed: what it wrote it lists, or the process dies.
LEMMA ListedSave ==
  ASSUME TypeOK, NoAlias, ListedInv, "error" \notin Faults,
         NEW r \in Resources, NEW c \in Contents, Save(r, c)
  PROVE  ListedInv'
<1>1. up /\ c # Absent /\ c # Torn /\ Torn # Absent
  BY SentinelAssumption DEF Save
<1>2. CASE WriteCut(ManifestFile(r))
  <2>1. Crash /\ UNCHANGED indexFile
    BY <1>2 DEF WriteCut, Fails, Fault
  <2>2. \A q \in Resources : TornOverlay(q)' => TornOverlay(q)
    BY <1>2, FilesApart DEF WriteCut, TornOverlay, TypeOK
  <2> QED BY <1>1, <2>1, <2>2, ListedCrash
<1>3. ASSUME ManifestOnly(r, c)
      PROVE  /\ \A q \in Resources : TornOverlay(q)' = TornOverlay(q)
             /\ \A q \in Resources \ {r} : file'[ManifestFile(q)] = file[ManifestFile(q)]
  BY <1>3, FilesApart DEF ManifestOnly, TornOverlay, TypeOK, ManifestFile
<1>4. CASE Crash /\ ManifestOnly(r, c)
  BY <1>1, <1>3, <1>4, ListedCrash DEF ManifestOnly
<1>5. CASE TornOverlay(r) /\ ManifestOnly(r, c) /\ UNCHANGED <<up, index, dirty, faults>>
  <2>1. Listed(r)
    BY <1>1, <1>5 DEF ListedInv
  <2>2. \A q \in Resources : file'[ManifestFile(q)] # Absent \/ TornOverlay(q)' => index'[q] # NoMeta
    BY <1>1, <1>3, <1>5, <2>1 DEF ListedInv, Listed
  <2> QED BY <1>1, <1>3, <1>5, <2>2, ListedInMemory DEF ManifestOnly
<1>6. ASSUME NEW e \in OverlayAfterScrape(r, c),
             file' = [file EXCEPT ![ManifestFile(r)] = c, ![EditFile(r)] = e],
             Upserted(r, c)
      PROVE  ListedInv'
  <2> DEFINE m == [index EXCEPT ![r] = ScrapedMeta(r, c)]
  <2>1. m[r] # NoMeta /\ \A q \in Resources \ {r} : m[q] = index[q]
    BY ScrapedMetaType, SentinelAssumption DEF TypeOK, Index
  <2>2. e = Absent \/ e = file[EditFile(r)]
    BY DEF OverlayAfterScrape
  <2>3. /\ \A q \in Resources \ {r} : file'[ManifestFile(q)] = file[ManifestFile(q)]
        /\ \A q \in Resources : TornOverlay(q)' => TornOverlay(q)
    BY <1>1, <1>6, <2>2, FilesApart DEF TornOverlay, TypeOK, ManifestFile
  <2>4. \A q \in Resources : file'[ManifestFile(q)] # Absent \/ TornOverlay(q)' => m[q] # NoMeta
    BY <1>1, <2>1, <2>3 DEF ListedInv, Listed
  <2>5. CASE SaveIndexLocked(m, dirty + 1)
    BY <1>1, <2>3, <2>4, <2>5, ListedSaveIndex
  <2>6. CASE index' = m /\ UNCHANGED <<up, indexFile>>
    BY <1>1, <2>3, <2>4, <2>6, ListedInMemory
  <2> QED BY <1>6, <2>5, <2>6 DEF Upserted
<1> QED BY <1>2, <1>4, <1>5, <1>6 DEF Save, TornOverlay

\* SaveEdit unlists nothing and writes no manifest.
LEMMA ListedSaveEdit ==
  ASSUME TypeOK, NoAlias, ListedInv, "error" \notin Faults,
         NEW r \in Resources, NEW c \in Contents, SaveEdit(r, c)
  PROVE  ListedInv'
<1>1. /\ up /\ Listed(r) /\ file[ManifestFile(r)] # Absent
      /\ c # Torn /\ Torn # Absent /\ ~Fails
  BY SentinelAssumption DEF SaveEdit, Readable, Fails, Fault
<1>2. CASE WriteCut(EditFile(r))
  <2>1. \A q \in Resources : TornOverlay(q)' => TornOverlay(q) \/ file'[ManifestFile(q)] # Absent
    BY <1>1, <1>2, FilesApart DEF WriteCut, TornOverlay, TypeOK
  <2> QED BY <1>1, <1>2, <2>1, ListedCrash DEF WriteCut
<1>3. ASSUME NEW o \in {Absent, c}, NEW f \in BOOLEAN,
             file' = [file EXCEPT ![EditFile(r)] = o],
             DiesBeforeIndex \/ SaveIndexLocked([index EXCEPT ![r].edited = f], dirty)
      PROVE  ListedInv'
  <2> DEFINE m == [index EXCEPT ![r].edited = f]
  <2>1. /\ \A q \in Resources : file'[ManifestFile(q)] = file[ManifestFile(q)]
        /\ \A q \in Resources : TornOverlay(q)' => TornOverlay(q)
    BY <1>1, <1>3, FilesApart DEF TornOverlay, TypeOK
  <2>2. m[r] \in Meta \cup {NoMeta} /\ \A q \in Resources \ {r} : m[q] = index[q]
    BY <1>1, EditedMetaType DEF Index, TypeOK
  <2>3. m[r] # NoMeta
    <3>1. index[r] \in Meta
      BY <1>1 DEF TypeOK, Index, Listed
    <3>2. [index[r] EXCEPT !.edited = f] \in Meta
      BY <3>1 DEF Meta
    <3>3. m[r] = [index[r] EXCEPT !.edited = f]
      BY DEF TypeOK, Index
    <3> QED BY <3>2, <3>3, SentinelAssumption
  <2>4. \A q \in Resources : file'[ManifestFile(q)] # Absent \/ TornOverlay(q)' => m[q] # NoMeta
    BY <1>1, <2>1, <2>2, <2>3 DEF ListedInv, Listed
  <2>5. CASE DiesBeforeIndex
    BY <1>1, <2>1, <2>5, ListedCrash DEF DiesBeforeIndex
  <2>6. CASE SaveIndexLocked(m, dirty)
    BY <1>1, <2>1, <2>4, <2>6, ListedSaveIndex
  <2> QED BY <1>3, <2>5, <2>6
<1> QED BY <1>1, <1>2, <1>3 DEF SaveEdit, RemoveFails, OverlayRemoved

\* ClearEdit unlists nothing and writes no manifest.
LEMMA ListedClearEdit ==
  ASSUME TypeOK, NoAlias, ListedInv, "error" \notin Faults,
         NEW r \in Resources, ClearEdit(r)
  PROVE  ListedInv'
<1> DEFINE m == [index EXCEPT ![r].edited = FALSE, ![r].checked = FALSE, ![r].warnings = NoWarnings]
<1>1. up /\ OverlayRemoved(r) /\ Torn # Absent
  BY SentinelAssumption DEF ClearEdit, RemoveFails, Fails, Fault
<1>2. /\ \A q \in Resources : file'[ManifestFile(q)] = file[ManifestFile(q)]
      /\ \A q \in Resources : TornOverlay(q)' => TornOverlay(q)
  BY <1>1, FilesApart DEF TornOverlay, TypeOK, OverlayRemoved
<1>3. CASE UNCHANGED <<up, index, dirty, indexFile, faults>>
  BY <1>1, <1>2, <1>3, ListedInMemory DEF ListedInv, Listed
<1>4. CASE DiesBeforeIndex
  BY <1>1, <1>2, <1>4, ListedCrash DEF DiesBeforeIndex
<1>5. CASE Listed(r) /\ SaveIndexLocked(m, dirty)
  <2>1. index[r] \in Meta
    BY <1>5 DEF TypeOK, Index, Listed
  <2>2. [index[r] EXCEPT !.edited = FALSE, !.checked = FALSE, !.warnings = NoWarnings] \in Meta
    BY <2>1 DEF Meta, Warnings
  <2>3. /\ m[r] = [index[r] EXCEPT !.edited = FALSE, !.checked = FALSE, !.warnings = NoWarnings]
        /\ \A q \in Resources \ {r} : m[q] = index[q]
    BY DEF TypeOK, Index
  <2>4. m[r] # NoMeta
    BY <2>2, <2>3, SentinelAssumption
  <2>5. \A q \in Resources : file'[ManifestFile(q)] # Absent \/ TornOverlay(q)' => m[q] # NoMeta
    BY <1>1, <1>2, <2>3, <2>4 DEF ListedInv, Listed
  <2> QED BY <1>1, <1>2, <1>5, <2>5, ListedSaveIndex
<1> QED BY <1>3, <1>4, <1>5 DEF ClearEdit, RemoveFails, Fails, Fault

\* Delete unlists a resource only after its manifest is gone.
LEMMA ListedDelete ==
  ASSUME TypeOK, NoAlias, ListedInv, "error" \notin Faults,
         NEW r \in Resources, Delete(r)
  PROVE  ListedInv'
<1>1. up /\ Torn # Absent /\ ~Fails
  BY SentinelAssumption DEF Delete, Fails, Fault
<1>2. CASE Crash /\ ManifestRemovedOnly(r)
  <2>1. \A q \in Resources : TornOverlay(q)' => TornOverlay(q)
    BY <1>2, FilesApart DEF ManifestRemovedOnly, TornOverlay, TypeOK
  <2> QED BY <1>1, <1>2, <2>1, ListedCrash DEF ManifestRemovedOnly
<1>3. CASE /\ file' = [file EXCEPT ![ManifestFile(r)] = Absent, ![EditFile(r)] = Absent]
           /\ \/ DiesBeforeIndex \/ SaveIndexLocked([index EXCEPT ![r] = NoMeta], dirty)
              \/ UNCHANGED <<up, index, dirty, indexFile, faults>>
  <2>1. /\ \A q \in Resources \ {r} : file'[ManifestFile(q)] = file[ManifestFile(q)]
        /\ \A q \in Resources : TornOverlay(q)' => TornOverlay(q)
        /\ file'[ManifestFile(r)] = Absent /\ ~TornOverlay(r)'
    BY <1>1, <1>3, FilesApart DEF TornOverlay, TypeOK, ManifestFile
  <2>2. CASE UNCHANGED <<up, index, dirty, indexFile, faults>>
    BY <1>1, <2>1, <2>2, ListedInMemory DEF ListedInv, Listed
  <2>3. CASE DiesBeforeIndex
    BY <1>1, <2>1, <2>3, ListedCrash DEF DiesBeforeIndex
  <2>4. CASE SaveIndexLocked([index EXCEPT ![r] = NoMeta], dirty)
    <3>1. \A q \in Resources \ {r} : [index EXCEPT ![r] = NoMeta][q] = index[q]
      BY DEF TypeOK, Index
    <3>2. \A q \in Resources : file'[ManifestFile(q)] # Absent \/ TornOverlay(q)'
                               => [index EXCEPT ![r] = NoMeta][q] # NoMeta
      BY <1>1, <2>1, <3>1 DEF ListedInv, Listed
    <3> QED BY <1>1, <2>1, <2>4, <3>2, ListedSaveIndex
  <2> QED BY <1>3, <2>2, <2>3, <2>4
<1> QED BY <1>1, <1>2, <1>3 DEF Delete, RemoveFails

\* The methods that touch no manifest and keep every entry.
LEMMA ListedIndexOnly ==
  ASSUME ListedInv, up, "error" \notin Faults, UNCHANGED file, NEW m,
         \A r \in Resources : Listed(r) => m[r] # NoMeta,
         SaveIndexLocked(m, dirty) \/ UNCHANGED <<up, index, dirty, indexFile, faults>>
  PROVE  ListedInv'
<1>1. \A q \in Resources : /\ file'[ManifestFile(q)] = file[ManifestFile(q)]
                           /\ TornOverlay(q)' = TornOverlay(q)
  BY DEF TornOverlay
<1>2. CASE SaveIndexLocked(m, dirty)
  BY <1>1, <1>2, ListedSaveIndex DEF ListedInv
<1>3. CASE UNCHANGED <<up, index, dirty, indexFile, faults>>
  BY <1>1, <1>3, ListedInMemory DEF ListedInv, Listed
<1> QED BY <1>2, <1>3

\* Writing back statuses or warnings unlists nothing.
LEMMA ListedApply ==
  ASSUME TypeOK, ListedInv, "error" \notin Faults,
         \/ \E u \in Batches(Verdicts) : ApplyStatuses(u)
         \/ \E u \in Batches(Warnings) : ApplyWarnings(u)
  PROVE  ListedInv'
<1>1. ASSUME NEW u \in Batches(Verdicts), ApplyStatuses(u) PROVE ListedInv'
  <2> DEFINE m == [r \in Resources |->
         IF r \in DOMAIN u /\ Listed(r) THEN [index[r] EXCEPT !.status = u[r]] ELSE index[r]]
  <2>1. ASSUME NEW r \in Resources, Listed(r), r \in DOMAIN u PROVE m[r] \in Meta
    <3>1. u[r] \in Verdicts /\ index[r] \in Meta
      BY <2>1 DEF Batches, Listed, TypeOK, Index
    <3> QED BY <2>1, <3>1 DEF Meta
  <2>2. \A r \in Resources : Listed(r) => m[r] # NoMeta
    BY <2>1, SentinelAssumption DEF Listed
  <2> QED BY <1>1, <2>2, ListedIndexOnly DEF ApplyStatuses, SaveIfChanged
<1>2. ASSUME NEW u \in Batches(Warnings), ApplyWarnings(u) PROVE ListedInv'
  <2> DEFINE m == [r \in Resources |->
         IF r \in DOMAIN u /\ Listed(r)
           THEN [index[r] EXCEPT !.warnings = u[r], !.checked = TRUE] ELSE index[r]]
  <2>1. ASSUME NEW r \in Resources, Listed(r), r \in DOMAIN u PROVE m[r] \in Meta
    <3>1. u[r] \in Warnings /\ index[r] \in Meta
      BY <2>1 DEF Batches, Listed, TypeOK, Index
    <3> QED BY <2>1, <3>1 DEF Meta
  <2>2. \A r \in Resources : Listed(r) => m[r] # NoMeta
    BY <2>1, SentinelAssumption DEF Listed
  <2> QED BY <1>2, <2>2, ListedIndexOnly DEF ApplyWarnings, SaveIfChanged
<1> QED BY <1>1, <1>2

\* A start that ends with index m in memory and on disk, or dies on the way.
LEMMA ListedStart ==
  ASSUME ListedInv, ~up, indexFile # Torn, UNCHANGED file, NEW m,
         \A q \in Resources : file[ManifestFile(q)] # Absent \/ indexFile[q] # NoMeta => m[q] # NoMeta,
         \/ up' = TRUE /\ index' = m /\ indexFile' = m
         \/ up' = FALSE /\ indexFile' \in {Torn, indexFile, m}
  PROVE  ListedInv'
<1>1. \A q \in Resources : TornOverlay(q) => indexFile[q] # NoMeta \/ file[ManifestFile(q)] # Absent
  BY DEF ListedInv
<1>2. \A q \in Resources : TornOverlay(q) => m[q] # NoMeta
  BY <1>1
<1>3. \A q \in Resources : /\ TornOverlay(q)' = TornOverlay(q)
                           /\ file'[ManifestFile(q)] = file[ManifestFile(q)]
  BY DEF TornOverlay
<1>4. CASE up' = TRUE /\ index' = m /\ indexFile' = m
  BY <1>2, <1>3, <1>4 DEF ListedInv, Listed
<1>5. CASE up' = FALSE /\ indexFile' \in {Torn, indexFile, m}
  BY <1>1, <1>2, <1>3, <1>5 DEF ListedInv
<1> QED BY <1>4, <1>5

\* An opened store lists what is on disk: the walk adds what the index does not know.
LEMMA ListedNewStore ==
  ASSUME TypeOK, NoAlias, ListedInv, "error" \notin Faults, NewStore
  PROVE  ListedInv'
<1> DEFINE m == [r \in Resources |-> IF r \in Unlisted(indexFile) THEN RecoveredMeta ELSE indexFile[r]]
<1>1. ~up /\ indexFile # Torn /\ UNCHANGED file /\ ~Fails
  BY DEF NewStore, Fails, Fault
<1>2. RecoveredMeta # NoMeta
  <2>1. RecoveredMeta \in Meta
    BY DEF RecoveredMeta, Meta, Warnings
  <2> QED BY <2>1, SentinelAssumption
<1>3. \A q \in Resources : file[ManifestFile(q)] # Absent \/ indexFile[q] # NoMeta => m[q] # NoMeta
  BY <1>2 DEF Unlisted, NoAlias
<1>4. \/ up' = TRUE /\ index' = m /\ indexFile' = m
      \/ up' = FALSE /\ indexFile' \in {Torn, indexFile, m}
  BY <1>1 DEF NewStore, Crash, IndexCut
<1> QED BY <1>1, <1>3, <1>4, ListedStart

\* Every step keeps every manifest listed.
LEMMA ListedInductive ==
  ASSUME TypeOK, NoAlias, ListedInv, "error" \notin Faults, [Next]_vars
  PROVE  ListedInv'
<1>1. CASE NewStore
  BY <1>1, ListedNewStore
<1>2. ASSUME NEW r \in Resources, NEW c \in Contents, Save(r, c) PROVE ListedInv'
  BY <1>2, ListedSave
<1>3. ASSUME NEW r \in Resources, NEW c \in Contents, SaveEdit(r, c) PROVE ListedInv'
  BY <1>3, ListedSaveEdit
<1>4. ASSUME NEW r \in Resources, ClearEdit(r) PROVE ListedInv'
  BY <1>4, ListedClearEdit
<1>5. ASSUME NEW r \in Resources, Delete(r) PROVE ListedInv'
  BY <1>5, ListedDelete
<1>6. CASE \/ \E u \in Batches(Verdicts) : ApplyStatuses(u)
           \/ \E u \in Batches(Warnings) : ApplyWarnings(u)
  BY <1>6, ListedApply
<1>7. CASE Flush \/ UpdateScrapeStats
  BY <1>7, ListedIndexOnly DEF Flush, UpdateScrapeStats, Listed
<1>8. CASE Kill
  BY <1>8, ListedCrash DEF Kill, TornOverlay
<1>9. CASE UNCHANGED vars
  BY <1>9 DEF vars, ListedInv, TornOverlay, Listed
<1> QED BY <1>1, <1>2, <1>3, <1>4, <1>5, <1>6, <1>7, <1>8, <1>9 DEF Next

\* A running process lists every manifest on disk, whatever crashes and torn
\* writes went before.
THEOREM ManifestsListed ==
  ASSUME NoAlias, "error" \notin Faults
  PROVE  Spec => []EveryManifestListed
<1>1. Init => TypeOK /\ ListedInv
  BY TypeInit, EditFileType, SentinelAssumption DEF Init, ListedInv, TornOverlay
<1>2. TypeOK /\ ListedInv /\ [Next]_vars => TypeOK' /\ ListedInv'
  BY TypeInductive, ListedInductive
<1>3. ListedInv => EveryManifestListed
  BY DEF ListedInv, EveryManifestListed
<1> QED BY <1>1, <1>2, <1>3, PTL DEF Spec

------------------------------------------------------------------------------
\* Whose the overlays are.

\* What a step does to an overlay, whatever fails in it.
LEMMA OverlayStep ==
  ASSUME TypeOK, NoAlias, [Next]_vars, NEW r \in Resources, file'[EditFile(r)] # file[EditFile(r)]
  PROVE  \/ \E c \in Contents : SaveEdit(r, c)
         \/ ClearEdit(r)
         \/ Delete(r)
         \/ file'[EditFile(r)] = Absent /\ file[EditFile(r)] = file'[ManifestFile(r)]
<1>1. ASSUME NEW q \in Resources, NEW c \in Contents, Save(q, c)
      PROVE  file'[EditFile(r)] = Absent /\ file[EditFile(r)] = file'[ManifestFile(r)]
  <2>1. ~(UNCHANGED file) /\ \A x : ~(file' = [file EXCEPT ![ManifestFile(q)] = x])
    BY FilesApart DEF TypeOK
  <2>2. PICK e \in OverlayAfterScrape(q, c) :
          file' = [file EXCEPT ![ManifestFile(q)] = c, ![EditFile(q)] = e]
    BY <1>1, <2>1 DEF Save, WriteCut, ManifestOnly
  <2>3. q = r
    BY <2>2, FilesApart DEF TypeOK
  <2>4. file'[EditFile(r)] = e /\ file'[ManifestFile(r)] = c
    BY <2>2, <2>3, FilesApart DEF TypeOK
  <2> QED BY <2>3, <2>4 DEF OverlayAfterScrape
<1>2. ASSUME NEW q \in Resources, NEW c \in Contents, SaveEdit(q, c) PROVE SaveEdit(r, c)
  <2>1. UNCHANGED file \/ \E x : file' = [file EXCEPT ![EditFile(q)] = x]
    BY <1>2 DEF SaveEdit, RemoveFails, OverlayRemoved, WriteCut
  <2> QED BY <1>2, <2>1, FilesApart DEF TypeOK
<1>3. ASSUME NEW q \in Resources, ClearEdit(q) PROVE ClearEdit(r)
  BY <1>3, FilesApart DEF TypeOK, ClearEdit, RemoveFails, OverlayRemoved
<1>4. ASSUME NEW q \in Resources, Delete(q) PROVE Delete(r)
  BY <1>4, FilesApart DEF TypeOK, Delete, RemoveFails, ManifestRemovedOnly
<1>5. CASE UNCHANGED file
  BY <1>5
<1> QED BY <1>1, <1>2, <1>3, <1>4, <1>5
        DEF Next, NewStore, ApplyStatuses, ApplyWarnings, SaveIfChanged, Flush, UpdateScrapeStats, Kill, vars

\* A scrape takes an overlay away only when the source has caught up with it, with
\* any combination of crashes, cut files and errors.
THEOREM OverlaysOfOperators == ASSUME NoAlias PROVE Spec => OverlaysBelongToOperators
<1>1. TypeOK /\ [Next]_vars =>
        [\A r \in Resources : file'[EditFile(r)] # file[EditFile(r)] =>
           \/ \E c \in Contents : SaveEdit(r, c)
           \/ ClearEdit(r)
           \/ Delete(r)
           \/ file'[EditFile(r)] = Absent /\ file[EditFile(r)] = file'[ManifestFile(r)]]_vars
  BY OverlayStep
<1> QED BY <1>1, Typing, PTL DEF Spec, OverlaysBelongToOperators

------------------------------------------------------------------------------
\* The edited flag.

\* Before the first fault: a process that is down has not run yet, and in one that
\* runs the flag of an entry says whether the overlay is there.
FlagInv ==
  faults = 0 =>
    /\ ~up => indexFile = EmptyIndex /\ \A f \in Files : file[f] = Absent
    /\ up => \A r \in Resources : Listed(r) => (index[r].edited <=> HasOverlay(r))

\* Without a fault in the step nothing dies or fails.
LEMMA NothingFails ==
  ASSUME TypeOK, faults' = 0
  PROVE  (\A kind : ~Fault(kind)) /\ ~Crash /\ ~Fails
BY DEF TypeOK, Fault, Crash, Fails

\* What is saved is in memory then.
LEMMA SavedThen ==
  ASSUME TypeOK, faults' = 0, NEW m, NEW n, SaveIndexLocked(m, n)
  PROVE  index' = m /\ UNCHANGED <<up, faults>>
BY NothingFails DEF SaveIndexLocked

\* One entry and its overlay change together.
LEMMA FlagOfOne ==
  ASSUME TypeOK, FlagInv, up, UNCHANGED <<up, faults>>, NEW r \in Resources, NEW m,
         index' = [index EXCEPT ![r] = m],
         \A q \in Resources \ {r} : file'[EditFile(q)] = file[EditFile(q)],
         m # NoMeta => (m.edited <=> HasOverlay(r)')
  PROVE  FlagInv'
BY DEF FlagInv, TypeOK, Index, Listed, HasOverlay

\* The index changes beside the flags.
LEMMA FlagsStay ==
  ASSUME FlagInv, up, UNCHANGED <<up, faults, file>>,
         \A r \in Resources : Listed(r)' => Listed(r) /\ index'[r].edited = index[r].edited
  PROVE  FlagInv'
BY DEF FlagInv, HasOverlay

\* A scraped entry is flagged when the overlay differs, and else has none.
LEMMA FlagSave ==
  ASSUME TypeOK, NoAlias, FlagInv, "error" \notin Faults, faults' = 0,
         NEW r \in Resources, NEW c \in Contents, Save(r, c)
  PROVE  FlagInv'
<1>1. CASE /\ ManifestOnly(r, c) /\ UNCHANGED <<up, index, dirty, faults>>
  BY <1>1, FilesApart DEF ManifestOnly, FlagInv, Listed, HasOverlay, TypeOK, Save
<1>2. ASSUME NEW e \in OverlayAfterScrape(r, c),
             file' = [file EXCEPT ![ManifestFile(r)] = c, ![EditFile(r)] = e],
             Upserted(r, c)
      PROVE  FlagInv'
  <2>1. index' = [index EXCEPT ![r] = ScrapedMeta(r, c)] /\ UNCHANGED <<up, faults>>
    BY <1>2, SavedThen DEF Upserted
  <2>2. \A q \in Resources \ {r} : file'[EditFile(q)] = file[EditFile(q)]
    BY <1>2, FilesApart DEF TypeOK
  <2>3. file'[EditFile(r)] = e
    BY <1>2, FilesApart DEF TypeOK
  <2>4. e = IF file[EditFile(r)] = c THEN Absent ELSE file[EditFile(r)]
    BY <1>2 DEF OverlayAfterScrape
  <2>5. ScrapedMeta(r, c).edited <=> e # Absent
    BY <2>4 DEF ScrapedMeta, EditedAfterScrape
  <2>6. up
    BY DEF Save
  <2> QED BY <2>1, <2>2, <2>3, <2>5, <2>6, FlagOfOne DEF HasOverlay
<1> QED BY <1>1, <1>2, NothingFails DEF Save, WriteCut

\* Keeping and discarding a local copy set the flag.
LEMMA FlagEdits ==
  ASSUME TypeOK, NoAlias, FlagInv, faults' = 0, NEW r \in Resources,
         ClearEdit(r) \/ \E c \in Contents : SaveEdit(r, c)
  PROVE  FlagInv'
<1>1. up
  BY DEF ClearEdit, SaveEdit
<1>2. ASSUME NEW o, NEW m, Listed(r), file' = [file EXCEPT ![EditFile(r)] = o],
             SaveIndexLocked([index EXCEPT ![r] = m], dirty), m.edited <=> o # Absent
      PROVE  FlagInv'
  <2>1. index' = [index EXCEPT ![r] = m] /\ UNCHANGED <<up, faults>>
    BY <1>2, SavedThen
  <2>2. /\ \A q \in Resources \ {r} : file'[EditFile(q)] = file[EditFile(q)]
        /\ file'[EditFile(r)] = o
    BY <1>2, FilesApart DEF TypeOK
  <2> QED BY <1>1, <1>2, <2>1, <2>2, FlagOfOne DEF HasOverlay
<1>3. ASSUME NEW c \in Contents, SaveEdit(r, c) PROVE FlagInv'
  <2>1. Listed(r) /\ index[r] \in Meta /\ c # Absent
    BY <1>3, SentinelAssumption DEF SaveEdit, TypeOK, Index, Listed
  <2>2. PICK e \in BOOLEAN, o \in {c, Absent} :
          /\ file' = [file EXCEPT ![EditFile(r)] = o]
          /\ SaveIndexLocked([index EXCEPT ![r].edited = e], dirty)
          /\ e <=> o # Absent
    BY <1>3, <2>1, NothingFails DEF SaveEdit, RemoveFails, OverlayRemoved, DiesBeforeIndex, WriteCut
  <2> DEFINE m == [index[r] EXCEPT !.edited = e]
  <2>3. m.edited = e
    BY <2>1 DEF Meta
  <2>4. [index EXCEPT ![r].edited = e] = [index EXCEPT ![r] = m]
    BY DEF TypeOK, Index
  <2> QED BY <1>2, <2>1, <2>2, <2>3, <2>4
<1>4. CASE ClearEdit(r)
  <2>1. file' = [file EXCEPT ![EditFile(r)] = Absent]
    BY <1>4, NothingFails DEF ClearEdit, RemoveFails, OverlayRemoved
  <2>2. CASE Listed(r)
    <3> DEFINE m == [index[r] EXCEPT !.edited = FALSE, !.checked = FALSE, !.warnings = NoWarnings]
               i == [index EXCEPT ![r].edited = FALSE, ![r].checked = FALSE, ![r].warnings = NoWarnings]
    <3>1. m.edited = FALSE
      BY <2>2 DEF Listed, TypeOK, Index, Meta
    <3>2. i = [index EXCEPT ![r] = m]
      BY DEF TypeOK, Index
    <3>3. SaveIndexLocked(i, dirty)
      BY <1>4, <2>2, NothingFails DEF ClearEdit, RemoveFails, DiesBeforeIndex
    <3> QED BY <1>2, <2>1, <2>2, <3>1, <3>2, <3>3
  <2>3. CASE ~Listed(r)
    <3>1. UNCHANGED <<up, index, faults>>
      BY <1>4, <2>3, NothingFails DEF ClearEdit, RemoveFails
    <3>2. \A q \in Resources \ {r} : file'[EditFile(q)] = file[EditFile(q)]
      BY <2>1, FilesApart DEF TypeOK
    <3> QED BY <1>1, <2>3, <3>1, <3>2 DEF FlagInv, Listed, HasOverlay
  <2> QED BY <2>2, <2>3
<1> QED BY <1>3, <1>4

\* Deleting takes the entry and the overlay.
LEMMA FlagDelete ==
  ASSUME TypeOK, NoAlias, FlagInv, faults' = 0, NEW r \in Resources, Delete(r)
  PROVE  FlagInv'
<1>1. up /\ file' = [file EXCEPT ![ManifestFile(r)] = Absent, ![EditFile(r)] = Absent]
  BY NothingFails DEF Delete, RemoveFails
<1>2. \A q \in Resources \ {r} : file'[EditFile(q)] = file[EditFile(q)]
  BY <1>1, FilesApart DEF TypeOK
<1>3. CASE Listed(r)
  <2>1. SaveIndexLocked([index EXCEPT ![r] = NoMeta], dirty)
    BY <1>1, <1>3, NothingFails DEF Delete, RemoveFails, DiesBeforeIndex
  <2>2. index' = [index EXCEPT ![r] = NoMeta] /\ UNCHANGED <<up, faults>>
    BY <2>1, SavedThen
  <2> QED BY <1>1, <1>2, <2>2, FlagOfOne
<1>4. CASE ~Listed(r)
  <2>1. UNCHANGED <<up, index, faults>>
    BY <1>4, NothingFails DEF Delete, RemoveFails
  <2> QED BY <1>1, <1>2, <1>4, <2>1 DEF FlagInv, Listed, HasOverlay
<1> QED BY <1>3, <1>4

\* The first start finds nothing.
LEMMA FlagNewStore == ASSUME TypeOK, FlagInv, faults' = 0, NewStore PROVE FlagInv'
<1>1. ~up /\ up' /\ UNCHANGED <<file, faults>>
  BY NothingFails DEF NewStore
<1>2. indexFile = EmptyIndex /\ \A r \in Resources : file[ManifestFile(r)] = Absent
  BY <1>1 DEF FlagInv, Files, ManifestFile
<1>3. \A r \in Resources : index'[r] = NoMeta
  BY <1>2, NothingFails DEF NewStore, Unlisted, EmptyIndex
<1> QED BY <1>1, <1>3 DEF FlagInv, Listed

\* Every step keeps the flags right.
LEMMA FlagInductive ==
  ASSUME TypeOK, NoAlias, FlagInv, "error" \notin Faults, [Next]_vars
  PROVE  FlagInv'
<1> SUFFICES ASSUME faults' = 0 PROVE FlagInv'
  BY DEF FlagInv
<1>1. CASE NewStore
  BY <1>1, FlagNewStore
<1>2. ASSUME NEW r \in Resources, NEW c \in Contents, Save(r, c) PROVE FlagInv'
  BY <1>2, FlagSave
<1>3. ASSUME NEW r \in Resources, ClearEdit(r) \/ \E c \in Contents : SaveEdit(r, c) PROVE FlagInv'
  BY <1>3, FlagEdits
<1>4. ASSUME NEW r \in Resources, Delete(r) PROVE FlagInv'
  BY <1>4, FlagDelete
<1>5. ASSUME NEW m, up, SaveIfChanged(m),
             \A r \in Resources : m[r] # NoMeta => Listed(r) /\ m[r].edited = index[r].edited
      PROVE  FlagInv'
  <2>1. index' = m /\ UNCHANGED <<up, faults, file>>
    BY <1>5, SavedThen DEF SaveIfChanged
  <2> QED BY <1>5, <2>1, FlagsStay DEF Listed
<1>6. ASSUME NEW u \in Batches(Verdicts), ApplyStatuses(u) PROVE FlagInv'
  <2> DEFINE m == [r \in Resources |->
         IF r \in DOMAIN u /\ Listed(r) THEN [index[r] EXCEPT !.status = u[r]] ELSE index[r]]
  <2>1. \A r \in Resources : m[r] # NoMeta => Listed(r) /\ m[r].edited = index[r].edited
    BY DEF Listed, TypeOK, Index, Meta
  <2>2. up /\ SaveIfChanged(m)
    BY <1>6 DEF ApplyStatuses
  <2> HIDE DEF m
  <2> QED BY <1>5, <2>1, <2>2
<1>7. ASSUME NEW u \in Batches(Warnings), ApplyWarnings(u) PROVE FlagInv'
  <2> DEFINE m == [r \in Resources |->
         IF r \in DOMAIN u /\ Listed(r)
           THEN [index[r] EXCEPT !.warnings = u[r], !.checked = TRUE] ELSE index[r]]
  <2>1. \A r \in Resources : m[r] # NoMeta => Listed(r) /\ m[r].edited = index[r].edited
    BY DEF Listed, TypeOK, Index, Meta
  <2>2. up /\ SaveIfChanged(m)
    BY <1>7 DEF ApplyWarnings
  <2> HIDE DEF m
  <2> QED BY <1>5, <2>1, <2>2
<1>8. CASE Flush \/ UpdateScrapeStats
  BY <1>8, SavedThen, FlagsStay DEF Flush, UpdateScrapeStats, Listed
<1>9. CASE Kill
  BY <1>9, NothingFails DEF Kill
<1>10. CASE UNCHANGED vars
  BY <1>10 DEF vars, FlagInv, Listed, HasOverlay
<1> QED BY <1>1, <1>2, <1>3, <1>4, <1>6, <1>7, <1>8, <1>9, <1>10 DEF Next

\* Until something fails, the flag of an entry says whether Get and a deploy will
\* use a local copy.
THEOREM EditedFlags ==
  ASSUME NoAlias, "error" \notin Faults
  PROVE  Spec => []EditedFlagTracksOverlay
<1>1. Init => TypeOK /\ FlagInv
  BY TypeInit DEF Init, FlagInv
<1>2. TypeOK /\ FlagInv /\ [Next]_vars => TypeOK' /\ FlagInv'
  BY TypeInductive, FlagInductive
<1>3. FlagInv => EditedFlagTracksOverlay
  BY DEF FlagInv, EditedFlagTracksOverlay
<1> QED BY <1>1, <1>2, <1>3, PTL DEF Spec
=============================================================================
