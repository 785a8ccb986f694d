-------------------------- MODULE ManifestStoreProofs --------------------------
(***************************************************************************)
(* Proofs about ManifestStore for every set of resources, contents and     *)
(* verdicts, every flush threshold and any number of faults.               *)
(***************************************************************************)
EXTENDS ManifestStore, FiniteSetTheorems, TLAPS

------------------------------------------------------------------------------
\* Lemmas about the entries and the files.

\* Overlays are files of the data directory.
LEMMA EditFileType == \A r \in Resources : EditFile(r) \in Files
  BY DEF Files, EditFile

\* What Save puts in the index is an entry.
LEMMA ScrapedMetaType ==
  ASSUME TypeOK, NEW r \in Resources, NEW c \in Contents
  PROVE  ScrapedMeta(r, c) \in Meta
<1>1. EditedAfterScrape(r, c) \in BOOLEAN
  BY DEF EditedAfterScrape
<1>2. KeptStatus(r) \in Verdicts \cup {NoStatus}
  BY DEF KeptStatus, StatusIn, TypeOK, Index, Meta
<1>3. WarningsOf[c] \in Warnings /\ NoWarnings \in Warnings
  BY DEF Warnings
<1> QED BY <1>1, <1>2, <1>3 DEF ScrapedMeta, Meta

\* An index with one entry replaced is an index.
LEMMA IndexExcept ==
  ASSUME NEW i \in Index, NEW r \in Resources, NEW m \in Meta \cup {NoMeta}
  PROVE  [i EXCEPT ![r] = m] \in Index
BY DEF Index

\* The empty index is one.
LEMMA EmptyIndexType == EmptyIndex \in Index
BY DEF EmptyIndex, Index

\* A crash leaves variables of their types.
LEMMA CrashType ==
  ASSUME TypeOK, Crash
  PROVE  up' \in BOOLEAN /\ index' \in Index /\ dirty' \in Nat /\ faults' \in 0..MaxFaults
<1>1. up' \in BOOLEAN /\ index' \in Index /\ dirty' \in Nat
  BY EmptyIndexType DEF Crash
<1>2. faults' \in 0..MaxFaults
  BY BoundsAssumption DEF TypeOK, Crash, Fault
<1> QED BY <1>1, <1>2

\* Saving an index leaves variables of their types.
LEMMA SaveIndexType ==
  ASSUME TypeOK, NEW m \in Index, NEW n \in Nat, SaveIndexLocked(m, n)
  PROVE  /\ up' \in BOOLEAN /\ index' \in Index /\ dirty' \in Nat
         /\ indexFile' \in Index \cup {Torn} /\ faults' \in 0..MaxFaults
<1>1. CASE index' = m /\ indexFile' = m /\ dirty' = 0 /\ UNCHANGED <<up, faults>>
  BY <1>1 DEF TypeOK
<1>2. CASE Crash /\ (IndexCut \/ indexFile' = m)
  BY <1>2, CrashType DEF TypeOK, IndexCut
<1>3. CASE Fault("error") /\ IndexCut /\ index' = m /\ dirty' = n /\ UNCHANGED up
  BY <1>3, BoundsAssumption DEF TypeOK, IndexCut, Fault
<1> QED BY <1>1, <1>2, <1>3 DEF SaveIndexLocked

\* What stays in memory or on disk when a method is cut short has its type.
LEMMA FailsType ==
  ASSUME TypeOK, Fails
  PROVE  up' \in BOOLEAN /\ index' \in Index /\ dirty' \in Nat /\ faults' \in 0..MaxFaults
BY BoundsAssumption DEF TypeOK, Fails, Fault

\* A write that does not complete keeps the variables in their types.
LEMMA WriteCutType ==
  ASSUME TypeOK, NEW f \in Files, WriteCut(f)
  PROVE  TypeOK'
<1>1. file' \in [Files -> Contents \cup {Absent, Torn}]
  BY DEF TypeOK, WriteCut
<1>2. up' \in BOOLEAN /\ index' \in Index /\ dirty' \in Nat /\ faults' \in 0..MaxFaults
  BY CrashType, FailsType DEF WriteCut
<1>3. indexFile' \in Index \cup {Torn}
  BY DEF TypeOK, WriteCut
<1> QED BY <1>1, <1>2, <1>3 DEF TypeOK

\* The last step of SaveEdit, ClearEdit and Delete.
LEMMA IndexStepType ==
  ASSUME TypeOK, NEW m \in Index,
         DiesBeforeIndex \/ SaveIndexLocked(m, dirty)
  PROVE  /\ up' \in BOOLEAN /\ index' \in Index /\ dirty' \in Nat
         /\ indexFile' \in Index \cup {Torn} /\ faults' \in 0..MaxFaults
<1>1. CASE DiesBeforeIndex
  BY <1>1, CrashType DEF DiesBeforeIndex, TypeOK
<1>2. CASE SaveIndexLocked(m, dirty)
  <2>1. dirty \in Nat
    BY DEF TypeOK
  <2> QED BY <1>2, <2>1, SaveIndexType
<1> QED BY <1>1, <1>2

\* A listed entry is one, whatever its flag is set to.
LEMMA EditedMetaType ==
  ASSUME TypeOK, NEW r \in Resources, Listed(r), NEW e \in BOOLEAN
  PROVE  [index EXCEPT ![r].edited = e] \in Index
<1>1. index[r] \in Meta
  BY DEF TypeOK, Index, Listed
<1>2. [index[r] EXCEPT !.edited = e] \in Meta
  BY <1>1 DEF Meta
<1>3. [index EXCEPT ![r].edited = e] = [index EXCEPT ![r] = [index[r] EXCEPT !.edited = e]]
  BY DEF TypeOK, Index
<1> QED BY <1>2, <1>3, IndexExcept DEF TypeOK

\* Opening the store keeps the types: a recovered entry is a meta.
LEMMA NewStoreType ==
  ASSUME TypeOK, NewStore
  PROVE  TypeOK'
<1> DEFINE m == [r \in Resources |-> IF r \in Unlisted(indexFile) THEN RecoveredMeta ELSE indexFile[r]]
<1>1. RecoveredMeta \in Meta
  BY DEF RecoveredMeta, Meta, Warnings
<1>2. indexFile \in Index
  BY DEF NewStore, TypeOK
<1>3. m \in Index
  BY <1>1, <1>2 DEF Index
<1>4. file' \in [Files -> Contents \cup {Absent, Torn}]
  BY DEF NewStore, TypeOK
<1>5. CASE up' = TRUE /\ index' = m /\ dirty' = 0 /\ indexFile' = m /\ UNCHANGED faults
  BY <1>3, <1>4, <1>5 DEF TypeOK
<1>6. CASE (Crash \/ Fails) /\ (IndexCut \/ indexFile' = m)
  <2>1. indexFile' \in Index \cup {Torn}
    BY <1>6, <1>2, <1>3 DEF IndexCut
  <2> QED BY <1>6, <1>4, <2>1, CrashType, FailsType DEF TypeOK
<1> QED BY <1>5, <1>6 DEF NewStore

\* Save keeps the types, however far it gets.
LEMMA SaveType ==
  ASSUME TypeOK, NEW r \in Resources, NEW c \in Contents, Save(r, c)
  PROVE  TypeOK'
<1>1. r \in Files /\ EditFile(r) \in Files /\ ManifestFile(r) = r
  BY EditFileType DEF Files, ManifestFile
<1>2. CASE WriteCut(ManifestFile(r))
  BY <1>1, <1>2, WriteCutType
<1>3. CASE Crash /\ ManifestOnly(r, c)
  <2>1. file' \in [Files -> Contents \cup {Absent, Torn}] /\ indexFile' \in Index \cup {Torn}
    BY <1>3 DEF ManifestOnly, TypeOK
  <2> QED BY <1>3, <2>1, CrashType DEF TypeOK
<1>4. CASE ManifestOnly(r, c) /\ UNCHANGED <<up, index, dirty, faults>>
  BY <1>4 DEF ManifestOnly, TypeOK
<1>5. ASSUME NEW e \in OverlayAfterScrape(r, c),
             file' = [file EXCEPT ![ManifestFile(r)] = c, ![EditFile(r)] = e],
             Upserted(r, c)
      PROVE  TypeOK'
  <2> DEFINE m == [index EXCEPT ![r] = ScrapedMeta(r, c)]
  <2>1. e \in Contents \cup {Absent, Torn}
    BY <1>1, <1>5 DEF OverlayAfterScrape, TypeOK
  <2>2. file' \in [Files -> Contents \cup {Absent, Torn}]
    BY <1>5, <2>1 DEF TypeOK
  <2>3. m \in Index
    BY ScrapedMetaType, IndexExcept DEF TypeOK
  <2>4. dirty + 1 \in Nat
    BY DEF TypeOK
  <2>5. CASE SaveIndexLocked(m, dirty + 1)
    BY <2>2, <2>3, <2>4, <2>5, SaveIndexType DEF TypeOK
  <2>6. CASE index' = m /\ dirty' = dirty + 1 /\ UNCHANGED <<up, indexFile, faults>>
    BY <2>2, <2>3, <2>4, <2>6 DEF TypeOK
  <2> QED BY <1>5, <2>5, <2>6 DEF Upserted
<1> QED BY <1>2, <1>3, <1>4, <1>5 DEF Save

\* SaveEdit keeps the types.
LEMMA SaveEditType ==
  ASSUME TypeOK, NEW r \in Resources, NEW c \in Contents, SaveEdit(r, c)
  PROVE  TypeOK'
<1>1. EditFile(r) \in Files /\ Listed(r)
  BY EditFileType DEF SaveEdit
<1>2. CASE RemoveFails
  BY <1>2, FailsType DEF RemoveFails, TypeOK
<1>3. CASE WriteCut(EditFile(r))
  BY <1>1, <1>3, WriteCutType
<1>4. ASSUME NEW e \in BOOLEAN, NEW o \in Contents \cup {Absent},
             file' = [file EXCEPT ![EditFile(r)] = o],
             DiesBeforeIndex \/ SaveIndexLocked([index EXCEPT ![r].edited = e], dirty)
      PROVE  TypeOK'
  <2>1. file' \in [Files -> Contents \cup {Absent, Torn}]
    BY <1>4 DEF TypeOK
  <2>2. [index EXCEPT ![r].edited = e] \in Index
    BY <1>1, EditedMetaType
  <2> QED BY <1>4, <2>1, <2>2, IndexStepType DEF TypeOK
<1> QED BY <1>2, <1>3, <1>4 DEF SaveEdit, OverlayRemoved

\* ClearEdit keeps the types: it unchecks an entry and empties its warnings at once.
LEMMA ClearEditType ==
  ASSUME TypeOK, NEW r \in Resources, ClearEdit(r)
  PROVE  TypeOK'
<1> DEFINE m == [index EXCEPT ![r].edited = FALSE, ![r].checked = FALSE, ![r].warnings = NoWarnings]
<1>1. EditFile(r) \in Files
  BY EditFileType
<1>2. CASE RemoveFails
  BY <1>2, FailsType DEF RemoveFails, TypeOK
<1>3. CASE OverlayRemoved(r) /\ ~Listed(r) /\ UNCHANGED <<up, index, dirty, indexFile, faults>>
  BY <1>3 DEF OverlayRemoved, TypeOK
<1>4. CASE OverlayRemoved(r) /\ Listed(r) /\ (DiesBeforeIndex \/ SaveIndexLocked(m, dirty))
  <2>1. file' \in [Files -> Contents \cup {Absent, Torn}]
    BY <1>4 DEF OverlayRemoved, TypeOK
  <2> DEFINE e == [index[r] EXCEPT !.edited = FALSE, !.checked = FALSE, !.warnings = NoWarnings]
  <2>2. e \in Meta
    BY <1>4 DEF Listed, TypeOK, Index, Meta, Warnings
  <2>3. m = [index EXCEPT ![r] = e]
    BY DEF TypeOK, Index
  <2>4. m \in Index
    BY <2>2, <2>3, IndexExcept DEF TypeOK
  <2> QED BY <1>4, <2>1, <2>4, IndexStepType DEF TypeOK
<1> QED BY <1>2, <1>3, <1>4 DEF ClearEdit

\* Delete keeps the types.
LEMMA DeleteType ==
  ASSUME TypeOK, NEW r \in Resources, Delete(r)
  PROVE  TypeOK'
<1>1. r \in Files /\ EditFile(r) \in Files /\ ManifestFile(r) = r
  BY EditFileType DEF Files, ManifestFile
<1>2. CASE RemoveFails
  BY <1>2, FailsType DEF RemoveFails, TypeOK
<1>3. CASE (Crash \/ Fails) /\ ManifestRemovedOnly(r)
  <2>1. file' \in [Files -> Contents \cup {Absent, Torn}] /\ indexFile' \in Index \cup {Torn}
    BY <1>3 DEF ManifestRemovedOnly, TypeOK
  <2> QED BY <1>3, <2>1, CrashType, FailsType DEF TypeOK
<1>4. CASE /\ file' = [file EXCEPT ![ManifestFile(r)] = Absent, ![EditFile(r)] = Absent]
           /\ \/ DiesBeforeIndex \/ SaveIndexLocked([index EXCEPT ![r] = NoMeta], dirty)
              \/ UNCHANGED <<up, index, dirty, indexFile, faults>>
  <2>1. file' \in [Files -> Contents \cup {Absent, Torn}]
    BY <1>4 DEF TypeOK
  <2>2. [index EXCEPT ![r] = NoMeta] \in Index
    BY IndexExcept DEF TypeOK
  <2>3. CASE DiesBeforeIndex \/ SaveIndexLocked([index EXCEPT ![r] = NoMeta], dirty)
    BY <2>1, <2>2, <2>3, IndexStepType DEF TypeOK
  <2>4. CASE UNCHANGED <<up, index, dirty, indexFile, faults>>
    BY <2>1, <2>4 DEF TypeOK
  <2> QED BY <1>4, <2>3, <2>4
<1> QED BY <1>2, <1>3, <1>4 DEF Delete

\* Writing back a well-typed index keeps the types.
LEMMA SaveIfChangedType ==
  ASSUME TypeOK, NEW m \in Index, SaveIfChanged(m)
  PROVE  TypeOK'
<1>1. file' \in [Files -> Contents \cup {Absent, Torn}]
  BY DEF SaveIfChanged, TypeOK
<1>2. CASE UNCHANGED <<up, index, dirty, indexFile, faults>>
  BY <1>1, <1>2 DEF TypeOK
<1>3. CASE SaveIndexLocked(m, dirty)
  BY <1>1, <1>3, IndexStepType DEF TypeOK
<1> QED BY <1>2, <1>3 DEF SaveIfChanged

\* ApplyStatuses keeps the types for any batch of verdicts.
LEMMA ApplyStatusesType ==
  ASSUME TypeOK, NEW updates, \A r \in DOMAIN updates : updates[r] \in Verdicts, ApplyStatuses(updates)
  PROVE  TypeOK'
<1> DEFINE m == [r \in Resources |->
       IF r \in DOMAIN updates /\ Listed(r) THEN [index[r] EXCEPT !.status = updates[r]]
                                            ELSE index[r]]
<1>1. ASSUME NEW r \in Resources PROVE m[r] \in Meta \cup {NoMeta}
  <2>1. CASE r \in DOMAIN updates /\ Listed(r)
    <3>1. updates[r] \in Verdicts
      BY <2>1
    <3>2. index[r] \in Meta
      BY <2>1 DEF Listed, TypeOK, Index
    <3> QED BY <2>1, <3>1, <3>2 DEF Meta
  <2>2. CASE ~(r \in DOMAIN updates /\ Listed(r))
    BY <2>2 DEF TypeOK, Index
  <2> QED BY <2>1, <2>2
<1>2. m \in Index
  BY <1>1 DEF Index
<1> QED BY <1>2, SaveIfChangedType DEF ApplyStatuses

\* ApplyWarnings keeps the types for any batch: what carries warnings is checked.
LEMMA ApplyWarningsType ==
  ASSUME TypeOK, NEW updates, \A r \in DOMAIN updates : updates[r] \in Warnings, ApplyWarnings(updates)
  PROVE  TypeOK'
<1> DEFINE m == [r \in Resources |->
       IF r \in DOMAIN updates /\ Listed(r)
         THEN [index[r] EXCEPT !.warnings = updates[r], !.checked = TRUE]
         ELSE index[r]]
<1>1. ASSUME NEW r \in Resources PROVE m[r] \in Meta \cup {NoMeta}
  <2>1. CASE r \in DOMAIN updates /\ Listed(r)
    <3>1. updates[r] \in Warnings
      BY <2>1
    <3>2. index[r] \in Meta
      BY <2>1 DEF Listed, TypeOK, Index
    <3> QED BY <2>1, <3>1, <3>2 DEF Meta
  <2>2. CASE ~(r \in DOMAIN updates /\ Listed(r))
    BY <2>2 DEF TypeOK, Index
  <2> QED BY <2>1, <2>2
<1>2. m \in Index
  BY <1>1 DEF Index
<1> QED BY <1>2, SaveIfChangedType DEF ApplyWarnings

\* Flush and UpdateScrapeStats write the index as it is.
LEMMA IndexWriteType ==
  ASSUME TypeOK, SaveIndexLocked(index, dirty), UNCHANGED file
  PROVE  TypeOK'
<1>1. index \in Index /\ dirty \in Nat
  BY DEF TypeOK
<1> QED BY <1>1, SaveIndexType DEF TypeOK

\* Every step of the store keeps the types.
LEMMA TypeInductive ==
  ASSUME TypeOK, [Next]_vars
  PROVE  TypeOK'
<1>1. CASE NewStore
  BY <1>1, NewStoreType
<1>2. ASSUME NEW r \in Resources, NEW c \in Contents, Save(r, c) PROVE TypeOK'
  BY <1>2, SaveType
<1>3. ASSUME NEW r \in Resources, NEW c \in Contents, SaveEdit(r, c) PROVE TypeOK'
  BY <1>3, SaveEditType
<1>4. ASSUME NEW r \in Resources, ClearEdit(r) PROVE TypeOK'
  BY <1>4, ClearEditType
<1>5. ASSUME NEW r \in Resources, Delete(r) PROVE TypeOK'
  BY <1>5, DeleteType
<1>6. ASSUME NEW u \in Batches(Verdicts), ApplyStatuses(u) PROVE TypeOK'
  BY <1>6, ApplyStatusesType DEF Batches
<1>7. ASSUME NEW u \in Batches(Warnings), ApplyWarnings(u) PROVE TypeOK'
  BY <1>7, ApplyWarningsType DEF Batches
<1>8. CASE Flush
  BY <1>8, IndexWriteType DEF Flush
<1>9. CASE UpdateScrapeStats
  BY <1>9, IndexWriteType DEF UpdateScrapeStats
<1>10. CASE Kill
  BY <1>10, CrashType DEF Kill, TypeOK
<1>11. CASE UNCHANGED vars
  BY <1>11 DEF vars, TypeOK
<1> QED BY <1>1, <1>2, <1>3, <1>4, <1>5, <1>6, <1>7, <1>8, <1>9, <1>10, <1>11 DEF Next

\* An empty data directory and no process are well typed.
LEMMA TypeInit == Init => TypeOK
<1> SUFFICES ASSUME Init PROVE TypeOK
  OBVIOUS
<1>1. up \in BOOLEAN /\ index \in Index /\ indexFile \in Index \cup {Torn}
  BY EmptyIndexType DEF Init
<1>2. dirty \in Nat /\ faults \in 0..MaxFaults
  BY BoundsAssumption DEF Init
<1>3. file \in [Files -> Contents \cup {Absent, Torn}]
  BY DEF Init
<1> QED BY <1>1, <1>2, <1>3 DEF TypeOK

\* Type correctness of the store under every combination of faults; that an
\* unchecked entry carries no warnings is part of it.
THEOREM Typing == Spec => []TypeOK
<1> QED BY TypeInit, TypeInductive, PTL DEF Spec

------------------------------------------------------------------------------
\* Durability: without failing operations that the process survives, memory
\* and disk differ only by what Save leaves unflushed.

\* A status in memory is on disk, and a running process has a readable index.
DurableInv == up => indexFile \in Index /\ VerdictsAreDurable

\* When no operation fails, an index write leaves memory and disk equal, or kills the process.
LEMMA DurableSaveIndex ==
  ASSUME "error" \notin Faults, TypeOK', NEW m, NEW n, SaveIndexLocked(m, n)
  PROVE  DurableInv'
<1>1. CASE index' = m /\ indexFile' = m
  BY <1>1 DEF TypeOK, DurableInv, VerdictsAreDurable, StatusIn
<1>2. CASE Crash
  BY <1>2 DEF Crash, DurableInv
<1> QED BY <1>1, <1>2 DEF SaveIndexLocked, Fault

\* A step that touches neither the index nor its file keeps the statuses durable.
LEMMA DurableUnchanged ==
  ASSUME DurableInv, UNCHANGED <<up, index, indexFile>>
  PROVE  DurableInv'
BY DEF DurableInv, VerdictsAreDurable, StatusIn

\* Every step keeps the statuses durable: what does not write the index at once (a Save below the
\* threshold) keeps the status of its entry.
LEMMA DurableInductive ==
  ASSUME TypeOK, DurableInv, "error" \notin Faults, [Next]_vars
  PROVE  DurableInv'
<1> USE DEF Fault
<1>0. TypeOK' /\ (Crash => DurableInv') /\ ~Fails
  BY TypeInductive DEF Crash, DurableInv, Fails
<1>1. CASE NewStore
  <2> DEFINE m == [r \in Resources |-> IF r \in Unlisted(indexFile) THEN RecoveredMeta ELSE indexFile[r]]
  <2>1. CASE up' = TRUE /\ index' = m /\ indexFile' = m
    <3>1. indexFile' \in Index
      BY <1>0, <2>1 DEF TypeOK
    <3> QED BY <2>1, <3>1 DEF DurableInv, VerdictsAreDurable, StatusIn
  <2> QED BY <1>0, <1>1, <2>1 DEF NewStore
<1>2. ASSUME NEW r \in Resources, NEW c \in Contents, Save(r, c) PROVE DurableInv'
  <2> DEFINE m == [index EXCEPT ![r] = ScrapedMeta(r, c)]
  <2>1. m \in Index /\ ScrapedMeta(r, c) \in Meta
    BY ScrapedMetaType, IndexExcept DEF TypeOK
  <2>2. CASE index' = m /\ UNCHANGED <<up, indexFile>>
    <3>1. ScrapedMeta(r, c).status = StatusIn(index, r)
      BY DEF ScrapedMeta, KeptStatus
    <3>2. \A q \in Resources : StatusIn(index', q) = StatusIn(index, q)
      BY <2>1, <2>2, <3>1, SentinelAssumption DEF StatusIn, TypeOK, Index
    <3> QED BY <2>2, <3>2 DEF DurableInv, VerdictsAreDurable, StatusIn
  <2>3. CASE SaveIndexLocked(m, dirty + 1)
    BY <1>0, <2>3, DurableSaveIndex
  <2>4. CASE UNCHANGED <<up, index, indexFile>>
    BY <2>4, DurableUnchanged
  <2> QED BY <1>0, <1>2, <2>2, <2>3, <2>4 DEF Save, WriteCut, ManifestOnly, Upserted
<1>3. ASSUME NEW r \in Resources, NEW c \in Contents, SaveEdit(r, c) PROVE DurableInv'
  BY <1>0, <1>3, DurableSaveIndex DEF SaveEdit, RemoveFails, WriteCut, DiesBeforeIndex
<1>4. ASSUME NEW r \in Resources, ClearEdit(r) PROVE DurableInv'
  BY <1>0, <1>4, DurableSaveIndex, DurableUnchanged DEF ClearEdit, RemoveFails, DiesBeforeIndex
<1>5. ASSUME NEW r \in Resources, Delete(r) PROVE DurableInv'
  BY <1>0, <1>5, DurableSaveIndex, DurableUnchanged DEF Delete, RemoveFails, DiesBeforeIndex
<1>6. ASSUME NEW u \in Batches(Verdicts), ApplyStatuses(u) PROVE DurableInv'
  BY <1>0, <1>6, DurableSaveIndex, DurableUnchanged DEF ApplyStatuses, SaveIfChanged
<1>7. ASSUME NEW u \in Batches(Warnings), ApplyWarnings(u) PROVE DurableInv'
  BY <1>0, <1>7, DurableSaveIndex, DurableUnchanged DEF ApplyWarnings, SaveIfChanged
<1>8. CASE Flush \/ UpdateScrapeStats
  BY <1>0, <1>8, DurableSaveIndex DEF Flush, UpdateScrapeStats
<1>9. CASE Kill
  BY <1>0, <1>9 DEF Kill
<1>10. CASE UNCHANGED vars
  BY <1>10, DurableUnchanged DEF vars
<1> QED BY <1>1, <1>2, <1>3, <1>4, <1>5, <1>6, <1>7, <1>8, <1>9, <1>10 DEF Next

\* A status a comparison has written survives any crash, for every flush
\* threshold, unless a failing index write leaves it in memory only.
THEOREM DurableVerdicts == ASSUME "error" \notin Faults PROVE Spec => []VerdictsAreDurable
<1>1. Init => TypeOK /\ DurableInv
  BY TypeInit DEF Init, DurableInv
<1>2. TypeOK /\ DurableInv /\ [Next]_vars => TypeOK' /\ DurableInv'
  BY TypeInductive, DurableInductive
<1>3. DurableInv => VerdictsAreDurable
  BY DEF DurableInv, VerdictsAreDurable
<1> QED BY <1>1, <1>2, <1>3, PTL DEF Spec

------------------------------------------------------------------------------
\* The lag of the index on disk.

Lagging == {r \in Resources : index[r] # indexFile[r]}

\* The bound, and what makes its cardinality meaningful.
LagInv == up => /\ dirty < FlushEvery
                /\ IsFiniteSet(Lagging)
                /\ Cardinality(Lagging) <= dirty

\* After an index write nothing lags.
LEMMA LagNone ==
  ASSUME index' = indexFile', dirty' = 0
  PROVE  LagInv'
<1>1. Lagging' = {}
  BY DEF Lagging
<1> QED BY <1>1, FS_EmptySet, BoundsAssumption DEF LagInv

\* A step that touches neither the index, its file nor dirty keeps the lag.
LEMMA LagUnchanged ==
  ASSUME LagInv, UNCHANGED <<up, index, indexFile, dirty>>
  PROVE  LagInv'
BY DEF LagInv, Lagging

\* When no operation fails, an index write ends the lag, or kills the process.
LEMMA LagSaveIndex ==
  ASSUME "error" \notin Faults, NEW m, NEW n, SaveIndexLocked(m, n)
  PROVE  LagInv'
<1>1. CASE index' = m /\ indexFile' = m /\ dirty' = 0
  BY <1>1, LagNone
<1>2. CASE Crash
  BY <1>2 DEF Crash, LagInv
<1> QED BY <1>1, <1>2 DEF SaveIndexLocked, Fault

\* One entry changed in memory adds at most itself to those that lag.
LEMMA LagOneMore ==
  ASSUME TypeOK, LagInv, up, NEW r \in Resources, NEW m,
         index' = [index EXCEPT ![r] = m], dirty' = dirty + 1,
         dirty + 1 < FlushEvery, UNCHANGED <<up, indexFile>>
  PROVE  LagInv'
<1>1. IsFiniteSet(Lagging) /\ Cardinality(Lagging) <= dirty
  BY DEF LagInv
<1>2. IsFiniteSet(Lagging \cup {r}) /\ Cardinality(Lagging \cup {r}) <= Cardinality(Lagging) + 1
  <2> DEFINE L == Lagging
  <2>1. IsFiniteSet(L)
    BY <1>1
  <2>2. Cardinality(L) \in Nat
    BY <2>1, FS_CardinalityType
  <2> HIDE DEF L
  <2>3. IsFiniteSet(L \cup {r}) /\ Cardinality(L \cup {r}) = IF r \in L THEN Cardinality(L) ELSE Cardinality(L) + 1
    BY <2>1, FS_AddElement
  <2>4. Cardinality(L \cup {r}) <= Cardinality(L) + 1
    BY <2>2, <2>3
  <2> QED BY <2>3, <2>4 DEF L
<1>3. Lagging' \subseteq Lagging \cup {r}
  BY DEF Lagging, TypeOK, Index
<1>4. IsFiniteSet(Lagging') /\ Cardinality(Lagging') <= Cardinality(Lagging \cup {r})
  BY <1>2, <1>3, FS_Subset
<1>5. /\ Cardinality(Lagging') \in Nat /\ Cardinality(Lagging \cup {r}) \in Nat
      /\ Cardinality(Lagging) \in Nat /\ dirty \in Nat
  BY <1>1, <1>2, <1>4, FS_CardinalityType DEF TypeOK
<1>6. Cardinality(Lagging') <= dirty + 1
  BY <1>1, <1>2, <1>4, <1>5
<1> QED BY <1>4, <1>6 DEF LagInv

\* Every step keeps the lag bounded: only Save adds an entry to it, and adds one to dirty.
LEMMA LagInductive ==
  ASSUME TypeOK, LagInv, "error" \notin Faults, [Next]_vars
  PROVE  LagInv'
<1>0. (Crash => LagInv') /\ ~Fails
  BY DEF Crash, Fails, Fault, LagInv
<1>1. CASE NewStore
  BY <1>0, <1>1, LagNone DEF NewStore
<1>2. ASSUME NEW r \in Resources, NEW c \in Contents, Save(r, c) PROVE LagInv'
  <2>1. CASE ~FlushDue(dirty + 1) /\ Upserted(r, c) /\ up
    <3>1. dirty + 1 < FlushEvery
      BY <2>1, BoundsAssumption DEF FlushDue, TypeOK
    <3> QED BY <2>1, <3>1, LagOneMore DEF Upserted
  <2>2. CASE FlushDue(dirty + 1) /\ Upserted(r, c)
    BY <2>2, LagSaveIndex DEF Upserted
  <2>3. CASE UNCHANGED <<up, index, indexFile, dirty>>
    BY <2>3, LagUnchanged
  <2> QED BY <1>0, <1>2, <2>1, <2>2, <2>3 DEF Save, WriteCut, ManifestOnly
<1>3. ASSUME NEW r \in Resources, NEW c \in Contents, SaveEdit(r, c) PROVE LagInv'
  BY <1>0, <1>3, LagSaveIndex DEF SaveEdit, RemoveFails, WriteCut, DiesBeforeIndex
<1>4. ASSUME NEW r \in Resources, ClearEdit(r) PROVE LagInv'
  BY <1>0, <1>4, LagSaveIndex, LagUnchanged DEF ClearEdit, RemoveFails, DiesBeforeIndex
<1>5. ASSUME NEW r \in Resources, Delete(r) PROVE LagInv'
  BY <1>0, <1>5, LagSaveIndex, LagUnchanged DEF Delete, RemoveFails, DiesBeforeIndex
<1>6. ASSUME NEW u \in Batches(Verdicts), ApplyStatuses(u) PROVE LagInv'
  BY <1>0, <1>6, LagSaveIndex, LagUnchanged DEF ApplyStatuses, SaveIfChanged
<1>7. ASSUME NEW u \in Batches(Warnings), ApplyWarnings(u) PROVE LagInv'
  BY <1>0, <1>7, LagSaveIndex, LagUnchanged DEF ApplyWarnings, SaveIfChanged
<1>8. CASE Flush \/ UpdateScrapeStats
  BY <1>0, <1>8, LagSaveIndex DEF Flush, UpdateScrapeStats
<1>9. CASE Kill
  BY <1>0, <1>9 DEF Kill
<1>10. CASE UNCHANGED vars
  BY <1>10, LagUnchanged DEF vars
<1> QED BY <1>1, <1>2, <1>3, <1>4, <1>5, <1>6, <1>7, <1>8, <1>9, <1>10 DEF Next

\* A crash sets back fewer than indexFlushEvery entries, and never more than
\* the saves since the index was last written.
THEOREM BoundedLag == ASSUME "error" \notin Faults PROVE Spec => []LagIsBounded
<1>1. Init => TypeOK /\ LagInv
  BY TypeInit DEF Init, LagInv
<1>2. TypeOK /\ LagInv /\ [Next]_vars => TypeOK' /\ LagInv'
  BY TypeInductive, LagInductive
<1>3. LagInv => LagIsBounded
  BY DEF LagInv, LagIsBounded, Lagging
<1> QED BY <1>1, <1>2, <1>3, PTL DEF Spec
=============================================================================
