# A formal model of DrKate

DrKate (https://github.com/jamie/drkate) copies the resources of a source
Kubernetes cluster into an encrypted local store, lets operators keep edited
local copies, compares what it stored with a disaster-recovery (DR) cluster and
deploys to it. This directory holds TLA+ modules translated from its source,
the TLC configurations that check them on small instances, and proofs, checked
by TLAPS, that hold for every value of the constants. `PROJECT.json` lists the
runs, the hazards they are aimed at, the mutations each property detects, the
theorems, and the source lines of every definition. Paths below are relative to
the repository's `src/`; a bare file name such as `store.go` is the one under
`internal/` with that name.

## 1. Inventory

| Component | State | Operations | What makes it hard | What makes it correct |
|---|---|---|---|---|
| Manifest store, `internal/storage/store.go` | files `<ns>/<kind>/<name>.enc` and `.edit.enc`, `index.enc`; the index and `dirty` in memory; one mutex | `NewStore`, `Save`, `SaveEdit`, `ClearEdit`, `Delete`, `ApplyStatuses`, `ApplyWarnings`, `Flush`, `UpdateScrapeStats`, reads | several files per method, written in place; index writes put off for 25 saves; a death at any point; writes that fail | scrapes never change a local copy; every manifest is listed; statuses are durable; flags agree with files |
| Status cache, `internal/k8s/dr_cache.go` | `comparing`, `queued`, `overview`, `namespaces`, `lastAt`; one mutex | `RefreshAsync`, `refreshIfIdle`, `refresh`, `HydrateFromStore` | asks during a comparison or a scrape; settling in two steps; reads outside the lock | one comparison at a time; no ask is lost; the cache catches up |
| Scrape coordinator, `internal/k8s/scrape_coordinator.go` | `scraping`, `startedAt`, `lastResult` | `Run`, readers | callers check, then call later | one scrape at a time |
| Scraper, `internal/k8s/scraper.go` | none of its own | `Run`, `scrapeGVR` | partial discovery, failing lists and saves, the deadline, a cluster that changes | a result without errors is complete; only what was asked for is stored or removed |
| Sanitizer, `internal/k8s/sanitize.go` | - | `SanitizeObject` | applied when scraping, editing, comparing and deploying | drops noise and nothing else; twice is once |
| Warnings, `internal/k8s/warnings.go` | - | `DetectWarnings` | detected in raw and in sanitized objects | the warnings are those of what a deploy would apply |
| Comparator, `internal/k8s/comparator.go` | none of its own | `Snapshot`, `PersistSnapshot`, `Inventory`, `EnsureWarnings`, `CompareOne`, the diff | minutes of work between store locks; failing lists; a capped list of paths | a stored status is true when nothing changed meanwhile; synced means the same |
| Deployer, `internal/k8s/deployer.go` | none | `Deploy` (one, all, missing, drifted) | requests at once, partial failure, order, copies that name another object | dependencies first; everything reported; a success is live; "missing" overwrites nothing |
| User store, `internal/auth/users.go` | the users in memory, `users.enc` | `load`, `Bootstrap`, `Create`, `Delete`, `Authenticate` | memory changed before the file; a file written in place; another key | somebody can always log in; what was answered stays; users are never replaced |
| Sessions and logins, `internal/auth/session.go`, `handlers.go` | sessions, login attempts | `Create`, `Get`, `Delete`, clean-up; the limit on attempts | a login takes three locks; time | the limit holds; a session lasts its time |
| Configuration, `config.go`, `namespaces.go` | - | secrets, namespaces, exclusions | defaults that depend on what else is set; spellings of one secret | the same secret opens the store; what is asked is selected |
| Handlers, `internal/server/handlers/handlers.go` | login attempts | one per route | several store and cache calls with no lock around them | what they leave behind agrees |
| Main, `cmd/drkate/main.go` | - | start, `periodicScrape`, shutdown | shutdown waits for no scrape and no comparison | - |
| Router and roles, `internal/server/server.go` | - | routes, `requireAdmin`, `RequireAuth` | the role is that of the session | - |
| Encryption, cluster clients | - | AES-GCM; client-go | - | - |
| Web UI, `web/src` | stores that poll the server | scrape, compare, edit, deploy | polling an asynchronous server | what it reports has happened |

How they interact: the scraper and the handlers call the store, each method
under the store's lock. A scrape is run through the coordinator, by the Scrape
handler (in a goroutine) or by `periodicScrape`. The status cache runs
comparisons in goroutines; it is asked by the handlers (after a scrape, after a
deploy, on request), by `periodicScrape` and by its own 15-minute ticker, and it
asks the coordinator whether a scrape runs. A comparison reads the store, lists
the DR cluster, and writes warnings and statuses back to the store. Handlers
that change an entry reload the cache from the store. A deploy reads the store
target by target and applies to the DR cluster with no lock. Every route but the
login goes through the sessions.

`PROJECT.json` lists under "hazards" each place where this is hard to test.

## 2. The modules

```
OverlayStore              the abstract store of sources and local copies
   ^ implemented by
ManifestStore             store.go, with faults           <- ManifestStoreProofs, OverlayRefinement
   ^ extended by
Comparison                comparator.go and the handlers
                          that write beside it            <- ComparisonProofs
StatusRefresh             dr_cache.go, scrape_coordinator.go
                          and who asks                    <- StatusRefreshProofs
Configuration             config.go, namespaces.go
   ^ extended by
Scraper                   scraper.go                      <- ScraperProofs
Accounts                  users.go, the start of main     (extends Configuration)
   ^ extended by
Sessions                  session.go, logins, roles       <- AccountsProofs
Sanitizer <- Drift        sanitize.go; the diff of comparator.go
Warnings                  warnings.go
   ^ all three extended by
Manifests                 one object through scrape, edit, warnings,
                          deploy and comparison           <- ManifestsProofs
Deployer                  deployer.go, CompareOne         <- DeployerProofs
```

Modules named `MC...` give the constants of an instance for TLC; the files named
in the last column hold theorems.

### ManifestStore

Each method of the store holds `Store.mu` to its end, so each is one action,
with all its file operations and its index write. Between and inside those
operations faults may happen, chosen by the constant `Faults`:

- `"crash"`: the process dies between two file operations. `main` flushes
  seconds after SIGTERM and waits for no scrape, and there are power failures.
- `"torn"`: `os.WriteFile` truncates and then writes; a death or an error in it
  leaves a cut file, which AES-GCM rejects ever after.
- `"error"`: an operation returns an error, and the process lives on with
  whatever the method had already changed.

`MaxFaults` bounds their number. A resource is `<<stem, n>>`, its name being the
stem followed by n times ".edit": `EditFile(<<s, n>>)` is `ManifestFile(<<s, n + 1>>)`,
as in `editPath` and `manifestPath`. A content stands for a YAML document up to
`yamlEqual`, a status for the pair of status and drift. Timestamps and the
scrape statistics are left out; the index write that `UpdateScrapeStats` causes
is not. An entry's `typed` says whether its `APIVersion` is known, which it is
not for an entry `reconcileDisk` recovered.

| Module | Code |
|---|---|
| `index`, `dirty`, `up` | `Store.index`, `Store.dirty`, whether the process runs |
| `file`, `indexFile` | the encrypted files; `Torn` cannot be decrypted |
| `NewStore` | `NewStore`, `loadIndex`, `reconcileDisk` |
| `Save` | `Save`, `upsertMeta`; the flush after every `indexFlushEvery` (25) saves |
| `SaveEdit`, `ClearEdit`, `Delete` | the methods of these names |
| `ApplyStatuses`, `ApplyWarnings` | the same, for a batch of updates |
| `Flush`, `UpdateScrapeStats`, `Kill` | end of a scrape, shutdown, death between methods |

`OverlayStore` is what the store promises: per resource a scraped content and
perhaps a local copy; a scrape never changes the copy, except that one equal to
the scraped content goes away.

### StatusRefresh

When comparisons run. The data is abstracted to its age: `world` is the version
of what a comparison compares, and the statuses in the store, in the cache and
in an inventory somebody has read carry the version they come from. Each
goroutine of `refresh` goes through snapshot, persist, publish, settle and,
when an ask was queued, again; the deferred function of `refresh` unlocks before
it calls `RefreshAsync`, so `Settle` and `Again` are two actions.
`HydrateFromStore` reads before it locks, so it is two actions. A caller of
`Coordinator.Run` goes from called to scraping to an outcome: a result, a result
with an error, or an error only. `Snapshot` never returns an error, so `refresh`
has no failing path.

### Comparison

What comparisons and warnings write. It extends `ManifestStore` with the DR
cluster, the one running comparison (its goroutine's local variables are
variables here), `UpdateResource` requests, an opened namespace
(`EnsureWarnings`) and the scraper. Every place where the code releases the
store's lock is a boundary between actions: the listing of the DR cluster, the
second `AllMeta`, one action per resource, the warnings, the statuses; the local
copy of an `UpdateResource` and its warnings; the detection and the writing of
`EnsureWarnings`. All of it ends when the process dies. The resources are of one
kind, so the DR cluster is listed once. Whether a comparison says two contents
differ is their inequality here, and the diff itself in `Drift`.

### Sanitizer, Drift, Warnings, Manifests

Pure functions on documents. A document is a function from paths, which are
sequences of keys, to what is there: `Map` or a scalar, which is a model value;
it is finite, and above every node there is a map (`IsDocument`). Deleting a key
is therefore a restriction (`Delete`), a map is empty when no longer path goes
through it, what an object says is its `Leaves`, and no function needs recursion
but the walk of the diff. `dropEmptyMaps`, which goes from the leaves upwards, leaves
the maps that lead to a scalar (`DropEmptyMaps`). `Sanitizer` has the stages of
`SanitizeObject` in their order; names that match a prefix or a list are sets
(`NoiseAnnotations`, `HelmAnnotations`, `NoiseLabels`). `Drift` has
`compareView` and the walk of `diffPaths` with its cap: the pending calls of `walk`
and what is left of their loops are one list of paths, `todo`; `Visit` takes
the first of them, notes it, passes it over, or puts the keys below it, in byte
order (`SortedKeys`), in front. `DiffPaths` makes as many visits as there are
nodes. `Warnings` has
each check of `warnings.go`; a message is reduced to its subject and its reason.
In the description of volumes the list of cluster-local volume sources stands
for those of the code, abbreviated to the ones the instance uses.

`Manifests` takes one resource through everything that applies these functions:
`Scrape`, `UpdateResource`, `DiscardEdit`, `EnsureWarnings`, `Deploy`, and
changes of the two clusters by others. An API server adds to an applied object
what it sets itself (`ServerSets`) and fills in what was left out (`Defaults`);
both are external and given per kind.

### Deployer

Requests to deploy run at once and lock nothing. A request selects its targets
(`DeployOne`, `DeployAll`, `DeployFiltered`, whose filter looks at the DR cluster
by `compareOne`, target by target), sees to the namespace (`ensured` is the answer), and takes the
targets in the order of `deployPriority`; ties between names of unknown kinds are open,
since `sort.Slice` is not stable. `Read` and `Apply` of a target are two actions,
so scrapes, edits and other requests come in between. A call may fail before or
after the cluster has carried it out. An object carries the fields DrKate's
field manager owns (`ours`), which server-side apply removes when a later
manifest has them no more. A local copy may name another object or namespace
than its entry (`Object(e, d)`).

### Configuration, Scraper

`Configuration` has `EncryptionKey` (a secret inline, in a variable, or put into
the wrong field; a hexadecimal one of 64 digits is decoded, one of
32 characters is used as it is, a longer one is hashed, a shorter one refused), and `ValidNamespaces`, `ResolveNamespaces` with
include, exclude, all and the system namespaces. Texts are records of the secret
they spell, their form and their length.

`Scraper` is `Run`: the namespaces, the discovery (complete, partial, failed),
the groups with the look at the context between them, the list of each API, and
each item of it, saved or, when it is excluded by name, deleted; then the
deferred flush and the statistics. Its deadline is an action that may come at
any time; so may a change of the source cluster, and between two scrapes a start
with another configuration.

### Accounts, Sessions

`Accounts` is the user store over several starts of the process: every change is
made in memory and then written (`Save`), and the write may fail, be cut short
or never happen, as in `ManifestStore`. `Start` reads the configuration, loads
`users.enc` with its key, and makes the first user when there is none. History
variables remember the answers given.

`Sessions` adds the login handler, in its three steps (limit, password, session
or recorded attempt), sessions with their time, and the routes an administrator
uses. Whether a password is right is open. Time is counted in ticks.

## 3. What TLC checks

| Run | Instance | Shows |
|---|---|---|
| store_crash | 2 resources, 2 contents, flush every 2, 2 crashes or torn writes | `TypeOK`, `EveryManifestListed`, `VerdictsAreDurable`, `LagIsBounded`, `EditedFlagTracksOverlay` (until something fails), `OverlaysBelongToOperators` |
| store_heal | 1 resource, 3 contents, 2 crashes or errors, fairness | `EntriesHeal`, and that the files implement `OverlayStore` |
| refresh | 2 refresh goroutines, a scrape request, the ticker, a hydrating handler, fairness | `TypeOK`, `OneComparison`, `OneScrape`, `StatusesNeverGoBack`, `AsksAreHandedOn`, `AsksAreAnswered`, `DashboardCatchesUp` |
| compare_crash | 2 resources, a DR change, a crash | `UndisturbedComparisonIsTrue` |
| compare_edits | 1 resource, 2 edits or discards, failing lists, fairness | `TypeOKComparison`, `WarningsHeal` |
| manifests | objects of 7 kinds | `TypeOK`, `SanitizingKeepsMeaning`, `StoredIsClean`, `SyncedMeansSame`, `DriftPathsAreExact`, `DeployedIsSynced`, `WarningsDescribeView` |
| deploy | 3 entries, 2 requests, 1 failing call or change by others | `TypeOK`, `EveryTargetIsReported`, `NeedsComeFirst`, `SuccessIsLive`, `MissingTouchesNothing` |
| accounts | 2 users, 2 logins, 1 session, 1 fault, 1 change of the configuration | `TypeOK`, `SomebodyRemains`, `AnswersAreKept`, `UsersAreNotReplaced`, `SameSecretOpens`, `RefusalsAreBounded`, `SessionsLastTheirTime` |
| scrape | 6 objects of 5 APIs, 4 configurations, 1 failure, 1 change | `TypeOK`, `CleanScrapeIsComplete`, `StoreChangesAsAsked` |
| store_torn_index | violated | `ReopenSucceeds`: a cut `index.enc` stops every later start |
| scrape_collision | violated | `EverySelectedObjectIsStored`: two kinds of one name in two API groups share an entry |
| compare_recovered | violated | `MissingIsMissing`: after a crash before the first index write, everything is missing |

The three violated runs are the findings of `PROJECT.json`, each with the line of
the code and the sentence of the repository it contradicts. The recovered
entries of compare_recovered stay "missing" until a later scrape has typed one
of them and a comparison has followed. In that run every list of the DR cluster
succeeds. A failing list (`comparator.go:326`) has the same effect for the
resources of one kind: `LoadLive` models it (`DRFails`, in compare_edits), but no
property is about it, since `UndisturbedComparisonIsTrue` speaks of comparisons
whose list succeeded.
`AsksAreAnswered` would hold if no scrape ever asked when it ends, because the
ticker asks too; that the end of a scrape makes up for the asks it swallowed is
`AsksAreHandedOn`.
`CleanScrapeIsComplete` allows the collision of scrape_collision, and nothing
else, to keep a selected object out of the store.

**Why the bounds are enough.**

- *Stores.* A file and an entry of one resource never depend on those of
  another, except through a flush (another resource's save brings it), through
  `dirty`, and through the API of the kind (another entry has it): two resources
  show each. A flush threshold of 2 has a save below it, one at it, and a crash
  between. Three contents are an old source, a new source and a local copy that
  differs from both; where only equality with the copy matters, two. Two faults
  are a crash and another one while its damage is there.
- *refresh.* One goroutine compares or settles while the other takes its place.
  Every property asks only whether a version is at least some other one, so each
  change of the world plays the same part as the first, and `MaxWorld = 1` has
  what was before it and what comes after. Two scrapes are one that swallows an
  ask and one that makes up for it.
- *compare_crash, compare_edits.* `MaxEdits` and `MaxDRChanges` bound the number
  of requests and changes; `WarningsHeal` is about what happens when operators
  have stopped, so there the bound is the meaning.
- *manifests.* One resource at a time, because none of the functions looks at
  another. The objects have, per kind, the fields the sanitizer and the warnings
  know, with and without noise, maps that a removal empties, and differences
  above and below `MaxDriftPaths = 2`. A scraped object has its kind's defaults.
- *deploy.* Three entries are a dependency and two targets of one kind, one of
  which may be renamed onto the other or moved; two requests overlap in every
  way. One event is a call that fails or a change that comes from elsewhere; two
  would differ only in being two. Two fields tell a manifest that has a field
  from one that leaves it out, which is what ownership is about.
- *accounts.* With `Attempts = 1` the limit is met by the second login, and two
  logins at once pass it together. A window of 2 ticks and a life of 1 within 3
  times have an attempt and a session inside, at the edge of and outside their
  time. The configurations are two spellings of one secret, another secret, and
  one that is too short.
- *scrape.* Objects that collide, that are excluded by name or kind, in a system
  namespace, of an API that cannot be listed; a failure at any one call.

Deadlock is checked, except in store_crash and store_torn_index, where a torn
index ends everything, as it does in the program, and in deploy, accounts and
scrape, which stop when the requests are answered, when a configuration has no
usable secret or time is up, and when a bound is reached.

**Fairness.** In `ManifestStore`: a process that is down is started again, by its
service manager or the operator, and `periodicScrape` brings every resource the
source keeps again. The latter is not so for a `scrape.interval` that is empty
(`README.md:126`): `EntriesHeal` and `WarningsHeal` are then promised only as long
as operators go on to ask for scrapes. An error of the removal of an overlay is ignored by `Save`;
the fairness of scrapes asks that this removal does not fail for ever. In
`StatusRefresh`: goroutines go on, the ticker ticks, list calls and scrapes end
because they have timeouts; no request and no change is ever assumed. Scrapes
are bounded by `MaxScrapes`, so the ticker finds the coordinator idle at some
time; a scrape takes at most its 15 minutes and the program leaves pauses
between them. In `Comparison`: the comparison's goroutine goes on and the
ticker begins another, handlers run to their end, scrapes come back. The other
modules promise safety only.

**Mutations.** Every checked property is shown to detect a plausible mistake in
the code: a definition whose name ends in `Mutant` stands before the one it
would replace, with a comment that says what the mistake is.

## 4. What is proved

| Module | Theorem | Assumes | States |
|---|---|---|---|
| `ManifestStoreProofs` | `Typing` | - | `Spec => []TypeOK` |
| | `DurableVerdicts` | no "error" | `Spec => []VerdictsAreDurable` |
| | `BoundedLag` | no "error" | `Spec => []LagIsBounded` |
| `OverlayRefinement` | `OverlayRefinementHolds` | no "torn", `NoAlias` | `Spec => ImplementsOverlayStore` |
| | `ManifestsListed` | no "error", `NoAlias` | `Spec => []EveryManifestListed` |
| | `OverlaysOfOperators` | `NoAlias` | `Spec => OverlaysBelongToOperators` |
| | `EditedFlags` | no "error", `NoAlias` | `Spec => []EditedFlagTracksOverlay` |
| `ComparisonProofs` | `ComparisonTyping` | - | `ComparisonSpec => []TypeOKComparison` |
| | `ComparisonsAreTrue` | - | `ComparisonSpec => []UndisturbedComparisonIsTrue` |
| | `MissingWhereTyped` | "missing" is a verdict of its own | `ComparisonSpec => [](Typed => MissingIsMissing)` |
| | `StoreInComparison` | - | `ComparisonSpec => Spec` of `ManifestStore` |
| | `StoreStaysSafe` | no "error", `NoAlias` | the five store properties, in the comparison |
| | `OverlaysInComparison` | no "torn", `NoAlias` | `ComparisonSpec => ImplementsOverlayStore` |
| `StatusRefreshProofs` | `Typing` | - | `Spec => []TypeOK` |
| | `ComparisonsAreAlone` | - | `Spec => []OneComparison` |
| | `ScrapesAreAlone` | - | `Spec => []OneScrape` |
| | `StatusesOnlyAdvance` | - | `Spec => StatusesNeverGoBack` |
| | `AsksHandedOn` | - | `Spec => AsksAreHandedOn` |
| `ScraperProofs` | `ScraperTyping` | - | `Spec => []TypeOK` |
| | `StoresAsAsked` | - | `Spec => StoreChangesAsAsked` |
| | `CleanIsComplete` | - | `Spec => []CleanScrapeIsComplete` |
| | `CollisionsAlone` | - | `Spec => [](NoCollision => EverySelectedObjectIsStored)` |
| `DeployerProofs` | `DeployerTyping` | - | `Spec => []TypeOK` |
| | `AllReported` | - | `Spec => []EveryTargetIsReported` |
| | `DependenciesFirst` | - | `Spec => []NeedsComeFirst` |
| | `SuccessesAreLive` | - | `Spec => []SuccessIsLive` |
| | `MissingIsHarmless` | - | `Spec => MissingTouchesNothing` |
| `AccountsProofs` | `UsersRemain` | - | `Spec => []SomebodyRemains` |
| | `AnswersKept` | - | `Spec => []AnswersAreKept` |
| | `UsersKept` | - | `Spec => UsersAreNotReplaced` |
| | `SessionsTyping` | - | `Spec => []TypeOK` |
| | `SessionLifetimes` | - | `Spec => []SessionsLastTheirTime` |
| | `SecretsOpen` | - | `Spec => []SameSecretOpens` |
| | `RefusalsBounded` | - | `Spec => []RefusalsAreBounded` |
| `ManifestsProofs` | `ViewsAreMeaning` | - | for all objects, `SameView(a, b)` if and only if `ComparedMeaning(a) = ComparedMeaning(b)` |
| | `ManifestsTyping` | (1) | `Spec => []TypeOK` |
| | `KeepsMeaning` | (1) | `Spec => []SanitizingKeepsMeaning` |
| | `StoredStaysClean` | (1) | `Spec => []StoredIsClean` |
| | `DeployedCompares` | (1), `ServerSetsNoise`, `DefaultsStay` | `Spec => []DeployedIsSynced` |
| | `WalkIsExact` | - | for all documents, the paths of `DiffPaths` are differences, each once, all of them or `MaxDriftPaths`; there are none if and only if the documents are equal |
| | `SyncedIsSame` | (1) | `Spec => []SyncedMeansSame` |
| | `PathsAreExact` | (1) | `Spec => []DriftPathsAreExact` |
| | `WarningsOfTheView` | (1), `FamiliesStay` | `Spec => []WarningsDescribeView` |

(1): the sentinel `NoObject` is no object.

They hold for every number of resources, contents, APIs, requests, users,
failures and changes, and for finite documents of any keys and any depth. The
assumptions on constants are the ASSUMEs of the modules, which TLC evaluates in the runs: bounds are numbers, sentinels are none
of the values they stand beside, and what the program can be given: a
configuration that passed validation; objects whose kind has an API, finitely
many, and one API to list per group and kind, since discovery returns preferred
versions (`ClusterAssumption`); finitely many logins at once
(`SessionsAssumption`); documents with their kind's defaults, whose annotations
are no maps (`ManifestsAssumption`); an order of the keys that has each of them
once (`DriftAssumption`). `MeaningAssumption` says when two
configurations mean the same secret: they have the same text, or the same 64
hexadecimal digits in another case, provided a key can be made of both. That
`EncryptionKey` makes one key of them is what is proved.

Some hypotheses are those of single theorems. `NoAlias` says that no resource is
named like the overlay of another; section 5 says what happens otherwise.
`ServerSetsNoise` and `DefaultsStay` are about Kubernetes: what a server sets is
known to the sanitizer, and what it fills in is not. A field that a server sets
and the sanitizer does not know is reported as drift, by the code as here.
`FamiliesStay` says that an annotation the warnings look for is none the
sanitizer strips; the two overlap only for keys with ".kubernetes.io/reset-"
in them (`sanitize.go:199`). The objects of the manifests run satisfy the three.

The arguments:

- *Typing, DurableVerdicts, BoundedLag.* `Meta` says that an unchecked entry
  carries no warnings. `DurableInv` adds that the index file of a running process
  is readable; `Save` below the threshold is the one method that leaves memory
  ahead of disk, and it keeps the status. `LagInv` adds that the set of lagging
  entries is finite, to reason about its cardinality.
- *OverlayRefinementHolds.* Without ".edit" names a manifest and an overlay are
  never one file (`FilesApart`); each method is then mapped to `Scrape`, `Edit`,
  `Discard`, `Drop` or a stutter. *OverlaysOfOperators* uses the same, step by
  step, and holds with every fault.
- *ManifestsListed.* `Save` writes the manifest, and returns without listing it
  when the overlay cannot be read. `ListedInv` therefore also says that a running
  process lists every resource with a torn overlay, and that the index file
  knows such a resource unless the process is down with the manifest on disk,
  where `reconcileDisk` finds it.
- *EditedFlags.* `FlagInv` says that before the first fault a process that is
  down has not run yet, so its first start finds nothing; in a running one each
  method changes a flag and an overlay together.
- *ComparisonsAreTrue.* `OnTrack` follows the comparison through its phases: as
  long as nothing has disturbed it, what it listed is what is there, every listed
  resource is yet to be looked at or has its true verdict, and in the end its
  entry has it. Every other step either disturbs (`Inputs` change) or leaves the
  statuses and lists nothing new (`StatusesStay`), since an entry that is new
  says its API and so changes `Inputs`.
- *StoreInComparison.* Each action of the comparison and of the handlers is one
  method of the store or leaves the store alone (`StoreStep`), so whatever is
  proved of the store is true of it here.
- *MissingWhereTyped.* The wrong verdicts of compare_recovered have one cause:
  with an entry that says its API, "missing" is stored for what is not live.
- *StatusRefresh.* The goroutines past `tryBegin` are at most one, and it is the
  one for which `comparing` is set (`Alone`); what it holds is at least as new as
  what is stored (`Fresh`).
- *AsksHandedOn.* An ask that is not answered is `Awaited`: it is queued behind a
  comparison, a goroutine has yet to read or has read enough, or a scrape that
  swallowed it has not returned. `Advancing` says that the comparison under way is
  not behind the last one, so publishing it answers what it has seen. Every step
  hands `Awaited` on, but for a scrape that returns without asking.
- *StoresAsAsked, CleanIsComplete.* `Phased` says that APIs and items are those
  of the namespaces and kinds selected when the scrape began. `OnCourse` says
  that without a mark in the result every selected object is ahead of the scrape
  or stored, under its own name or, if two share an entry, the other's.
- *CollisionsAlone.* The objects `scrape_collision` misses are missing for that
  reason alone: it follows from *CleanIsComplete* when no two selected objects
  share an entry.
- *ScraperTyping.* That the count is bounded by the objects is no matter of
  types: what is counted and what is still ahead (`Ahead`) are together no more
  than the objects (`Counted`), because a scrape comes to each object in one
  place (`Apart`).
- *Deployer.* `Shaped` and `InOrder` say where a request's targets are and that
  what is ahead never has a lower priority than what is handled; that a request
  is done only with nothing left, and has a success only where the namespace was
  ensured, goes with the phases. `HeldIsStored`
  says that the manifest held is the one stored unless the request was disturbed,
  `DeployedIsLive` follows a reported success through the steps of other
  requests, and `MissingAhead` says why a look that found nothing still counts
  when the target is applied: another request that made the object in between
  has applied the same manifest. `DeployerTyping` carries the ranges of what a
  request holds and of the counters (`Ranges`).
- *Accounts.* `AccountsInv` relates the users in memory, those in the file and
  those answered, for every user whose last change is not in doubt; `KeyFits`
  says that a running process holds the key of a readable file, and `SessionInv`
  that a session is what was issued. For *AnswersKept*, `FileIsThere` adds that
  from the first answer on the file can be read, unless a write that left a change
  in doubt has cut it short.
- *SecretsOpen.* `SecretInv` says that the key of the running process and the
  key of a readable file are made of the secret the first user was made with
  (`Meant`). `KeysOfTexts` goes through the branches of `EncryptionKey`: two
  usable texts give one key if and only if they are the same or spell the same
  64 digits, and a text never gives by decoding what another gives by hashing.
- *RefusalsBounded.* `LimitInv` says that every refusal within the window is
  among the attempts recorded, that nothing older is counted, and that the
  refusals and the logins under way are together less than `Attempts` plus the
  number of logins. The sums are compared by well-foundedness of `<`.
- *ViewsAreMeaning, KeepsMeaning, StoredStaysClean.* `Sanitized` follows one leaf
  through the stages. A document with no empty maps is known from its leaves
  (`TrimDocuments`), so equal leaves are equal views, and sanitizing again, which
  takes away no leaf, changes nothing.
- *DeployedCompares, WarningsOfTheView.* `ManifestsInv` says where things come
  from: what is stored is a sanitized object, a copy a sanitized edit, and an
  object of ours in the DR cluster what a server made of what was applied
  (`Origins`). What the server added is noise; and no field a warning is read
  from is noise of any kind, so raw and sanitized objects give one set.
- *WalkIsExact, SyncedIsSame, PathsAreExact.* `WalkInv` says that every
  difference is noted, or at or below a path still to do, that nothing still to do has been
  noted, and that the paths to do lead to different nodes. A visit leaves at least
  one node behind for good, so after as many visits as there are nodes nothing is
  left to do, or the limit is reached (`VisitStep`, `DoneIsExact`). What the
  recursive functions `Sorted` and `DiffPaths` compute follows by the
  well-foundedness of `<`, with sets in the place of properties (`Induction`,
  `Recursion`). A view is a document, and two views are equal exactly
  when the objects say the same (*ViewsAreMeaning*).

## 5. Only model-checked, and not modelled

Liveness (`EntriesHeal`, `AsksAreAnswered`, `DashboardCatchesUp`, `WarningsHeal`)
is beyond the prover and only checked. Every safety property of the passing runs
is proved.

Where a property is weaker than one might expect:

- `WarningsDescribeView` leaves out the notice that an ingress class annotation
  was stripped: it is found in the raw object by a scrape and cannot be found in
  the sanitized one (`scraper.go:153`).
- `SuccessIsLive` leaves out two manifests that name one object, which an edit can
  make.
- `MissingTouchesNothing` is about several requests to DrKate. It leaves out
  copies that name another object than their entry, and changes of the DR cluster
  by others: an object somebody else makes after the look is taken over by the
  forced apply (`deployer.go:155`).
- `NeedsComeFirst` is about the kinds `deployPriority` knows. A custom resource has
  priority 0 and comes before what it may need.
- `StatusesNeverGoBack` is about the store. The cache may go back for a while (see
  below); `DashboardCatchesUp` says that it does not stay behind.
- `AsksAreHandedOn` allows an ask to be lost where a scrape ends without asking: one
  that has no result, or a periodic one with an error (`main.go:136`). The ticker
  answers it.
- `AnswersAreKept` has the exception of a `users.enc` that a later write cut short.
- `RefusalsAreBounded` allows for the logins that have passed the limit together.
- `SomebodyRemains` protects the last user, as `Delete` does (`users.go:147`),
  not the last administrator.

What was met in the code and no run shows:

- A source object whose name ends in ".edit" beside an edited one of the same
  kind: its manifest is the other's overlay (`store.go:188`). The theorems about
  overlays exclude such names.
- `users.enc` is rewritten in place (`users.go:74`), as `index.enc` is: a process
  that dies inside that write leaves a file no start accepts, and all users are
  lost with it. `UsersAreNotReplaced` says that they are not replaced either, and
  `AnswersAreKept` that nothing else loses an answer.
- A failing list or discovery of the DR cluster is taken for an empty cluster
  (`comparator.go:326`), and the verdicts "missing" are stored until the next
  comparison.
- `HydrateFromStore` reads the store before it locks (`dr_cache.go:40`), so an
  old inventory may replace a newer comparison in the cache until the next
  refresh; `DashboardCatchesUp` says it does not stay.
- The browser reports the last result after a scrape it has polled for, which is
  the previous one when the scrape failed before there was a result
  (`web/src/stores/dr.ts:171`).
- `preserve_replicas` (`README.md:129`) is copied into the sanitizer
  (`sanitize.go:107`), which never looks at it.
- There is no route to change a password, which `README.md:97` advises to do.

Not modelled: encryption beyond what cannot be decrypted, and the construction
of clients, which keep no state; the table of routes and `requireOperator`; the
parsing of YAML and flags; how a kind is resolved to its API resource from the
discovery of the DR cluster; listings and other handlers that change nothing;
the web UI, whose stores poll the server and keep nothing it depends on.
Kubernetes itself is external: the source cluster is any sequence of contents,
the DR cluster any sequence of objects with server-side apply.

## 6. Status

All modules planned for the server are written and checked, and every safety
property of theirs is proved. What could follow: the polling of
`web/src/stores/dr.ts` against `StatusRefresh`; the store with names that end in
".edit", once the code tells them apart; and a scrape whose items go through
`ManifestStore` instead of the reduced store of `Scraper`.
