---------------------------- MODULE StatusRefresh ----------------------------
(***************************************************************************)
(* When DrKate compares: the status cache (internal/k8s/dr_cache.go), the  *)
(* scrape coordinator (scrape_coordinator.go), and the handlers and the    *)
(* two tickers that ask for a comparison (handlers.go, main.go).           *)
(*                                                                         *)
(* Of the data only the age is kept.  `world` is the version of what a     *)
(* comparison compares, the stored manifests and the live objects; a       *)
(* comparison yields the version it read, and the statuses in the store,   *)
(* the cache and an inventory each carry the version they come from.       *)
(* Snapshot takes its time; the version it read when it began is a lower   *)
(* bound of what it saw.  It never returns an error, so refresh has no     *)
(* failing path here; and ApplyStatuses has changed the store's memory,    *)
(* which an inventory reads, before its write to disk may fail.            *)
(***************************************************************************)
EXTENDS Naturals, FiniteSets

CONSTANTS Refreshers,   \* goroutines that run refresh
          Requests,     \* HTTP scrape requests
          Ticker,       \* the goroutine of periodicScrape
          Hydrators,    \* handlers that reload the cache from the store
          Outcomes,     \* how scraper.Run may end
          Background,   \* is there a background refresh ticker
          MaxWorld,     \* bound: changes of the compared data
          MaxScrapes    \* bound: scrapes begun

Runners == Requests \cup {Ticker}

\* "ok": a result; "partial": a result and an error; "failed": an error only
ASSUME OutcomesAssumption == Outcomes \subseteq {"ok", "partial", "failed"}
ASSUME BoundsAssumption == MaxWorld \in Nat /\ MaxScrapes \in Nat
ASSUME RunnersAssumption == Ticker \notin Requests /\ Background \in BOOLEAN

VARIABLES world,       \* version of manifests and live objects
          stored,      \* version of the statuses in the store
          cache,       \* version of the statuses the cache serves
          compared,    \* version of the comparison lastAt speaks of
          comparing, queued,  \* DrStatusCache
          refresher,   \* where each refresh goroutine is
          seen,        \* version the comparison of each has read
          scraping,    \* ScrapeCoordinator.scraping
          lastResult,  \* ScrapeCoordinator.lastResult
          runner,      \* where each caller of Coordinator.Run is
          inventory,   \* what each handler read from the store, or NoInventory
          asked,       \* history: newest version a RefreshAsync was called at
          scrapes       \* scrapes begun

data == <<world, stored, cache, compared>>
dr == <<comparing, queued, refresher, seen>>
coordinator == <<scraping, lastResult, runner, scrapes>>
vars == <<data, dr, coordinator, inventory, asked>>

Versions == 0..MaxWorld
NoInventory == MaxWorld + 1

TypeOK ==
  /\ world \in Versions /\ stored \in Versions /\ cache \in Versions
  /\ compared \in Versions /\ asked \in Versions
  /\ comparing \in BOOLEAN /\ queued \in BOOLEAN
  /\ refresher \in [Refreshers -> {"idle", "snapshot", "persist", "publish", "settle", "again"}]
  /\ seen \in [Refreshers -> Versions]
  /\ scraping \in BOOLEAN /\ lastResult \in {"none", "ok", "partial"}
  /\ runner \in [Runners -> {"idle", "called", "scraping", "ok", "partial", "failed"}]
  /\ inventory \in [Hydrators -> Versions \cup {NoInventory}]
  /\ scrapes \in 0..MaxScrapes

\* main starts the server: the cache is hydrated with what the store has, and
\* StartBackgroundRefresh has just begun the first comparison.
Init ==
  /\ world = 0 /\ stored = 0 /\ cache = 0 /\ compared = 0 /\ asked = 0
  /\ comparing = TRUE /\ queued = FALSE
  /\ \E g \in Refreshers : refresher = [h \in Refreshers |-> IF h = g THEN "snapshot" ELSE "idle"]
  /\ seen = [g \in Refreshers |-> 0]
  /\ scraping = FALSE /\ lastResult = "none"
  /\ runner = [r \in Runners |-> "idle"]
  /\ inventory = [h \in Hydrators |-> NoInventory]
  /\ scrapes = 0

------------------------------------------------------------------------------
\* kick, by a caller that leaves the refresh goroutines as `others`.

\* Mutation: a comparison is started without asking whether one runs.
KickMutant(queue, others) ==
  /\ UNCHANGED queued
  /\ IF scraping
       THEN refresher' = others /\ UNCHANGED comparing
       ELSE /\ comparing' = TRUE
            /\ \E g \in Refreshers : others[g] = "idle" /\ refresher' = [others EXCEPT ![g] = "snapshot"]
Kick(queue, others) ==
  \/ /\ comparing
     /\ queued' = (queued \/ queue)
     /\ refresher' = others /\ UNCHANGED comparing
  \/ /\ ~comparing /\ scraping
     /\ refresher' = others /\ UNCHANGED <<comparing, queued>>
  \/ /\ ~comparing /\ ~scraping
     /\ comparing' = TRUE
     /\ \E g \in Refreshers : others[g] = "idle" /\ refresher' = [others EXCEPT ![g] = "snapshot"]
     /\ UNCHANGED queued

RefreshAsync == /\ Kick(TRUE, refresher)
                /\ asked' = world
                /\ UNCHANGED seen

\* The 15-minute ticker of StartBackgroundRefresh.
RefreshIfIdle == /\ Background
                 /\ Kick(FALSE, refresher)
                 /\ UNCHANGED <<data, seen, coordinator, inventory, asked>>

------------------------------------------------------------------------------
\* refresh: Snapshot, PersistSnapshot, publication, and the deferred settling.

\* Mutation: comparing is cleared once the clusters have been read.
SnapshotMutant(g) ==
  /\ refresher[g] = "snapshot"
  /\ refresher' = [refresher EXCEPT ![g] = "persist"]
  /\ seen' = [seen EXCEPT ![g] = world]
  /\ comparing' = FALSE
  /\ UNCHANGED <<data, queued, coordinator, inventory, asked>>
Snapshot(g) ==
  /\ refresher[g] = "snapshot"
  /\ refresher' = [refresher EXCEPT ![g] = "persist"]
  /\ seen' = [seen EXCEPT ![g] = world]
  /\ UNCHANGED <<data, comparing, queued, coordinator, inventory, asked>>

PersistSnapshot(g) ==
  /\ refresher[g] = "persist"
  /\ refresher' = [refresher EXCEPT ![g] = "publish"]
  /\ stored' = seen[g]
  /\ UNCHANGED <<world, cache, compared, comparing, queued, seen, coordinator, inventory, asked>>

Publish(g) ==
  /\ refresher[g] = "publish"
  /\ refresher' = [refresher EXCEPT ![g] = "settle"]
  /\ cache' = seen[g] /\ compared' = seen[g]
  /\ UNCHANGED <<world, stored, comparing, queued, seen, coordinator, inventory, asked>>

\* Mutation: the new ask is made before comparing is cleared.
SettleLateMutant(g) ==
  /\ refresher[g] = "settle"
  /\ refresher' = [refresher EXCEPT ![g] = IF queued THEN "again" ELSE "idle"]
  /\ queued' = FALSE /\ comparing' = queued
  /\ UNCHANGED <<data, seen, coordinator, inventory, asked>>
Settle(g) ==
  /\ refresher[g] = "settle"
  /\ refresher' = [refresher EXCEPT ![g] = IF queued THEN "again" ELSE "idle"]
  /\ queued' = FALSE /\ comparing' = FALSE
  /\ UNCHANGED <<data, seen, coordinator, inventory, asked>>

\* The RefreshAsync for an ask that came during the comparison.
Again(g) ==
  /\ refresher[g] = "again"
  /\ Kick(TRUE, [refresher EXCEPT ![g] = "idle"])
  /\ UNCHANGED <<data, seen, coordinator, inventory, asked>>

------------------------------------------------------------------------------
\* HydrateFromStore: the inventory is read before the cache is locked.

HydrateRead(h) ==
  /\ inventory[h] = NoInventory
  /\ inventory' = [inventory EXCEPT ![h] = stored]
  /\ UNCHANGED <<data, dr, coordinator, asked>>

HydrateWrite(h) ==
  /\ inventory[h] # NoInventory
  /\ cache' = inventory[h]
  /\ inventory' = [inventory EXCEPT ![h] = NoInventory]
  /\ UNCHANGED <<world, stored, compared, dr, coordinator, asked>>

------------------------------------------------------------------------------
\* Changes of what is compared, and the handlers that ask.

Changed == world < MaxWorld /\ world' = world + 1

\* SaveEdit or ClearEdit in UpdateResource or DiscardEdit, which hydrate but do
\* not ask; or somebody else changes the DR cluster.
Change == Changed /\ UNCHANGED <<stored, cache, compared, dr, coordinator, inventory, asked>>

\* The Deploy handler asks when it has applied its objects.
Deploy == /\ Changed
          /\ Kick(TRUE, refresher) /\ asked' = world'
          /\ UNCHANGED <<stored, cache, compared, seen, coordinator, inventory>>

DRRefresh == RefreshAsync /\ UNCHANGED <<data, coordinator, inventory>>

------------------------------------------------------------------------------
\* Scrapes.

\* The Scrape handler looks at the coordinator and answers "started"; the
\* goroutine it launches calls Run later.
Scrape(r) ==
  /\ r # Ticker
  /\ runner[r] = "idle" /\ ~scraping
  /\ runner' = [runner EXCEPT ![r] = "called"]
  /\ UNCHANGED <<data, dr, scraping, lastResult, scrapes, inventory, asked>>

PeriodicScrape ==
  /\ runner[Ticker] = "idle"
  /\ runner' = [runner EXCEPT ![Ticker] = "called"]
  /\ UNCHANGED <<data, dr, scraping, lastResult, scrapes, inventory, asked>>

\* Mutation: Run relies on the check the handler made.
RunRefusesMutant == FALSE
RunRefuses == scraping

\* ErrScrapeInProgress, with no result: the caller does not ask.
RunRefused(r) ==
  /\ runner[r] = "called" /\ RunRefuses
  /\ runner' = [runner EXCEPT ![r] = "idle"]
  /\ UNCHANGED <<data, dr, scraping, lastResult, scrapes, inventory, asked>>

RunBegins(r) ==
  /\ runner[r] = "called" /\ ~RunRefuses
  /\ scrapes < MaxScrapes
  /\ scrapes' = scrapes + 1
  /\ scraping' = TRUE
  /\ runner' = [runner EXCEPT ![r] = "scraping"]
  /\ UNCHANGED <<data, dr, lastResult, inventory, asked>>

ScrapeSaves(r) ==
  /\ runner[r] = "scraping"
  /\ Changed
  /\ UNCHANGED <<stored, cache, compared, dr, coordinator, inventory, asked>>

\* Mutation: the result is recorded without asking whether there is one.
ResultAfterMutant(o) == o
ResultAfter(o) == IF o = "failed" THEN lastResult ELSE o

\* Run records a result, if there is one, and clears scraping.
RunEnds(r) ==
  /\ runner[r] = "scraping"
  /\ \E o \in Outcomes :
       /\ runner' = [runner EXCEPT ![r] = o]
       /\ lastResult' = ResultAfter(o)
  /\ scraping' = FALSE
  /\ UNCHANGED <<data, dr, scrapes, inventory, asked>>

\* Mutation: an error ends the Scrape handler too, whatever the result.
AsksMutant(r) == runner[r] = "ok"
\* After an error the Scrape handler asks if there is a result, periodicScrape
\* never.
Asks(r) == runner[r] \in IF r = Ticker THEN {"ok"} ELSE {"ok", "partial"}

ScrapeReturns(r) ==
  /\ runner[r] \in {"ok", "partial", "failed"}
  /\ runner' = [runner EXCEPT ![r] = "idle"]
  /\ IF Asks(r) THEN RefreshAsync ELSE UNCHANGED <<dr, asked>>
  /\ UNCHANGED <<data, scraping, lastResult, scrapes, inventory>>

------------------------------------------------------------------------------
Comparison(g) == Snapshot(g) \/ PersistSnapshot(g) \/ Publish(g) \/ Settle(g) \/ Again(g)
Scraping(r) == RunRefused(r) \/ RunBegins(r) \/ RunEnds(r) \/ ScrapeReturns(r)

Next ==
  \/ RefreshIfIdle
  \/ \E g \in Refreshers : Comparison(g)
  \/ \E h \in Hydrators : HydrateRead(h) \/ HydrateWrite(h)
  \/ Change \/ Deploy \/ DRRefresh
  \/ \E r \in Runners : Scrape(r) \/ Scraping(r) \/ ScrapeSaves(r)
  \/ PeriodicScrape

Spec == Init /\ [][Next]_vars

\* Goroutines go on, the ticker ticks, scrapes and list calls have timeouts.
\* No request and no change has to happen.
FairSpec == /\ Spec
            /\ WF_vars(RefreshIfIdle)
            /\ \A g \in Refreshers : WF_vars(Comparison(g))
            /\ \A h \in Hydrators : WF_vars(HydrateWrite(h))
            /\ \A r \in Runners : WF_vars(Scraping(r))

------------------------------------------------------------------------------
\* Properties.

InComparison(g) == refresher[g] \in {"snapshot", "persist", "publish", "settle"}

\* At most one comparison lists the DR cluster at a time, and the comparing flag
\* the dashboard polls is up exactly while one does: a goroutine that settles
\* and asks again never races the comparison somebody else began.
OneComparison ==
  /\ Cardinality({g \in Refreshers : InComparison(g)}) <= 1
  /\ comparing <=> \E g \in Refreshers : InComparison(g)

\* At most one scrape writes the store at a time, although requests and the
\* ticker look before they call.
OneScrape ==
  /\ Cardinality({r \in Runners : runner[r] = "scraping"}) <= 1
  /\ scraping <=> \E r \in Runners : runner[r] = "scraping"

\* The statuses in the store are never replaced by those of an older comparison.
StatusesNeverGoBack == [][stored' >= stored]_vars

\* The asks so far will be seen to: they are queued behind a comparison, one has yet to
\* begin or has read what it compares since, or a scrape runs, which asks when it ends.
Awaited ==
  \/ comparing /\ queued
  \/ \E g \in Refreshers : \/ refresher[g] \in {"snapshot", "again"}
                           \/ refresher[g] \in {"persist", "publish"} /\ seen[g] >= asked
  \/ \E r \in Runners : runner[r] \in {"scraping", "ok", "partial", "failed"}

\* An ask that is dropped because a scrape runs, or queued because a comparison does,
\* is handed on until a comparison has answered it.  It is lost, until the next tick,
\* in one place: when a scrape without a result ends, or a periodic one with an error.
AsksAreHandedOn ==
  [][(asked > compared => Awaited) =>
        \/ (asked > compared => Awaited)'
        \/ \E r \in Runners : /\ runner[r] = "failed" \/ (r = Ticker /\ runner[r] = "partial")
                              /\ runner'[r] = "idle"]_vars

\* Every ask for a comparison is answered by one that saw everything up to the
\* ask, asks that a running scrape drops included: if by nobody else, by the ticker.
AsksAreAnswered == \A v \in Versions : asked >= v ~> compared >= v

\* When nothing changes any more, the dashboard ends up showing the last state.
DashboardCatchesUp == <>[](cache = world)
=============================================================================
