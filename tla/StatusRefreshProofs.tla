-------------------------- MODULE StatusRefreshProofs --------------------------
(***************************************************************************)
(* Proofs about StatusRefresh for any number of refresh goroutines,        *)
(* requests and hydrating handlers, and any bounds.                        *)
(***************************************************************************)
EXTENDS StatusRefresh, FiniteSetTheorems, TLAPS

Places == {"idle", "snapshot", "persist", "publish", "settle", "again"}
Working == {"snapshot", "persist", "publish", "settle"}

------------------------------------------------------------------------------
\* Type correctness.

\* A kick leaves the refresh goroutines and the flags in their types.
LEMMA KickType ==
  ASSUME comparing \in BOOLEAN, queued \in BOOLEAN, NEW queue \in BOOLEAN,
         NEW others \in [Refreshers -> Places], Kick(queue, others)
  PROVE  comparing' \in BOOLEAN /\ queued' \in BOOLEAN /\ refresher' \in [Refreshers -> Places]
BY DEF Kick, Places

\* So does an ask, which notes the version it is made at.
LEMMA RefreshAsyncType ==
  ASSUME TypeOK, RefreshAsync
  PROVE  /\ comparing' \in BOOLEAN /\ queued' \in BOOLEAN /\ refresher' \in [Refreshers -> Places]
         /\ seen' \in [Refreshers -> Versions] /\ asked' \in Versions
BY KickType DEF TypeOK, RefreshAsync, Places

\* The steps of a comparison.
LEMMA ComparisonType ==
  ASSUME TypeOK, NEW g \in Refreshers, Comparison(g)
  PROVE  TypeOK'
<1>1. CASE Snapshot(g)
  BY <1>1 DEF Snapshot, TypeOK, data, coordinator
<1>2. CASE PersistSnapshot(g)
  BY <1>2 DEF PersistSnapshot, TypeOK, coordinator
<1>3. CASE Publish(g)
  BY <1>3 DEF Publish, TypeOK, coordinator
<1>4. CASE Settle(g)
  BY <1>4 DEF Settle, TypeOK, data, coordinator
<1>5. CASE Again(g)
  <2>1. comparing' \in BOOLEAN /\ queued' \in BOOLEAN /\ refresher' \in [Refreshers -> Places]
    BY <1>5, KickType DEF Again, TypeOK, Places
  <2> QED BY <1>5, <2>1 DEF Again, TypeOK, data, coordinator, Places
<1> QED BY <1>1, <1>2, <1>3, <1>4, <1>5 DEF Comparison

\* The steps of a scrape.
LEMMA ScrapingType ==
  ASSUME TypeOK, NEW r \in Runners, Scraping(r)
  PROVE  TypeOK'
<1>1. CASE RunRefused(r)
  BY <1>1 DEF RunRefused, TypeOK, data, dr
<1>2. CASE RunBegins(r)
  <2>1. scrapes' \in 0..MaxScrapes
    BY <1>2, BoundsAssumption DEF RunBegins, TypeOK
  <2> QED BY <1>2, <2>1 DEF RunBegins, TypeOK, data, dr
<1>3. CASE RunEnds(r)
  <2> PICK o \in Outcomes : runner' = [runner EXCEPT ![r] = o] /\ lastResult' = ResultAfter(o)
    BY <1>3 DEF RunEnds
  <2>1. o \in {"ok", "partial", "failed"}
    BY OutcomesAssumption
  <2>2. lastResult' \in {"none", "ok", "partial"}
    BY <2>1 DEF ResultAfter, TypeOK
  <2>3. runner' \in [Runners -> {"idle", "called", "scraping", "ok", "partial", "failed"}]
    BY <2>1 DEF TypeOK
  <2> QED BY <1>3, <2>2, <2>3 DEF RunEnds, TypeOK, data, dr
<1>4. CASE ScrapeReturns(r)
  <2>1. /\ comparing' \in BOOLEAN /\ queued' \in BOOLEAN /\ refresher' \in [Refreshers -> Places]
        /\ seen' \in [Refreshers -> Versions] /\ asked' \in Versions
    BY <1>4, RefreshAsyncType DEF ScrapeReturns, TypeOK, dr, Places
  <2> QED BY <1>4, <2>1 DEF ScrapeReturns, TypeOK, data, Places
<1> QED BY <1>1, <1>2, <1>3, <1>4 DEF Scraping

\* A change of the compared data leaves its version in bounds.
LEMMA ChangedType ==
  ASSUME TypeOK, Changed
  PROVE  world' \in Versions
BY BoundsAssumption DEF TypeOK, Changed, Versions

\* Every variable keeps its type in every step.
LEMMA TypeInductive ==
  ASSUME TypeOK, [Next]_vars
  PROVE  TypeOK'
<1>1. CASE RefreshIfIdle
  <2>1. comparing' \in BOOLEAN /\ queued' \in BOOLEAN /\ refresher' \in [Refreshers -> Places]
    BY <1>1, KickType DEF RefreshIfIdle, TypeOK, Places
  <2> QED BY <1>1, <2>1 DEF RefreshIfIdle, TypeOK, data, coordinator, Places
<1>2. CASE \E g \in Refreshers : Comparison(g)
  BY <1>2, ComparisonType
<1>3. ASSUME NEW h \in Hydrators, HydrateRead(h) \/ HydrateWrite(h) PROVE TypeOK'
  BY <1>3 DEF HydrateRead, HydrateWrite, TypeOK, data, dr, coordinator
<1>4. CASE Change \/ \E r \in Runners : ScrapeSaves(r)
  BY <1>4, ChangedType DEF Change, ScrapeSaves, TypeOK, dr, coordinator
<1>5. CASE Deploy
  <2>1. comparing' \in BOOLEAN /\ queued' \in BOOLEAN /\ refresher' \in [Refreshers -> Places]
    BY <1>5, KickType DEF Deploy, TypeOK, Places
  <2> QED BY <1>5, <2>1, ChangedType DEF Deploy, TypeOK, coordinator, Places
<1>6. CASE DRRefresh
  BY <1>6, RefreshAsyncType DEF DRRefresh, TypeOK, data, coordinator, Places
<1>7. ASSUME NEW r \in Runners, Scrape(r) PROVE TypeOK'
  BY <1>7 DEF Scrape, TypeOK, data, dr
<1>8. ASSUME NEW r \in Runners, Scraping(r) PROVE TypeOK'
  BY <1>8, ScrapingType
<1>9. CASE PeriodicScrape
  BY <1>9 DEF PeriodicScrape, TypeOK, data, dr, Runners
<1>10. CASE UNCHANGED vars
  BY <1>10 DEF vars, TypeOK, data, dr, coordinator
<1> QED BY <1>1, <1>2, <1>3, <1>4, <1>5, <1>6, <1>7, <1>8, <1>9, <1>10 DEF Next

\* The process starts with variables of their types.
LEMMA TypeInit == Init => TypeOK
<1> SUFFICES ASSUME Init PROVE TypeOK
  OBVIOUS
<1>1. 0 \in Versions /\ 0 \in 0..MaxScrapes
  BY BoundsAssumption DEF Versions
<1> QED BY <1>1 DEF Init, TypeOK

\* Every variable always has its type.
THEOREM Typing == Spec => []TypeOK
BY TypeInit, TypeInductive, PTL DEF Spec

------------------------------------------------------------------------------
\* One comparison at a time.

\* With the flag c and the goroutines at p: no two compare, and c says whether one does.
Alone(c, p) ==
  /\ \A g, h \in Refreshers : p[g] \in Working /\ p[h] \in Working => g = h
  /\ c <=> \E g \in Refreshers : p[g] \in Working

\* A kick starts a comparison only when there is none.
LEMMA KickAlone ==
  ASSUME comparing \in BOOLEAN, NEW queue, NEW others \in [Refreshers -> Places],
         Alone(comparing, others), Kick(queue, others)
  PROVE  Alone(comparing', refresher')
BY DEF Alone, Kick, Working

\* Every step leaves at most one comparison, and the flag true to it.
LEMMA AloneInductive ==
  ASSUME TypeOK, Alone(comparing, refresher), [Next]_vars
  PROVE  Alone(comparing', refresher')
<1>1. ASSUME NEW queue, Kick(queue, refresher) PROVE Alone(comparing', refresher')
  BY <1>1, KickAlone DEF TypeOK, Places
<1>2. CASE UNCHANGED dr
  BY <1>2 DEF dr
<1>3. ASSUME NEW g \in Refreshers, Comparison(g) PROVE Alone(comparing', refresher')
  <2>1. CASE Snapshot(g) \/ PersistSnapshot(g) \/ Publish(g)
    BY <2>1 DEF Snapshot, PersistSnapshot, Publish, Alone, Working, TypeOK
  <2>2. CASE Settle(g)
    BY <2>2 DEF Settle, Alone, Working, TypeOK
  <2>3. CASE Again(g)
    <3> DEFINE others == [refresher EXCEPT ![g] = "idle"]
    <3>1. others \in [Refreshers -> Places]
      BY DEF TypeOK, Places
    <3>2. Alone(comparing, others)
      BY <2>3 DEF Again, Alone, Working, TypeOK
    <3>3. Kick(TRUE, others)
      BY <2>3 DEF Again
    <3> QED BY <3>1, <3>2, <3>3, KickAlone DEF TypeOK
  <2> QED BY <1>3, <2>1, <2>2, <2>3 DEF Comparison
<1>4. CASE RefreshIfIdle \/ Deploy \/ DRRefresh
  BY <1>1, <1>4 DEF RefreshIfIdle, Deploy, DRRefresh, RefreshAsync
<1>5. ASSUME NEW r \in Runners, Scraping(r) PROVE Alone(comparing', refresher')
  BY <1>1, <1>2, <1>5 DEF Scraping, RunRefused, RunBegins, RunEnds, ScrapeReturns, RefreshAsync
<1>6. CASE \/ \E h \in Hydrators : HydrateRead(h) \/ HydrateWrite(h)
           \/ Change \/ PeriodicScrape
           \/ \E r \in Runners : Scrape(r) \/ ScrapeSaves(r)
  BY <1>2, <1>6 DEF HydrateRead, HydrateWrite, Change, PeriodicScrape, Scrape, ScrapeSaves
<1>7. CASE UNCHANGED vars
  BY <1>2, <1>7 DEF vars
<1> QED BY <1>3, <1>4, <1>5, <1>6, <1>7 DEF Next

\* The process starts with one goroutine comparing.
LEMMA AloneInit == Init => Alone(comparing, refresher)
BY DEF Init, Alone, Working

\* A set no two elements of which differ has at most one.
LEMMA AtMostOne ==
  ASSUME NEW S, \A x, y \in S : x = y
  PROVE  Cardinality(S) <= 1
<1>1. CASE S = {}
  BY <1>1, FS_EmptySet
<1>2. CASE S # {}
  <2>1. PICK x \in S : TRUE
    BY <1>2
  <2>2. S = {x}
    BY <2>1
  <2> QED BY <2>2, FS_Singleton
<1> QED BY <1>1, <1>2

\* At most one comparison reads the DR cluster at a time, and the flag the
\* dashboard polls says so, however many goroutines, tickers and handlers ask.
THEOREM ComparisonsAreAlone == Spec => []OneComparison
<1>1. Init => TypeOK /\ Alone(comparing, refresher)
  BY TypeInit, AloneInit
<1>2. TypeOK /\ Alone(comparing, refresher) /\ [Next]_vars => TypeOK' /\ Alone(comparing, refresher)'
  BY TypeInductive, AloneInductive
<1>3. Alone(comparing, refresher) => OneComparison
  <2> SUFFICES ASSUME Alone(comparing, refresher) PROVE OneComparison
    OBVIOUS
  <2>1. Cardinality({g \in Refreshers : InComparison(g)}) <= 1
    BY AtMostOne DEF Alone, Working, InComparison
  <2> QED BY <2>1 DEF Alone, Working, InComparison, OneComparison
<1> QED BY <1>1, <1>2, <1>3, PTL DEF Spec

------------------------------------------------------------------------------
\* One scrape at a time.

\* No two callers of Run are past its guard, and the flag says whether one is.
ScrapesAlone ==
  /\ \A r, q \in Runners : runner[r] = "scraping" /\ runner[q] = "scraping" => r = q
  /\ scraping <=> \E r \in Runners : runner[r] = "scraping"

\* Every step leaves at most one scrape, and the flag true to it.
LEMMA ScrapesAloneInductive ==
  ASSUME TypeOK, ScrapesAlone, [Next]_vars
  PROVE  ScrapesAlone'
<1>1. CASE UNCHANGED <<scraping, runner>>
  BY <1>1 DEF ScrapesAlone
<1>2. ASSUME NEW r \in Runners, RunBegins(r) PROVE ScrapesAlone'
  BY <1>2 DEF RunBegins, RunRefuses, ScrapesAlone, TypeOK
<1>3. ASSUME NEW r \in Runners, RunEnds(r) PROVE ScrapesAlone'
  <2> PICK o \in Outcomes : runner' = [runner EXCEPT ![r] = o]
    BY <1>3 DEF RunEnds
  <2>1. o # "scraping"
    BY OutcomesAssumption
  <2> QED BY <1>3, <2>1 DEF RunEnds, ScrapesAlone, TypeOK
<1>4. ASSUME NEW r \in Runners, RunRefused(r) \/ ScrapeReturns(r) \/ Scrape(r) PROVE ScrapesAlone'
  BY <1>4 DEF RunRefused, ScrapeReturns, Scrape, ScrapesAlone, TypeOK
<1>5. CASE PeriodicScrape
  BY <1>5 DEF PeriodicScrape, ScrapesAlone, TypeOK
<1>6. CASE \/ RefreshIfIdle \/ Change \/ Deploy \/ DRRefresh
           \/ \E g \in Refreshers : Comparison(g)
           \/ \E h \in Hydrators : HydrateRead(h) \/ HydrateWrite(h)
           \/ \E r \in Runners : ScrapeSaves(r)
  BY <1>1, <1>6 DEF RefreshIfIdle, Change, Deploy, DRRefresh, Comparison, Snapshot, PersistSnapshot,
     Publish, Settle, Again, HydrateRead, HydrateWrite, ScrapeSaves, coordinator
<1>7. CASE UNCHANGED vars
  BY <1>1, <1>7 DEF vars, coordinator
<1> QED BY <1>2, <1>3, <1>4, <1>5, <1>6, <1>7 DEF Next, Scraping

\* At most one scrape writes the store at a time, however many requests passed
\* the handler's look at the coordinator before one of them began.
THEOREM ScrapesAreAlone == Spec => []OneScrape
<1>1. Init => TypeOK /\ ScrapesAlone
  BY TypeInit DEF Init, ScrapesAlone
<1>2. TypeOK /\ ScrapesAlone /\ [Next]_vars => TypeOK' /\ ScrapesAlone'
  BY TypeInductive, ScrapesAloneInductive
<1>3. ScrapesAlone => OneScrape
  <2> SUFFICES ASSUME ScrapesAlone PROVE OneScrape
    OBVIOUS
  <2>1. Cardinality({r \in Runners : runner[r] = "scraping"}) <= 1
    BY AtMostOne DEF ScrapesAlone
  <2> QED BY <2>1 DEF ScrapesAlone, OneScrape
<1> QED BY <1>1, <1>2, <1>3, PTL DEF Spec

------------------------------------------------------------------------------
\* Statuses do not go back.

\* Nothing is newer than what there is to compare, and a comparison about to be
\* persisted has read no less than what is stored.
Fresh == /\ stored <= world
         /\ \A g \in Refreshers : seen[g] <= world
         /\ \A g \in Refreshers : refresher[g] = "persist" => stored <= seen[g]

\* A kick moves no goroutine to where it persists.
LEMMA KickFresh ==
  ASSUME TypeOK, Fresh, NEW queue, NEW others,
         \A h \in Refreshers : others[h] = "persist" => refresher[h] = "persist",
         others \in [Refreshers -> Places], Kick(queue, others),
         UNCHANGED <<stored, seen>>, world' >= world, world' \in Nat
  PROVE  Fresh'
<1>1. \A h \in Refreshers : refresher'[h] = "persist" => refresher[h] = "persist"
  BY DEF Kick
<1>2. stored \in Nat /\ world \in Nat /\ seen \in [Refreshers -> Nat]
  BY BoundsAssumption DEF TypeOK, Versions
<1>3. stored' <= world' /\ \A h \in Refreshers : seen'[h] <= world'
  BY <1>2 DEF Fresh
<1> QED BY <1>1, <1>3 DEF Fresh

\* Every step keeps comparisons fresh and the stored statuses as new as they are.
LEMMA FreshInductive ==
  ASSUME TypeOK, Alone(comparing, refresher), Fresh, [Next]_vars
  PROVE  Fresh' /\ stored' >= stored
<1> USE DEF Versions
<1>0. stored \in Nat /\ world \in Nat /\ seen \in [Refreshers -> Nat]
  BY DEF TypeOK
<1>1. CASE UNCHANGED <<stored, seen, refresher>> /\ (UNCHANGED world \/ Changed)
  BY <1>0, <1>1 DEF Fresh, Changed
<1>2. ASSUME NEW queue, Kick(queue, refresher), UNCHANGED <<stored, seen>>,
             UNCHANGED world \/ Changed
      PROVE  Fresh' /\ stored' >= stored
  <2>1. world' >= world /\ world' \in Nat
    BY <1>0, <1>2 DEF Changed
  <2>2. refresher \in [Refreshers -> Places]
    BY DEF TypeOK, Places
  <2>3. Fresh'
    BY <1>2, <2>1, <2>2, KickFresh
  <2> QED BY <1>0, <1>2, <2>3
<1>3. ASSUME NEW g \in Refreshers, Comparison(g) PROVE Fresh' /\ stored' >= stored
  <2>1. CASE Snapshot(g)
    BY <1>0, <2>1 DEF Snapshot, Fresh, TypeOK, data
  <2>2. CASE PersistSnapshot(g)
    <3>1. \A h \in Refreshers : refresher'[h] # "persist"
      BY <2>2 DEF PersistSnapshot, Alone, Working, TypeOK
    <3> QED BY <1>0, <2>2, <3>1 DEF PersistSnapshot, Fresh
  <2>3. CASE Publish(g) \/ Settle(g)
    BY <1>0, <2>3 DEF Publish, Settle, Fresh, TypeOK, data
  <2>4. CASE Again(g)
    <3> DEFINE others == [refresher EXCEPT ![g] = "idle"]
    <3>1. others \in [Refreshers -> Places] /\ \A h \in Refreshers : others[h] = "persist" => refresher[h] = "persist"
      BY DEF TypeOK, Places
    <3>2. Kick(TRUE, others) /\ UNCHANGED <<stored, world, seen>>
      BY <2>4 DEF Again, data
    <3>3. world' >= world /\ world' \in Nat
      BY <1>0, <3>2
    <3> HIDE DEF others
    <3>4. Fresh'
      BY <3>1, <3>2, <3>3, KickFresh
    <3> QED BY <1>0, <3>2, <3>4
  <2> QED BY <1>3, <2>1, <2>2, <2>3, <2>4 DEF Comparison
<1>4. CASE RefreshIfIdle \/ Deploy \/ DRRefresh
  BY <1>2, <1>4 DEF RefreshIfIdle, Deploy, DRRefresh, RefreshAsync, data
<1>5. ASSUME NEW r \in Runners, Scraping(r) PROVE Fresh' /\ stored' >= stored
  BY <1>1, <1>2, <1>5 DEF Scraping, RunRefused, RunBegins, RunEnds, ScrapeReturns, RefreshAsync, data, dr
<1>6. CASE \/ \E h \in Hydrators : HydrateRead(h) \/ HydrateWrite(h)
           \/ Change \/ PeriodicScrape
           \/ \E r \in Runners : Scrape(r) \/ ScrapeSaves(r)
  BY <1>1, <1>6 DEF HydrateRead, HydrateWrite, Change, PeriodicScrape, Scrape, ScrapeSaves, data, dr
<1>7. CASE UNCHANGED vars
  BY <1>1, <1>7 DEF vars, data, dr
<1> QED BY <1>3, <1>4, <1>5, <1>6, <1>7 DEF Next

\* The statuses in the store are never replaced by those of an older comparison,
\* although PersistSnapshot does not look at what it replaces.
THEOREM StatusesOnlyAdvance == Spec => StatusesNeverGoBack
<1> DEFINE I == TypeOK /\ Alone(comparing, refresher) /\ Fresh
<1>1. Init => I
  <2>1. Init => Fresh
    BY DEF Init, Fresh
  <2> QED BY <2>1, TypeInit, AloneInit
<1>2. I /\ [Next]_vars => I'
  BY TypeInductive, AloneInductive, FreshInductive
<1>3. I /\ [Next]_vars => [stored' >= stored]_vars
  BY FreshInductive
<1> QED BY <1>1, <1>2, <1>3, PTL DEF Spec, StatusesNeverGoBack

------------------------------------------------------------------------------
\* Asks are handed on.

\* No comparison is ahead of what there is, and one under way is not behind the last.
Advancing == /\ asked <= world /\ compared <= world
             /\ \A g \in Refreshers : /\ seen[g] <= world
                                      /\ refresher[g] \in {"persist", "publish"} => compared <= seen[g]

\* A kick moves no goroutine to where it has read.
LEMMA KickAdvances ==
  ASSUME TypeOK, Advancing, NEW queue, NEW others \in [Refreshers -> Places],
         \A h \in Refreshers : others[h] \in {"persist", "publish"} => others[h] = refresher[h],
         Kick(queue, others), UNCHANGED <<compared, seen>>, world' \in Nat, world' >= world,
         asked' <= world'
  PROVE  Advancing'
<1>1. \A h \in Refreshers : refresher'[h] \in {"persist", "publish"} => refresher[h] = refresher'[h]
  BY DEF Kick
<1>2. compared \in Nat /\ world \in Nat /\ seen \in [Refreshers -> Nat]
  BY BoundsAssumption DEF TypeOK, Versions
<1>3. compared' <= world' /\ \A h \in Refreshers : seen'[h] <= world'
  BY <1>2 DEF Advancing
<1> QED BY <1>1, <1>3 DEF Advancing

\* Every step keeps that.
LEMMA AdvancingInductive ==
  ASSUME TypeOK, Alone(comparing, refresher), Advancing, [Next]_vars
  PROVE  Advancing'
<1> USE DEF Versions
<1>0. /\ asked \in Nat /\ compared \in Nat /\ world \in Nat /\ seen \in [Refreshers -> Nat]
      /\ refresher \in [Refreshers -> Places]
  BY DEF TypeOK, Places
<1>1. CASE UNCHANGED <<compared, seen, refresher, asked>> /\ (UNCHANGED world \/ Changed)
  BY <1>0, <1>1 DEF Advancing, Changed
<1>2. ASSUME NEW queue, Kick(queue, refresher), UNCHANGED <<compared, seen>>,
             UNCHANGED world \/ Changed, asked' = asked \/ asked' = world'
      PROVE  Advancing'
  <2>1. world' >= world /\ world' \in Nat
    BY <1>0, <1>2 DEF Changed
  <2>2. asked' <= world'
    BY <1>0, <1>2, <2>1 DEF Advancing
  <2> QED BY <1>0, <1>2, <2>1, <2>2, KickAdvances
<1>3. ASSUME NEW g \in Refreshers, Comparison(g) PROVE Advancing'
  <2>1. CASE Snapshot(g)
    BY <1>0, <2>1 DEF Snapshot, Advancing, data
  <2>2. CASE PersistSnapshot(g)
    BY <1>0, <2>2 DEF PersistSnapshot, Advancing
  <2>3. CASE Publish(g)
    <3>1. \A h \in Refreshers : refresher'[h] \notin {"persist", "publish"}
      BY <1>0, <2>3 DEF Publish, Alone, Working
    <3> QED BY <1>0, <2>3, <3>1 DEF Publish, Advancing
  <2>4. CASE Settle(g)
    BY <1>0, <2>4 DEF Settle, Advancing, data
  <2>5. CASE Again(g)
    <3> DEFINE others == [refresher EXCEPT ![g] = "idle"]
    <3>1. others \in [Refreshers -> Places]
          /\ \A h \in Refreshers : others[h] \in {"persist", "publish"} => others[h] = refresher[h]
      BY <1>0 DEF Places
    <3>2. Kick(TRUE, others) /\ UNCHANGED <<compared, seen, world, asked>>
      BY <2>5 DEF Again, data
    <3>3. world' \in Nat /\ world' >= world /\ asked' <= world'
      BY <1>0, <3>2 DEF Advancing
    <3> HIDE DEF others
    <3> QED BY <3>1, <3>2, <3>3, KickAdvances
  <2> QED BY <1>3, <2>1, <2>2, <2>3, <2>4, <2>5 DEF Comparison
<1>4. CASE RefreshIfIdle \/ Deploy \/ DRRefresh
  BY <1>2, <1>4 DEF RefreshIfIdle, Deploy, DRRefresh, RefreshAsync, data
<1>5. ASSUME NEW r \in Runners, Scraping(r) PROVE Advancing'
  BY <1>1, <1>2, <1>5 DEF Scraping, RunRefused, RunBegins, RunEnds, ScrapeReturns, RefreshAsync, data, dr
<1>6. CASE \/ \E h \in Hydrators : HydrateRead(h) \/ HydrateWrite(h)
           \/ Change \/ PeriodicScrape
           \/ \E r \in Runners : Scrape(r) \/ ScrapeSaves(r)
  BY <1>1, <1>6 DEF HydrateRead, HydrateWrite, Change, PeriodicScrape, Scrape, ScrapeSaves, data, dr
<1>7. CASE UNCHANGED vars
  BY <1>1, <1>7 DEF vars, data, dr
<1> QED BY <1>3, <1>4, <1>5, <1>6, <1>7 DEF Next

\* An ask is queued, left to a scrape, or begins a comparison.
LEMMA AskIsAwaited ==
  ASSUME NEW others \in [Refreshers -> Places], Kick(TRUE, others),
         scraping => \E r \in Runners : runner'[r] = "scraping"
  PROVE  Awaited'
<1>1. CASE comparing /\ queued' = (queued \/ TRUE) /\ UNCHANGED comparing
  BY <1>1 DEF Awaited
<1>2. CASE scraping
  BY <1>2 DEF Awaited
<1>3. CASE \E g \in Refreshers : refresher' = [others EXCEPT ![g] = "snapshot"]
  BY <1>3 DEF Awaited
<1> QED BY <1>1, <1>2, <1>3 DEF Kick

\* A comparison leaves an ask behind only when it has answered it.
LEMMA ComparisonHandsOn ==
  ASSUME TypeOK, Alone(comparing, refresher), ScrapesAlone, Advancing, asked > compared => Awaited,
         NEW g \in Refreshers, Comparison(g)
  PROVE  (asked > compared => Awaited)'
<1>1. /\ asked \in Nat /\ compared \in Nat /\ world \in Nat /\ seen \in [Refreshers -> Nat]
      /\ refresher \in [Refreshers -> Places]
  BY BoundsAssumption DEF TypeOK, Places, Versions
<1>2. CASE Snapshot(g)
  BY <1>1, <1>2 DEF Snapshot, Awaited, Advancing
<1>3. CASE PersistSnapshot(g)
  BY <1>1, <1>3 DEF PersistSnapshot, Awaited, coordinator
<1>4. CASE Publish(g)
  <2> SUFFICES ASSUME asked > seen[g] PROVE Awaited'
    BY <1>1, <1>4 DEF Publish
  <2>1. Awaited
    BY <1>1, <1>4 DEF Publish, Advancing
  <2>2. \A h \in Refreshers : refresher[h] \in {"persist", "publish"} => h = g
    BY <1>4 DEF Publish, Alone, Working
  <2>3. \A h \in Refreshers : refresher[h] \in {"snapshot", "again"} => refresher'[h] = refresher[h]
    BY <1>1, <1>4 DEF Publish
  <2>4. ~(seen[g] >= asked)
    BY <1>1
  <2> QED BY <1>4, <2>1, <2>2, <2>3, <2>4 DEF Publish, Awaited, coordinator
<1>5. CASE Settle(g)
  <2>1. CASE queued
    BY <1>1, <1>5, <2>1 DEF Settle, Awaited
  <2>2. CASE ~queued
    <3>1. \A h \in Refreshers : refresher[h] # "settle" => refresher'[h] = refresher[h]
      BY <1>1, <1>5 DEF Settle
    <3> QED BY <1>5, <2>2, <3>1 DEF Settle, Awaited, data, coordinator
  <2> QED BY <2>1, <2>2
<1>6. CASE Again(g)
  <2>1. [refresher EXCEPT ![g] = "idle"] \in [Refreshers -> Places]
    BY <1>1 DEF Places
  <2> QED BY <1>6, <2>1, AskIsAwaited DEF Again, ScrapesAlone, coordinator
<1> QED BY <1>2, <1>3, <1>4, <1>5, <1>6 DEF Comparison

\* A scrape takes over the asks it drops, and makes them itself when it ends: unless it
\* has no result or, when it is a periodic one, an error.
LEMMA ScrapeHandsOn ==
  ASSUME TypeOK, ScrapesAlone, asked > compared => Awaited, NEW r \in Runners, Scraping(r)
  PROVE  \/ (asked > compared => Awaited)'
         \/ /\ runner[r] = "failed" \/ (r = Ticker /\ runner[r] = "partial")
            /\ runner'[r] = "idle"
<1>1. runner \in [Runners -> {"idle", "called", "scraping", "ok", "partial", "failed"}]
      /\ refresher \in [Refreshers -> Places]
  BY DEF TypeOK, Places
<1>2. CASE RunRefused(r)
  <2>1. \A q \in Runners : runner[q] # "called" => runner'[q] = runner[q]
    BY <1>1, <1>2 DEF RunRefused
  <2> QED BY <1>2, <2>1 DEF RunRefused, Awaited, data, dr
<1>3. CASE RunBegins(r)
  BY <1>1, <1>3 DEF RunBegins, Awaited
<1>4. CASE RunEnds(r)
  <2>1. PICK o \in Outcomes : runner' = [runner EXCEPT ![r] = o]
    BY <1>4 DEF RunEnds
  <2>2. runner'[r] \in {"ok", "partial", "failed"}
    BY <1>1, <2>1, OutcomesAssumption
  <2> QED BY <2>2 DEF Awaited
<1>5. CASE ScrapeReturns(r)
  <2>1. CASE Asks(r)
    <3>1. scraping => \E q \in Runners : runner'[q] = "scraping"
      BY <1>1, <1>5 DEF ScrapeReturns, ScrapesAlone
    <3>2. Kick(TRUE, refresher)
      BY <1>5, <2>1 DEF ScrapeReturns, RefreshAsync
    <3> QED BY <1>1, <3>1, <3>2, AskIsAwaited
  <2>2. CASE ~Asks(r)
    <3>1. runner[r] \in {"ok", "partial", "failed"} /\ runner'[r] = "idle"
      BY <1>1, <1>5 DEF ScrapeReturns
    <3>2. CASE r = Ticker
      BY <2>2, <3>1, <3>2 DEF Asks
    <3>3. CASE r # Ticker
      BY <2>2, <3>1, <3>3 DEF Asks
    <3> QED BY <3>1, <3>2, <3>3
  <2> QED BY <2>1, <2>2
<1> QED BY <1>2, <1>3, <1>4, <1>5 DEF Scraping

\* Every step hands the asks on, but for the end of a scrape that asks for nothing.
LEMMA HandedOn ==
  ASSUME TypeOK, Alone(comparing, refresher), ScrapesAlone, Advancing, asked > compared => Awaited,
         [Next]_vars
  PROVE  \/ (asked > compared => Awaited)'
         \/ \E r \in Runners : /\ runner[r] = "failed" \/ (r = Ticker /\ runner[r] = "partial")
                               /\ runner'[r] = "idle"
<1>1. refresher \in [Refreshers -> Places]
  BY DEF TypeOK, Places
<1>2. CASE /\ UNCHANGED <<asked, compared, comparing, queued, refresher, seen>>
           /\ \A r \in Runners : runner[r] # "idle" => runner'[r] = runner[r]
  BY <1>2 DEF Awaited
<1>3. CASE RefreshIfIdle
  <2>1. Kick(FALSE, refresher) /\ UNCHANGED <<asked, compared, seen, runner>>
    BY <1>3 DEF RefreshIfIdle, data, coordinator
  <2>2. CASE UNCHANGED <<comparing, refresher>>
    BY <2>1, <2>2 DEF Kick, Awaited
  <2>3. CASE \E g \in Refreshers : refresher' = [refresher EXCEPT ![g] = "snapshot"]
    BY <1>1, <2>3 DEF Awaited
  <2> QED BY <2>1, <2>2, <2>3 DEF Kick
<1>4. CASE Deploy \/ DRRefresh
  <2>1. Kick(TRUE, refresher) /\ UNCHANGED runner
    BY <1>4 DEF Deploy, DRRefresh, RefreshAsync, coordinator
  <2> QED BY <1>1, <2>1, AskIsAwaited DEF ScrapesAlone
<1>5. ASSUME NEW r \in Runners, Scrape(r) \/ PeriodicScrape \/ ScrapeSaves(r)
      PROVE  (asked > compared => Awaited)'
  BY <1>2, <1>5 DEF Scrape, PeriodicScrape, ScrapeSaves, TypeOK, data, dr, coordinator
<1>6. CASE Change \/ \E h \in Hydrators : HydrateRead(h) \/ HydrateWrite(h)
  BY <1>2, <1>6 DEF Change, HydrateRead, HydrateWrite, data, dr, coordinator
<1>7. CASE UNCHANGED vars
  BY <1>2, <1>7 DEF vars, data, dr, coordinator
<1>8. PeriodicScrape => Ticker \in Runners
  BY DEF Runners
<1> QED BY <1>3, <1>4, <1>5, <1>6, <1>7, <1>8, ComparisonHandsOn, ScrapeHandsOn DEF Next

\* Asks are lost nowhere else than at the end of a scrape that asks for nothing: not
\* when a comparison settles while somebody asks, nor to a scrape that ends well.
THEOREM AsksHandedOn == Spec => AsksAreHandedOn
<1> DEFINE I == TypeOK /\ Alone(comparing, refresher) /\ ScrapesAlone /\ Advancing
<1>1. Init => I
  <2>1. Init => Advancing /\ ScrapesAlone
    BY DEF Init, Advancing, ScrapesAlone
  <2> QED BY <2>1, TypeInit, AloneInit
<1>2. I /\ [Next]_vars => I'
  BY TypeInductive, AloneInductive, ScrapesAloneInductive, AdvancingInductive
<1>3. I /\ [Next]_vars
      => [(asked > compared => Awaited) =>
            \/ (asked > compared => Awaited)'
            \/ \E r \in Runners : /\ runner[r] = "failed" \/ (r = Ticker /\ runner[r] = "partial")
                                  /\ runner'[r] = "idle"]_vars
  BY HandedOn
<1> QED BY <1>1, <1>2, <1>3, PTL DEF Spec, AsksAreHandedOn
=============================================================================
