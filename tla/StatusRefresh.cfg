SPECIFICATION FairSpec
CONSTANTS
  g1 = g1  g2 = g2  g3 = g3  p = p  q1 = q1  q2 = q2  h1 = h1
  Refreshers = {g1, g2}
  Requests = {q1}
  Ticker = p
  Hydrators = {h1}
  Outcomes <- AllOutcomes
  Background = TRUE
  MaxWorld = 1
  MaxScrapes = 2
INVARIANTS
  TypeOK
  OneComparison
  OneScrape
PROPERTIES
  StatusesNeverGoBack
  AsksAreHandedOn
  AsksAreAnswered
  DashboardCatchesUp
