--------------------------- MODULE MCStatusRefresh ---------------------------
(***************************************************************************)
(* Small instances of StatusRefresh for TLC.                               *)
(***************************************************************************)
EXTENDS StatusRefresh, TLC

CONSTANTS g1, g2, g3,  \* refresh goroutines
          p,           \* periodicScrape
          q1, q2,      \* scrape requests
          h1           \* a handler that hydrates

MCSymmetry == Permutations({g1, g2, g3})
AllOutcomes == {"ok", "partial", "failed"}
=============================================================================
