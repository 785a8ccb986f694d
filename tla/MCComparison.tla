----------------------------- MODULE MCComparison -----------------------------
(***************************************************************************)
(* Small instances of Comparison for TLC.                                  *)
(***************************************************************************)
EXTENDS Comparison, TLC

CONSTANTS a, b,       \* name stems
          c1, c2,     \* contents
          e1, e2,     \* edit requests
          clean, pvc  \* warning lists: none, and a storage warning

MCStems == {a, b}
OneResource == {<<a, 0>>}
TwoResources == {<<a, 0>>, <<b, 0>>}
TwoContents == {c1, c2}
AllVerdicts == {synced, drifted, missing}
NothingToWarn == [c \in {c1, c2} |-> clean]
WarnOfSecond == [c \in {c1, c2} |-> IF c = c2 THEN pvc ELSE clean]
MCSymmetry == Permutations({a, b})
=============================================================================
