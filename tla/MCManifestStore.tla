--------------------------- MODULE MCManifestStore ---------------------------
(***************************************************************************)
(* Small instances of ManifestStore for TLC.                               *)
(***************************************************************************)
EXTENDS ManifestStore, TLC

CONSTANTS a, b,       \* name stems
          c1, c2, c3, \* contents
          synced, drifted,
          clean, pvc  \* warning lists: none, and a storage warning

MCStems == {a, b}
OneResource == {<<a, 0>>}
TwoResources == {<<a, 0>>, <<b, 0>>}
TwoContents == {c1, c2}
ThreeContents == {c1, c2, c3}
NothingToWarn == [c \in {c1, c2, c3} |-> clean]
WarnOfSecond == [c \in {c1, c2} |-> IF c = c2 THEN pvc ELSE clean]
MCSymmetry == Permutations({a, b})
=============================================================================
