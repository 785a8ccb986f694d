------------------------------ MODULE MCDeployer ------------------------------
(***************************************************************************)
(* Small instances of Deployer for TLC.                                    *)
(***************************************************************************)
EXTENDS Deployer, TLC

CONSTANTS here, there,  \* namespaces
          q1, q2,       \* requests
          f, g, v       \* fields and their value

secret == [kind |-> "Secret", name |-> 1]
app == [kind |-> "Deployment", name |-> 1]
app2 == [kind |-> "Deployment", name |-> 2]

Both == [x \in {f, g} |-> v]
Only == [x \in {f} |-> v]

OnlyBoth == {Both}
MCSymmetry == Permutations({q1, q2})

MCEntries == {secret, app, app2}

Manifest(n, name, data) == [namespace |-> n, name |-> name, data |-> data]

\* The local copy of app2 may be renamed to the object of app, which has another
\* content, or moved to the other namespace.
MCDocuments(e) ==
  IF e = secret THEN {Manifest(here, 1, Both)}
  ELSE IF e = app THEN {Manifest(here, 1, Only)}
  ELSE {Manifest(here, 2, Both), Manifest(here, 1, Both), Manifest(there, 2, Both)}
=============================================================================
