------------------------------ MODULE MCSessions ------------------------------
(***************************************************************************)
(* A small instance of Sessions for TLC.                                   *)
(***************************************************************************)
EXTENDS Sessions

CONSTANTS l1, l2,  \* logins
          i1       \* a session id

Text(secret, form, length) == [secret |-> secret, form |-> form, length |-> length]
Name == Text("NAME", "raw", 21)
Unset == [n \in {} |-> NoText]
In(text) == [encryption |-> [inline |-> text, env |-> NoText], environ |-> Unset]

\* Upper-case digits in the field for a variable's name, the same secret in a
\* variable, another secret that is hashed, and one that is too short.
Misplaced == [encryption |-> [inline |-> NoText, env |-> Text("one", "HEX", 64)], environ |-> Unset]
Variable == [encryption |-> [inline |-> NoText, env |-> Name],
             environ |-> [n \in {Name} |-> Text("one", "hex", 64)]]
Other == In(Text("two", "raw", 40))
Short == In(Text("one", "raw", 20))

MCConfigs == {Misplaced, Variable, Other, Short}
MCSecretOf == [c \in MCConfigs |-> IF c = Other THEN "two" ELSE "one"]
MCNames == {"admin", "ann"}
MCSymmetry == Permutations({l1, l2})
MCGrants == {"operator"}
=============================================================================
