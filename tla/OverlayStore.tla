----------------------------- MODULE OverlayStore -----------------------------
(***************************************************************************)
(* What the manifest store promises an operator: every resource has the    *)
(* content last scraped from the source cluster and, while a local copy is *)
(* kept, that copy.  A scrape replaces the first and never changes the     *)
(* second; it may drop a copy that it finds equal to the new content.      *)
(* There are no files, no index and no crashes here.                       *)
(***************************************************************************)
CONSTANTS Resources, Contents, None

VARIABLES source,  \* resource -> content scraped last, or None
          copy     \* resource -> local copy, or None

view == <<source, copy>>

Init == /\ source = [r \in Resources |-> None]
        /\ copy = [r \in Resources |-> None]

\* A copy equal to the new content goes now or at a later scrape.
Scrape(r, c) == /\ source' = [source EXCEPT ![r] = c]
                /\ \/ UNCHANGED copy
                   \/ copy[r] = c /\ copy' = [copy EXCEPT ![r] = None]

Edit(r, c) == /\ source[r] # None
              /\ copy' = [copy EXCEPT ![r] = IF source[r] = c THEN None ELSE c]
              /\ UNCHANGED source

Discard(r) == /\ copy' = [copy EXCEPT ![r] = None]
              /\ UNCHANGED source

\* An excluded resource goes; its copy goes with it or, if the removal is cut
\* short, later.
Drop(r) == /\ source' = [source EXCEPT ![r] = None]
           /\ copy' \in {copy, [copy EXCEPT ![r] = None]}

Next == \E r \in Resources : \/ \E c \in Contents : Scrape(r, c) \/ Edit(r, c)
                             \/ Discard(r)
                             \/ Drop(r)

Spec == Init /\ [][Next]_view
=============================================================================
