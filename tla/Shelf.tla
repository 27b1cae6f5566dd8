------------------------------- MODULE Shelf -------------------------------
(***************************************************************************)
(* What the hub promises of every document, with no sweep, no inbox and no *)
(* process in sight: a document is absent, listed with one build, or in    *)
(* its grace period; it is listed only once its files are there; its files *)
(* stay while it is listed and for the whole grace period after.           *)
(***************************************************************************)
EXTENDS Integers

CONSTANTS Paths, Builds, Grace, None

VARIABLES
    shelf,   \* shelf[p]: the build p is listed with, or None
    left,    \* left[p]: when p left the shelf, or None once that is forgotten
    kept,    \* the documents that have files on disk
    clock

vars == <<shelf, left, kept, clock>>

Init ==
    /\ shelf = [p \in Paths |-> None]
    /\ left = [p \in Paths |-> None]
    /\ kept = {}
    /\ clock = 0

\* Files appear before the document does.
Prepare(p) ==
    /\ kept' = kept \cup {p}
    /\ UNCHANGED <<shelf, left, clock>>

Publish(p, b) ==
    /\ p \in kept
    /\ shelf' = [shelf EXCEPT ![p] = b]
    /\ left' = [left EXCEPT ![p] = None]
    /\ UNCHANGED <<kept, clock>>

Withdraw(p) ==
    /\ shelf[p] # None
    /\ shelf' = [shelf EXCEPT ![p] = None]
    /\ left' = [left EXCEPT ![p] = clock]
    /\ UNCHANGED <<kept, clock>>

\* The files go, and only those of a document that left more than Grace ago.
Discard(p) ==
    /\ left[p] # None
    /\ left[p] < clock - Grace
    /\ kept' = kept \ {p}
    /\ UNCHANGED <<shelf, left, clock>>

\* Files that could not be unlinked are forgotten with the rest.
Forget(p) ==
    /\ left[p] # None
    /\ left[p] < clock - Grace
    /\ left' = [left EXCEPT ![p] = None]
    /\ UNCHANGED <<shelf, kept, clock>>

Tick == clock' = clock + 1 /\ UNCHANGED <<shelf, left, kept>>

Next ==
    \/ \E p \in Paths : Prepare(p) \/ Withdraw(p) \/ Discard(p) \/ Forget(p)
    \/ \E p \in Paths, b \in Builds : Publish(p, b)
    \/ Tick

Spec == Init /\ [][Next]_vars
=============================================================================
