------------------------------- MODULE Mirror -------------------------------
(***************************************************************************)
(* What a projection promises: a source and a replica with the same keys.  *)
(* While a key is `agreed' neither side of it changes and both hold the    *)
(* same value; a key is agreed only at a moment when they do.              *)
(***************************************************************************)
CONSTANT Key
VARIABLES source, replica, agreed

vars == <<source, replica, agreed>>

Init == agreed = Key /\ \A k \in Key : source[k] = replica[k]

\* f changes at k only.
ChangesAt(k, f, g) == \A x \in Key \ {k} : g[x] = f[x]

\* k is being worked on: its source may change at once.
Open(k) ==
    /\ k \in agreed
    /\ agreed' = agreed \ {k}
    /\ ChangesAt(k, source, source')
    /\ UNCHANGED replica

\* One side of a key that is being worked on changes.
Work(k) ==
    /\ k \notin agreed
    /\ \/ ChangesAt(k, source, source') /\ UNCHANGED replica
       \/ ChangesAt(k, replica, replica') /\ UNCHANGED source
    /\ UNCHANGED agreed

\* The last change to one side makes both equal.
Close(k) ==
    /\ k \notin agreed
    /\ agreed' = agreed \cup {k}
    /\ \/ ChangesAt(k, source, source') /\ UNCHANGED replica
       \/ ChangesAt(k, replica, replica') /\ UNCHANGED source
    /\ source'[k] = replica'[k]

Next == \E k \in Key : Open(k) \/ Work(k) \/ Close(k)

Spec == Init /\ [][Next]_vars
=============================================================================
