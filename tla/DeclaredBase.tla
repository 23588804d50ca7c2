---------------------------- MODULE DeclaredBase ----------------------------
(***************************************************************************)
(* What loading a document promises: in one step, the catalogue that the   *)
(* document declares.                                                      *)
(***************************************************************************)
CONSTANTS
    Documents,    \* the base_requests arrays
    Declared(_),  \* the catalogue that an array declares
    NotLoaded     \* no catalogue

VARIABLES
    requests,  \* base_requests
    base       \* the loaded catalogue, NotLoaded before

Init == requests \in Documents /\ base = NotLoaded

Load == base = NotLoaded /\ base' = Declared(requests) /\ UNCHANGED requests

\* Load is taken, once: the same as its weak fairness.
Spec == Init /\ [][Load]_<<requests, base>> /\ <>(base # NotLoaded)
=============================================================================
