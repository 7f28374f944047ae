--------------------------- MODULE MCOrchestrator ---------------------------
(* Small instances of the orchestrator for TLC. *)
EXTENDS Orchestrator, FiniteSets, TLC

CONSTANTS s1, i1

\* One service on an image of its own.
OneImage == [s \in Service |-> i1]

\* Digests are numbered in the order they were built.
ByNumber == [d \in Digest |-> d]

\* A compose file that says nothing about digests and patterns.
Plain == [pinned |-> FALSE, pattern |-> "accepts", blocked |-> {},
          nets |-> Network]
PlainOnly == {Plain}

\* Requests are interchangeable, and so are networks.
RequestSymmetry == Permutations(Request) \cup Permutations(Network)

\* Bound on restarts and clients that leave, together.
MaxTroubles == 1

\* State constraint: how many disturbances of its actions a behaviour may hold.
FewTroubles ==
    restarts + Cardinality({r \in Request : cancelled[r]}) <= MaxTroubles
=============================================================================
