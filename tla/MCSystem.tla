------------------------------ MODULE MCSystem ------------------------------
(* Small instances of the whole system for TLC. *)
EXTENDS System, FiniteSets, TLC

CONSTANTS s1, i1

\* One service on an image of its own.
OneImage == [s \in Service |-> i1]

\* Digests are numbered in the order they were built.
ByNumber == [d \in Digest |-> d]

\* A compose file that says nothing about digests and patterns.
Plain == [pinned |-> FALSE, pattern |-> "accepts", blocked |-> {},
          nets |-> Network]
PlainOnly == {Plain}

\* That, one with a tag pattern which the tag does not match, and one that is
\* pinned, disables updates, and whose pattern is not one.
ThreeKinds == {Plain, [Plain EXCEPT !.pattern = "rejects"],
               [Plain EXCEPT !.pattern = "invalid", !.pinned = TRUE, !.blocked = {"updating"}]}

\* No document yet.
FirstBoot == {NoRow}

\* Requests are interchangeable.
RequestSymmetry == Permutations(Request)
=============================================================================
