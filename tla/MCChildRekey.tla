---------------------------- MODULE MCChildRekey ----------------------------
(* Finite instances of ChildRekey for TLC. *)
EXTENDS ChildRekeyProps

Case(ordered, early, refuses, rekeys, deletes, rejects, failures) ==
    [ordered : ordered, early : early, refuses : refuses, keeps : {TRUE}, rekeys : {rekeys},
     deletes : {deletes}, rejects : {rejects}, failures : {failures}]

\* Three rekeyings that collide with each other in every way.
Collisions == Case({TRUE}, {TRUE}, {FALSE}, 3, 0, 0, 0)

\* A user deletes a CHILD_SA that is being rekeyed, with and without reordering.
Deletions == Case({TRUE}, {TRUE}, {FALSE}, 2, 1, 1, 0)
             \cup Case({FALSE}, {TRUE}, {FALSE}, 2, 1, 0, 0)

\* A peer refuses, or the new SA cannot be installed.
Refusals == Case(BOOLEAN, {FALSE}, {TRUE}, 2, 0, 1, 0)
Failures == Case({FALSE}, {TRUE}, {FALSE}, 2, 0, 1, 1)

\* Rekeyed CHILD_SAs are destroyed at once.
Unkept == {[s EXCEPT !.keeps = FALSE] : s \in Case(BOOLEAN, {FALSE}, {FALSE}, 2, 1, 0, 0)}

MCScenarios == Unkept \cup Collisions \cup Deletions \cup Refusals \cup Failures

\* Two rekeyings of the same CHILD_SA over a network that reorders messages.
Reordered == Case({FALSE}, {FALSE}, {FALSE}, 2, 0, 0, 0)
=============================================================================
