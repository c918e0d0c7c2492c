-------------------------- MODULE MCSharedDrawQueue --------------------------
(* Instance of SharedDrawQueue for TLC: the smallest commands that tell two *)
(* calls apart.                                                             *)
EXTENDS SharedDrawQueue

CONSTANTS x1, x2, white

MCPositions == {x1, x2}
MCColors == {white}

=============================================================================
