------------------------------ MODULE MCDrawIF ------------------------------
(* Instance of DrawIF for TLC: a position inside the image and one outside, *)
(* or, where only termination matters, a single command.                    *)
EXTENDS DrawIF

CONSTANTS white

MCPositions == {0, Width}
MCOnePosition == {0}
MCColors == {white}

=============================================================================
