----------------------------- MODULE MCRenderer -----------------------------
(* Instance of Renderer for TLC: four objects can be shared in every way by *)
(* the renderer and two images of a caller's own.                           *)
EXTENDS Renderer

CONSTANTS GS8

MCFormats == {NoFormat, RGBA32, GS8}

=============================================================================
