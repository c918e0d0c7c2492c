---------------------------- MODULE MCSharedPixel ----------------------------
(* Instance of SharedPixel for TLC: bytes from 0 to 3, colours that are     *)
(* opaque by their length or their alpha, half transparent, and one digit   *)
(* short.                                                                   *)
EXTENDS SharedPixel

MCTokens ==
  {[digits |-> 6, word |-> <<0, 1, 2, 3>>],
   [digits |-> 6, word |-> <<0, 3, 0, 1>>],
   [digits |-> 8, word |-> <<3, 1, 0, 1>>],
   [digits |-> 8, word |-> <<0, 2, 3, 0>>],
   [digits |-> 5, word |-> <<0, 1, 3, 2>>]}

=============================================================================
