------------------------ MODULE MCPixelFlutTCPSource ------------------------
(* Instance of PixelFlutTCPSource for TLC: one descriptor more than there   *)
(* may be clients, and one address more than that.                          *)
EXTENDS PixelFlutTCPSource

MCDescriptors == 4 .. 6
MCAddresses == 1 .. 4

=============================================================================
