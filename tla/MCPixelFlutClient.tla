------------------------- MODULE MCPixelFlutClient --------------------------
(* Instance of PixelFlutClient for TLC: lines that draw, read, ask for the  *)
(* size, are malformed or begin with a separator; coordinates of one, nine  *)
(* and ten digits.                                                          *)
EXTENDS PixelFlutClient

DrawLine == <<"PX", " ", "1", " ", "2", " ", "c0ffee", "\n">>
ReadLine == <<"PX", " ", "300000000", " ", "-4", "\n">>
FarLine == <<"PX", " ", "-5", " ", "-6", "\n">>
SizeLine == <<"SIZE", "\n">>
ShortLine == <<"PX", " ", "5", "\n">>
UnknownLine == <<"OK", "\n">>
BlankLine == <<"\n">>
IndentedLine == <<" ", "6", " ", "7", "\n">>

MCLines ==
  {DrawLine, ReadLine, FarLine, SizeLine, ShortLine, UnknownLine, BlankLine, IndentedLine}

\* Negative numbers are printed as large ones.
MCPrintedWidth ==
  [w \in {"PX", "SIZE", "OK", "1", "2", "c0ffee", "300000000", "-4", "-5", "-6", "5", "6", "7"} |->
     CASE w = "300000000" -> 9
       [] w \in {"-4", "-5", "-6"} -> 10
       [] OTHER -> 1]

=============================================================================
