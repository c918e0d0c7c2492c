---------------------------- MODULE MCArgParser -----------------------------
(* Instance of ArgParser for TLC: four of the arguments of main() with      *)
(* numbers of four bits, and lists in which two arguments clash.  5 is in   *)
(* the range of a width, 9 is not, 20 is 4 in four bits.                    *)
EXTENDS ArgParser

Text(n, d) == [number |-> n, dash |-> d, yes |-> FALSE]

\* "1-2": strtoul() stops at the dash.
MCTexts == {TrueText, Text(5, FALSE), Text(9, FALSE), Text(20, FALSE), Text(1, TRUE)}

Argument(s, l, type, mandatory, default, valid) ==
  [short |-> s, long |-> l, type |-> type, mandatory |-> mandatory,
   default |-> default, valid |-> valid]

Help == Argument("h", "help", "callback", FALSE, TrueText, {})
Display == Argument("d", "display", "string", FALSE, Text(0, FALSE), MCTexts)
Width == Argument("", "width", "unsigned", TRUE, 0, 1 .. 6)
Fullscreen == Argument("f", "fullscreen", "bool", FALSE, FALSE, BOOLEAN)

\* Clash with Display by their short, and with Width by their long name.
Depth == Argument("d", "depth", "unsigned", FALSE, 0, 0 .. 15)
OtherWidth == Argument("w", "width", "unsigned", FALSE, 0, 0 .. 15)

MCCandidateLists ==
  {<<Help, Display, Width, Fullscreen>>,
   <<Display, Width, Depth>>,
   <<Width, Display, OtherWidth>>}

Long(name) == [form |-> "long", name |-> name]
Short(name) == [form |-> "short", name |-> name]

MCOptions == {Long("help"), Long("width"), Short(""), Short("d"), Short("f"), Short("x")}

=============================================================================
