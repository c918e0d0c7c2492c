-------------------------- MODULE PixelFlutSource ---------------------------
(***************************************************************************)
(* How PixelFlutSource understands and answers one command.  Text is a     *)
(* sequence of symbols: words, spaces and newlines.  A word stands for the *)
(* characters between two separators; of its digits the model knows only   *)
(* how wide the number prints that atoi() makes of them, and that          *)
(* strncmp() accepts every prefix of a command's name.  Tokens are taken   *)
(* to fit tokenBuffer.                                                     *)
(***************************************************************************)
EXTENDS Naturals, Sequences, Enumeration

CONSTANTS
  PrintedWidth,   \* for each word: the digits of atoi() of it, as uint32_t
  OutCmdMaxLen    \* OUT_CMD_MAX_LEN

Space == " "
Newline == "\n"

IsSeparator(symbol) == symbol \in {Space, Newline}

Words == DOMAIN PrintedWidth
Symbols == Words \cup {Space, Newline}

ASSUME SourceAssumption ==
  /\ \A word \in Words : PrintedWidth[word] \in 1 .. 10 /\ ~IsSeparator(word)
  /\ OutCmdMaxLen \in Nat
  /\ OutCmdMaxLen >= 32

\* The positions in a sequence of what passes a test, in order.
Positions(s, Test(_)) == Ascending({i \in DOMAIN s : Test(s[i])})

\* What passes the test, in this order.
Those(s, Test(_)) == LET at == Positions(s, Test) IN [k \in DOMAIN at |-> s[at[k]]]

\* The pieces of the text that end at the given positions, those excluded.
Pieces(text, ends) ==
  [k \in DOMAIN ends |-> SubSeq(text, IF k = 1 THEN 1 ELSE ends[k - 1] + 1, ends[k] - 1)]

\* The tokens parseCmd() sees.  Every separator ends one, which may be empty;
\* what follows the last separator is no token.
Tokens(text) == Pieces(text, Positions(text, IsSeparator))

\* getCmdType() compares as many characters as the token has: an empty token
\* and every prefix of a name will do.
CmdType(token) ==
  CASE token \in {<<>>, <<"P">>, <<"PX">>} -> "PX"
    [] token \in {<<"S">>, <<"SI">>, <<"SIZ">>, <<"SIZE">>} -> "SIZE"
    [] OTHER -> "unknown"

Invalid == [kind |-> "invalid", args |-> <<>>]

\* handleCmd(): three arguments draw a pixel, two ask for one.
HandleCmd(text) ==
  LET tokens == Tokens(text)
      type == CmdType(Head(tokens))
      result(kind) == [kind |-> kind, args |-> Tail(tokens)]
  IN CASE type = "PX" /\ Len(tokens) = 4 -> result("draw")
       [] type = "PX" /\ Len(tokens) = 3 -> result("read")
       [] type = "SIZE" /\ Len(tokens) = 1 -> result("size")
       [] OTHER -> Invalid

-----------------------------------------------------------------------------
(* The reply                                                               *)

\* What %u prints for an argument; an empty token is 0.
ArgWidth(token) == IF token = <<>> THEN 1 ELSE PrintedWidth[Head(token)]

\* Mutant of PxLength: "%08x".
PxLengthWide(args) == 14 + ArgWidth(args[1]) + ArgWidth(args[2])

\* The length snprintf() returns for "PX %u %u %06x\n"; a pixel has no more
\* than six digits.
PxLength(args) == 12 + ArgWidth(args[1]) + ArgWidth(args[2])

\* What reaches the client.  All the characters that snprintf() counted are sent,
\* but the last of the buffer is a NUL: the newline only arrives if it fits.
\* The reply to SIZE has at most 27 characters.
Reply(result) ==
  [kind  |-> result.kind,
   args  |-> result.args,
   ended |-> result.kind = "read" => PxLength(result.args) < OutCmdMaxLen]

\* Only these two commands are answered: handleCmd() returns 0 or less for others.
IsAnswered(result) == result.kind \in {"read", "size"}

Replies(results) ==
  LET answered == Those(results, IsAnswered)
  IN [k \in DOMAIN answered |-> Reply(answered[k])]

=============================================================================
