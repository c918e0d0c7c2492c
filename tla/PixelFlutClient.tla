-------------------------- MODULE PixelFlutClient ---------------------------
(***************************************************************************)
(* One connection of PixelFlutTCPSource: the peer sends lines, recv()      *)
(* returns whatever part of them has arrived, and handleClient() cuts the  *)
(* commands out of dataBuffer.                                             *)
(***************************************************************************)
EXTENDS PixelFlutSource, FiniteSets

CONSTANTS
  Lines,          \* the lines a peer may send, each with its newline
  MaxLines,       \* bound on the lines of one connection
  NetBufferSize   \* NET_BUFFER_SIZE, in symbols

ASSUME ClientAssumption ==
  /\ MaxLines \in Nat
  /\ NetBufferSize \in Nat \ {0}
  /\ Lines \subseteq Seq(Symbols)
  /\ \A line \in Lines : \A i \in 1 .. Len(line) : line[i] = Newline <=> i = Len(line)
  /\ \A line \in Lines : line # <<>>

VARIABLES
  sent,           \* history: the lines the peer has sent
  inFlight,       \* symbols that are sent and not received
  dataBuffer,     \* symbols that are received and not handled
  handled,        \* history: the results of handleCmd()
  replies         \* history: what was sent to the peer

clientVars == <<sent, inFlight, dataBuffer, handled, replies>>

ClientInit ==
  /\ sent = <<>>
  /\ inFlight = <<>>
  /\ dataBuffer = <<>>
  /\ handled = <<>>
  /\ replies = <<>>

-----------------------------------------------------------------------------

\* Mutant of CommandEnds: find() from lastNlIdx + 2 on, as it also skips the
\* second character of a line.
CommandEndsSparse(buffer) ==
  Ascending({i \in DOMAIN buffer : i > 2 /\ buffer[i] = Newline})

\* Where handleClient() finds newlines.  Its first search starts at index 1 of
\* the buffer, so that a newline in front is not seen.
CommandEnds(buffer) ==
  Ascending({i \in DOMAIN buffer : i > 1 /\ buffer[i] = Newline})

\* The text it hands to handleCmd().  From the second command on cmdStrLen is
\* one too large: the symbol behind the newline goes with it.
CommandTexts(buffer) ==
  LET ends == CommandEnds(buffer)
  IN [k \in DOMAIN ends |->
        IF k = 1 THEN SubSeq(buffer, 1, ends[1])
                 ELSE SubSeq(buffer, ends[k - 1] + 1,
                             IF ends[k] < Len(buffer) THEN ends[k] + 1 ELSE ends[k])]

\* Mutant of Rest: erase(0, lastValidNlIdx), which leaves the newline.
RestWithNewline(buffer) ==
  LET ends == CommandEnds(buffer)
  IN IF ends = <<>> THEN buffer ELSE SubSeq(buffer, ends[Len(ends)], Len(buffer))

\* What erase() leaves for the next time.
Rest(buffer) ==
  LET ends == CommandEnds(buffer)
  IN IF ends = <<>> THEN buffer ELSE SubSeq(buffer, ends[Len(ends)] + 1, Len(buffer))

-----------------------------------------------------------------------------

SendLine ==
  /\ Len(sent) < MaxLines
  /\ \E line \in Lines :
       /\ sent' = Append(sent, line)
       /\ inFlight' = inFlight \o line
  /\ UNCHANGED <<dataBuffer, handled, replies>>

\* recv() and handleClient().
ReceiveAndHandle ==
  \E n \in 1 .. Len(inFlight) :
    /\ n <= NetBufferSize
    /\ inFlight' = SubSeq(inFlight, n + 1, Len(inFlight))
    /\ LET buffer == dataBuffer \o SubSeq(inFlight, 1, n)
           texts == CommandTexts(buffer)
           results == [k \in DOMAIN texts |-> HandleCmd(texts[k])]
       IN /\ handled' = handled \o results
          /\ replies' = replies \o Replies(results)
          /\ dataBuffer' = Rest(buffer)
    /\ UNCHANGED sent

ClientNext == SendLine \/ ReceiveAndHandle

ClientSpec == ClientInit /\ [][ClientNext]_clientVars

-----------------------------------------------------------------------------
(* Properties                                                              *)

Texts == Seq(Symbols)
Kinds == {"draw", "read", "size", "invalid"}

\* What is received and sent are lines and results, and what is answered are
\* questions (handleClient).
ClientTypeOK ==
  /\ sent \in Seq(Lines)
  /\ inFlight \in Texts
  /\ dataBuffer \in Texts
  /\ handled \in Seq([kind : Kinds, args : Seq(Texts)])
  /\ replies \in Seq([kind : {"read", "size"}, args : Seq(Texts), ended : BOOLEAN])

\* The lines that have been received to their ends.
Complete == SubSeq(sent, 1, Len(sent) - Cardinality({i \in DOMAIN inFlight : inFlight[i] = Newline}))

\* Words and separators alternate, from a word on.
Regular(line) == \A i \in DOMAIN line : IsSeparator(line[i]) <=> i % 2 = 0

WordsOf(line) == Those(line, LAMBDA s : ~IsSeparator(s))

\* What is meant by a line: its words, of which the first may be abbreviated
\* (PixelFlutSource::getCmdType).
Meaning(line) ==
  LET words == WordsOf(line)
  IN CASE Head(words) \in {"P", "PX"} /\ Len(words) = 4 -> "draw"
       [] Head(words) \in {"P", "PX"} /\ Len(words) = 3 -> "read"
       [] Head(words) \in {"S", "SI", "SIZ", "SIZE"} /\ Len(words) = 1 -> "size"
       [] OTHER -> "invalid"

\* Its arguments, each as a text.
Arguments(line) == [k \in 1 .. Len(WordsOf(line)) - 1 |-> <<WordsOf(line)[k + 1]>>]

\* However TCP cuts or merges the lines, each is handled once, in order, as
\* soon as it is complete, as what it means, and with the coordinates and the
\* colour that were sent: nothing of a neighbouring line gets in.  A line that
\* begins with a separator (a blank line, above all) or has two in a row excepts
\* the connection.
HandledAsSent ==
  (\A n \in DOMAIN sent : Regular(sent[n])) =>
    /\ Len(handled) = Len(Complete)
    /\ \A n \in DOMAIN handled :
         /\ handled[n].kind = Meaning(Complete[n])
         /\ handled[n].kind # "invalid" => handled[n].args = Arguments(Complete[n])

\* The peer can match replies and questions by counting lines: each complete
\* question is answered once, in the order of the questions, and the answer names
\* the coordinates that were asked for and ends in a newline.  Only if both
\* coordinates take ten digits, the newline does not fit into outCmd
\* (PixelFlutSource::handleCmd, handleClient).
RepliesAsAsked ==
  (\A n \in DOMAIN sent : Regular(sent[n])) =>
    LET questions == Those(Complete, LAMBDA line : Meaning(line) \in {"read", "size"})
        asked(n) == Arguments(questions[n])
        long(n) == Len(asked(n)) = 2 /\ \A i \in 1 .. 2 : ArgWidth(asked(n)[i]) = 10
    IN /\ Len(replies) = Len(questions)
       /\ \A n \in DOMAIN replies : /\ replies[n].args = asked(n)
                                    /\ replies[n].ended \/ long(n)

\* Whatever the peer sends, no complete line waits in the buffer until more
\* data arrives, except the one blank line that is in front of it.
NoLineWaits == \A i \in DOMAIN dataBuffer : dataBuffer[i] = Newline => i = 1

=============================================================================
