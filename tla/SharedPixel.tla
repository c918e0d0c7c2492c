----------------------------- MODULE SharedPixel -----------------------------
(***************************************************************************)
(* A pixel that the main thread draws and the receive thread reads, with   *)
(* no lock between them.  The three channels are stored and loaded one by  *)
(* one; as this is a data race, in any order the compiler may choose.      *)
(***************************************************************************)
EXTENDS Pixel

CONSTANTS
  Tokens,   \* colours as clients write them: their digits, and strtoul() of them
  Inside,   \* positions of the image, which are all like this pixel
  Outside   \* positions that readPixel() refuses

ASSUME SharedPixelAssumption == Tokens \subseteq [digits : Nat, word : Words]

VARIABLES
  pixel,    \* the pixel in the image
  drawing,  \* the channels drawPoint() has not stored yet
  token,    \* the colour it draws
  busy,     \* getPixel() runs
  reading,  \* the channels it has not loaded yet
  loaded,   \* and those it has loaded
  reply,    \* what readPixel() returned last
  before,   \* history: the pixel as the last complete drawing left it
  last,     \* history: the colour of that drawing
  overlap   \* history: a drawing and this read overlap

pixelVars == <<pixel, drawing, token, busy, reading, loaded, reply, before, last, overlap>>
drawVars == <<pixel, drawing, token, before, last>>
readVars == <<busy, reading, loaded, reply>>

\* The colour drawPoint() gets for a token.
ColorOf(t) == Opaque(t.digits, t.word)

BlackToken == [digits |-> 6, word |-> <<0, 0, 0, 0>>]

\* FloodFill's constructor paints the image black.
PixelInit ==
  /\ pixel = Black
  /\ drawing = {}
  /\ token = BlackToken
  /\ busy = FALSE
  /\ reading = {}
  /\ loaded = Black
  /\ reply = <<0, 0, 0, 0>>
  /\ before = Black
  /\ last = BlackToken
  /\ overlap = FALSE

-----------------------------------------------------------------------------
(* The main thread                                                         *)

DrawPoint ==
  /\ drawing = {}
  /\ token' \in Tokens
  /\ drawing' = Channels
  /\ overlap' = busy
  /\ UNCHANGED <<pixel, before, last, readVars>>

StoreChannel(ch) ==
  /\ ch \in drawing
  /\ pixel' = [pixel EXCEPT ![ch] =
                 Blend(@, Channel(ColorOf(token))[ch], Alpha(ColorOf(token)))]
  /\ drawing' = drawing \ {ch}
  /\ IF drawing' = {} THEN before' = pixel' /\ last' = token
                      ELSE UNCHANGED <<before, last>>
  /\ UNCHANGED <<token, readVars, overlap>>

-----------------------------------------------------------------------------
(* The receive thread                                                      *)

\* readPixel() of a position outside the image.
ReadOutside ==
  /\ ~busy
  /\ Outside # {}
  /\ reply' = <<0, 0, 0, 0>>
  /\ UNCHANGED <<drawVars, busy, reading, loaded, overlap>>

GetPixel ==
  /\ ~busy
  /\ Inside # {}
  /\ busy' = TRUE
  /\ reading' = Channels
  /\ overlap' = (drawing # {})
  /\ UNCHANGED <<drawVars, loaded, reply>>

\* Mutant of LoadChannel: one channel is loaded for all.
LoadRed(ch) ==
  /\ ch \in reading
  /\ loaded' = [loaded EXCEPT ![ch] = pixel["red"]]
  /\ reading' = reading \ {ch}
  /\ UNCHANGED <<drawVars, busy, reply, overlap>>

LoadChannel(ch) ==
  /\ ch \in reading
  /\ loaded' = [loaded EXCEPT ![ch] = pixel[ch]]
  /\ reading' = reading \ {ch}
  /\ UNCHANGED <<drawVars, busy, reply, overlap>>

Return ==
  /\ busy
  /\ reading = {}
  /\ busy' = FALSE
  /\ reply' = ToRgba(loaded)
  /\ loaded' = Black
  /\ overlap' = FALSE
  /\ UNCHANGED <<drawVars, reading>>

PixelNext ==
  \/ DrawPoint
  \/ \E ch \in Channels : StoreChannel(ch) \/ LoadChannel(ch)
  \/ ReadOutside \/ GetPixel \/ Return

PixelSpec == PixelInit /\ [][PixelNext]_pixelVars

-----------------------------------------------------------------------------
(* Properties                                                              *)

\* Every channel fits into its byte, whatever is blended into it.
PixelTypeOK ==
  /\ pixel \in Pixels
  /\ drawing \subseteq Channels
  /\ token \in Tokens \cup {BlackToken}
  /\ busy \in BOOLEAN
  /\ reading \subseteq Channels
  /\ loaded \in Pixels
  /\ reply \in Words
  /\ before \in Pixels
  /\ last \in Tokens \cup {BlackToken}
  /\ overlap \in BOOLEAN

Between(x, y, z) == (x <= y /\ y <= z) \/ (z <= y /\ y <= x)

\* While a pixel is drawn, whoever reads it finds each channel between what it
\* was and the colour that is drawn; an opaque colour is reached, and one that
\* is transparent leaves no trace.
BlendsBetween ==
  \A ch \in Channels :
    LET goal == Channel(ColorOf(token))[ch]
        alpha == Alpha(ColorOf(token))
    IN IF ch \in drawing \/ drawing = {}
         THEN pixel[ch] = before[ch]
         ELSE /\ Between(before[ch], pixel[ch], goal)
              /\ alpha = Max => pixel[ch] = goal
              /\ alpha = 0 => pixel[ch] = before[ch]

\* A reply mixes two colours only when a drawing of the pixel overlapped the
\* call.  The lock-free read needs no more than that nobody draws meanwhile.
WholeUnlessOverlapped == busy /\ reading = {} /\ ~overlap => loaded = before

\* A client that draws a colour of six digits gets those six digits back,
\* unless somebody draws the pixel again: through the order of the bytes in the
\* colour, the blending, and the order of the bytes in the reply.
ReadsBack ==
  busy /\ reading = {} /\ ~overlap /\ last.digits = 6 =>
    ToRgba(loaded) = <<0, last.word[2], last.word[3], last.word[4]>>

=============================================================================
