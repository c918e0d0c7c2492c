-------------------------------- MODULE Pixel --------------------------------
(***************************************************************************)
(* The colour of one pixel, from the token of a client to the reply to one.*)
(* A word of four bytes is written from its most significant byte on; a    *)
(* byte goes from 0 to Max.                                                *)
(***************************************************************************)
EXTENDS Integers

CONSTANT Max  \* 255

ASSUME PixelAssumption == Max \in Nat \ {0}

Byte == 0 .. Max

Channels == {"red", "green", "blue"}

\* PixelType, whose alpha no drawing changes.
Pixels == [Channels -> Byte]

Words == [1 .. 4 -> Byte]

Black == [ch \in Channels |-> 0]

\* Mutant of Opaque: a token of six digits is not told apart.
OpaqueNever(digits, word) == word

\* The third argument of PX: a colour of six digits gets the alpha of an opaque
\* one, behind the others.
Opaque(digits, word) == IF digits = 6 THEN <<word[2], word[3], word[4], Max>> ELSE word

\* The bytes of a drawing colour as pixelAlphaBlend() takes them.
Alpha(word) == word[4]

Channel(word) == [ch \in Channels |-> CASE ch = "red"   -> word[3]
                                        [] ch = "green" -> word[2]
                                        [] ch = "blue"  -> word[1]]

\* Mutant of Blend: the two weights are exchanged.
BlendSwapped(old, new, alpha) == (old * alpha + new * (Max - alpha)) \div Max

\* One channel of pixelAlphaBlend().
Blend(old, new, alpha) == (old * (Max - alpha) + new * alpha) \div Max

\* pixelToRgba(), which the reply prints with at least six digits.
ToRgba(pixel) == <<0, pixel["blue"], pixel["green"], pixel["red"]>>

=============================================================================
