SPECIFICATION PixelSpec
CONSTANTS
  Max = 3
  Tokens <- MCTokens
  Inside = {0}
  Outside = {1}
INVARIANTS BlendsBetween WholeUnlessOverlapped ReadsBack
