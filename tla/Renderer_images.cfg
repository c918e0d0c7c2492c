SPECIFICATION Spec
CONSTANTS
  Callers = {a, b}
  Objects = {d1, d2, d3, d4}
  nullptr = nullptr
  Wild = Wild
  RGBA32 = RGBA32
  NoFormat = NoFormat
  GS8 = GS8
  Formats <- MCFormats
INVARIANTS CountsReferences OpHoldsItsPixels OpMatchesFormat
PROPERTIES ImplementsSharedData
