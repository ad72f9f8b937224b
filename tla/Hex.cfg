SPECIFICATION Spec
CONSTANTS
  Formats = {"hex16", "hex32"}
  Span = 3
  Paragraph = 2
  Bank = 4
  Values = {0, 1}
  MaxAddress = 3
  MaxBytes = 3
  LongRuns = FALSE
INVARIANTS
  BytesWritten
PROPERTIES
  WritesImage
