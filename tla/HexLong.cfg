SPECIFICATION Spec
CONSTANTS
  Formats = {"hex16", "hex32"}
  Span = 3
  Paragraph = 2
  Bank = 8
  Values = {0, 1}
  MaxAddress = 5
  MaxBytes = 4
  LongRuns = TRUE
INVARIANTS
  BytesWritten
