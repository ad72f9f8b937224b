SPECIFICATION Spec
CONSTANTS
  Sources <- SmallSources
  MaxReplacements = 14
INVARIANTS
  ExpandsInPlace
  LinesOfFile
  PlainMacrosSafe
