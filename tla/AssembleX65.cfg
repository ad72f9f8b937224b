SPECIFICATION AssembleSpec
CONSTANTS
  Programs <- X65Programs
  Names = {"a", "b", "c"}
  MaxSection = 1
  DefaultText = TRUE
  Target = "x65"
  Reach = 4
  MaxOffset = 40
  Formats = {"bin"}
  Attributes = {}
PROPERTIES
  OffsetsGrow
  Halts
  Generates
