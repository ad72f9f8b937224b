SPECIFICATION AssembleSpec
CONSTANTS
  Programs <- OutputPrograms
  Names = {"a", "b"}
  MaxSection = 2
  DefaultText = TRUE
  Target = "x86"
  Reach = 4
  MaxOffset = 60
  Formats = {"bin", "rel", "elf"}
  Attributes <- TwoSections
INVARIANTS
  InStep
  FileIsExpansion
  FillsBounded
  BranchesLand
