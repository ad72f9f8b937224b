SPECIFICATION Spec
CONSTANTS
  Programs <- X86Programs
  Names = {"a", "b", "c"}
  MaxSection = 2
  DefaultText = FALSE
  Target = "x86"
  Reach = 4
  MaxOffset = 60
INVARIANTS
  TypeOK
  NoOverlap
  NoGap
  LabelsExact
  FormsSettled
  ChainsFollowStream
  BlocksNest
  BlocksExact
