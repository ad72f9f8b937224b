SPECIFICATION Spec
CONSTANTS
  Numbers = {1, 2}
  Streams <- AllStreams
  MaxLength = 5
INVARIANTS
  ListsExact
  LatestExact
PROPERTIES
  BindsNearest
