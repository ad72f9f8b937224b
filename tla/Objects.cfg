SPECIFICATION ObjectSpec
CONSTANTS
  Builds <- AllBuilds
  Directives <- SmallDirectives
  Tables <- SmallTables
  Bytes = {144}
  References <- SmallReferences
  Words <- SmallWords
  Moves = {2}
  Skips = {1}
  MaxItems = 3
  ChunkSize = 4
  Letters <- AllLetters
  Stream <- SmallStream
INVARIANTS
  TypeOK
  BlocksSound
  RelStreamReads
  RecordsHoldBytes
  RegionsApart
  HeadersFindBytes
  SymbolsFound
  RelocationsFound
  WordsResolve
