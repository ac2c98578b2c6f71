SPECIFICATION MCSpec
CONSTANTS
  Byte <- TwoBytes
  Wild = Wild
  Modules <- SmallModules
  Images <- SmallImages
  Patterns <- SmallPatterns
  Limits = {0, 1, 2}
  UINT32_MAX = 7
  Dll <- ThreeDlls
  AtStart <- LoadedAtStart
  Missing = "D"
  ExportTables <- SmallExports
  ImportTables <- SmallImports
  Requests <- SmallRequests
INVARIANTS NothingSkipped AnswersFirst PatternAsWritten CodeIsSearched ExportFound ImportFound
PROPERTIES ScanEnds LookupEnds
