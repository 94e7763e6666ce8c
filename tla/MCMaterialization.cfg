CONSTANTS
  PageSize = 15
  BitsPerByte = 2
  Width = 4
  DataBegin = 4
  Reserve = 4
  Null = 0
  MaxRows = 9
  StrPageSize = 16
  PageIds = 6
  Sizes = {0, 3, 9, 10, 30}
  MaxStrRows = 5
  NumThreads = 3
  MaxDispatches = 1
  Picks <- MCPicks
SPECIFICATION MaterializationSpec
INVARIANTS
  PartsTypeOK
  ReadBack
  StringsReadBack
  ScanExact
  PagesFit
  HandlesExact
  ResultExact
