SPECIFICATION LoadSpec
CONSTANTS
  Null = Null
  NoFilter = NoFilter
  Files <- MCFiles
  Filters <- MCFilters
  RowsPerByte = 2
  Int32Half = 2
  NumThreads = 2
  MaxRuns = 5
  MaxLoads = 2
INVARIANTS
  LoadTypeOK
  LoadExact
  BytesApart
