CONSTANTS
  a = a
  b = b
  Null = Null
  NumThreads = 3
  MaxDispatches = 3
  BufferSize = 2
  RowsPerPage = 3
  Keys <- MCKeys
  Queries <- MCQueries
SPECIFICATION Spec
INVARIANTS
  TypeOK
  QueryExact
  UnitsTakenOnce
PROPERTIES
  QueryEnds
