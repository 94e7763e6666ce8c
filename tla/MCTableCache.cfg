CONSTANTS
  Queries <- MCQueries
  NumPages <- MCNumPages
  Unfiltered <- MCUnfiltered
  MaxColumns = 3
SPECIFICATION Spec
INVARIANTS
  TypeOK
  CacheExact
  OwnedOnce
