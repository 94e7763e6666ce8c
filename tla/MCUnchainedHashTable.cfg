CONSTANTS
  a = a
  b = b
  c = c
  d = d
  Null = Null
  NumThreads = 2
  NumPartitions = 4
  EntriesPerChunk = 2
  HashRange = 8
  Capacities = {4, 8}
  Keys <- MCKeys
  Hash <- MCHash
  Tag <- MCTag
  Columns <- MCColumns
  Tuples = 3
SPECIFICATION Spec
INVARIANTS
  TypeOK
  LookupExact
  NoSlotRace
  CopyTargetFree
PROPERTIES
  BuildEnds
