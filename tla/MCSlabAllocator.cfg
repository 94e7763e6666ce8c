CONSTANTS
  NumThreads = 2
  NumPartitions = 2
  SmallsPerLarge = 3
  TuplesPerSmall = 3
  Totals = {5, 24}
  MaxBuilds = 2
SPECIFICATION SlabSpec
INVARIANTS
  SlabTypeOK
  NoSharedChunk
PROPERTIES
  EntriesApart
