CONSTANTS
  NumThreads = 3
  MaxDispatches = 2
  MaxSpurious = 1
SPECIFICATION Spec
INVARIANTS
  TypeOK
  TaskFrameAlive
  CountMatches
  NoLostWakeup
PROPERTIES
  CallReturns
  DestructorEnds
  ForkJoinSpec
