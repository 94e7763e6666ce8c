SPECIFICATION Spec
CONSTANTS
  NumThreads = 3
  MaxDispatches = 2
  MaxTasks = 4
  MaxSpurious = 1
INVARIANTS
  TypeOK
  EveryTaskOnce
  NoLostWakeup
PROPERTIES
  RunReturns
  DestructorEnds
  ForkJoinSpec
