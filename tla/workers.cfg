\* Two producers that do not rely on the same slot, as many threads as two pushes
\* can create, and destroy.
SPECIFICATION FairSpec
CONSTANTS
  Producers = {p1, p2}
  Workers = {w1, w2}
  QSpace = 3
  MaxActive = 1
  MaxPush = 3
  MaxSpurious = 1
  MayDestroy = TRUE
INVARIANTS IInv AsleepMeansDone DestroyedQuiet
PROPERTIES AlwaysRoom EveryPushProcessed DestroyCompletes
CHECK_DEADLOCK FALSE
