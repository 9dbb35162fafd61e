\* Start-up, then two threads list and serve a file that changes.
SPECIFICATION PromptSpec
CONSTANTS
  Servers = {t1, t2}
  Starter = main
  Loads = {TRUE, FALSE}
  DeltaSecs = 0
  MaxTime = 1
  MaxVersion = 2
INVARIANTS StatusIsLock MappingsOwned
PROPERTIES HeldEntryFixed GetReturns
