\* A refresh while the file is being sent.
SPECIFICATION PromptSpec
CONSTANTS
  Servers = {t1, t2}
  Starter = main
  Loads = {TRUE}
  DeltaSecs = 0
  MaxTime = 1
  MaxVersion = 2
INVARIANT LockedDataMapped
SYMMETRY ThreadSymmetry
