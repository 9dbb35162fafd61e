\* Three threads ask for two paths that have no entry yet.
SPECIFICATION PromptSpec
CONSTANTS
  Threads = {t1, t2, t3}
  Paths = {a, b}
  MaxFail = 1
INVARIANTS NoTableRace IInv
PROPERTIES GetReturns
\* Two upgrading readers wait for each other for ever.
CHECK_DEADLOCK FALSE
