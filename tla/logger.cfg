\* Two threads log, one of them exits, the flush thread flushes, the owner may
\* destroy; one buffer fits in either queue, or two and q may get two writers.
SPECIFICATION PromptSpec
CONSTANTS
  a1 = a1
  a2 = a2
  Appenders = {a1, a2}
  Exiters = {a2}
  FlushCount = 0
  MaxLines = 3
  Spare = {w2}
  Scenarios <- MCScenarios
INVARIANTS
  LinesInOrder
  ChunksOwned
PROPERTIES CallsReturn HandedIsWritten
CHECK_DEADLOCK FALSE
