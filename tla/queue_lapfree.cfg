\* Two producers and two consumers, as around acceptqueue, lap-free.
SPECIFICATION LapFreeSpec
CONSTANTS
  Producers = {p1, p2}
  Consumers = {c1, c2}
  PushModes = {TRUE, FALSE}
  PopModes = {FALSE}
  QSpace = 3
  MaxCalls = 4
INVARIANTS FifoOK ClaimedSlotsFree
PROPERTIES ImplementsFifo
SYMMETRY ThreadSymmetry
