\* Two blocking producers: acceptqueue filled by two threads.
SPECIFICATION Spec
CONSTANTS
  Producers = {p1, p2}
  Consumers = {c1}
  PushModes = {TRUE}
  PopModes = {FALSE}
  QSpace = 3
  MaxCalls = 4
INVARIANT ClaimHasRoom
