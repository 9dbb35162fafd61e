\* One producer, one consumer: the logger's q and qdel.
SPECIFICATION FairSpec
CONSTANTS
  Producers = {p1}
  Consumers = {c1}
  PushModes = {TRUE, FALSE}
  PopModes = {TRUE, FALSE}
  QSpace = 3
  MaxCalls = 5
INVARIANTS NoSlotRace IInv
PROPERTIES EveryElementDelivered EveryCallReturns
