\* Malformed decisions and a listener that throws: order, locking and delivery.
SPECIFICATION FairSpec
CONSTANTS
  BreakCounter = 2
  MaxDecisions = 3
  MaxReceived = 4
  MaxThrows = 1
  MaxMalformed = 1
INVARIANT NeverLostNorRepeated
PROPERTIES ImplementsFeed LoopEnds EveryDecisionDelivered
