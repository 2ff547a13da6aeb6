\* Up to two streams of one client.
SPECIFICATION FairSpec
CONSTANTS
  Streams = {s1, s2}
  NoTimer = NoTimer
  MaxLoops = 3
INVARIANT LoneStreamKeepsPolling
PROPERTIES NothingArmedWhilePaused PausedFallsSilent
