\* Two calls race through a suspending storage.read.
SPECIFICATION Spec
CONSTANTS
  Grains = {g1}
  Calls = {c1, c2}
  Scheduled = {}
  Collector = collector
  Stopper = stopper
  Hooked = {}
  ReadSuspends = TRUE
  InboxMax = 2
  Sentinel = sentinel
  None = none
INVARIANT SingleActivation
CHECK_DEADLOCK FALSE
