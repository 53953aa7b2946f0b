\* Storage that does not suspend and a single deactivator at a time (the idle
\* collector, then stop): the setting in which single activation holds.
SPECIFICATION FairSpec
CONSTANTS
  Grains = {g1, g2}
  Calls = {c1, c2}
  Scheduled = {}
  Collector = collector
  Stopper = stopper
  Hooked = {g1}
  ReadSuspends = FALSE
  InboxMax = 6
  Sentinel = sentinel
  None = none
INVARIANTS SingleActivation NoOrphan HostedIsRegistered
 
CHECK_DEADLOCK FALSE
