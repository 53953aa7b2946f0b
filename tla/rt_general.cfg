\* One hooked grain, suspending storage, a full inbox, every kind of task.
SPECIFICATION Spec
CONSTANTS
  Grains = {g1}
  Calls = {c1, c2}
  Scheduled = {d1}
  Collector = collector
  Stopper = stopper
  Hooked = {g1}
  ReadSuspends = TRUE
  InboxMax = 1
  Sentinel = sentinel
  None = none
SYMMETRY CallSymmetry
INVARIANTS TypeOK  WaitingIsAccountedFor OnActivateFirst
PROPERTY FuturesWriteOnce
CHECK_DEADLOCK FALSE
