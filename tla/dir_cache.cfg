\* One deactivation while every ring is the same; callers keep what they cached.
SPECIFICATION DirSpec
CONSTANTS
  Silos = {1, 2, 3}
  Grains = {g1}
  Calls = {c1, c2, c3, c4}
  NodesOf <- MCNodes
  HashOf <- MCHash
  Blank = {}
  Mortal = {}
  Callers = {1, 2}
  Views = {}
  ReadSuspends = FALSE
  MaxChanges = 0
  MaxDeactivations = 1
INVARIANTS SingleHostOnStableRing
CHECK_DEADLOCK FALSE
