\* Three silos, of which one may just be joining and another may crash: calls through
\* the directory and its caches, a membership change, a deactivation.
SPECIFICATION DirFairSpec
CONSTANTS
  Silos = {1, 2, 3}
  Grains = {g1}
  Calls = {c1, c2}
  NodesOf <- MCNodes
  HashOf <- MCHash
  Blank = {3}
  Mortal = {1}
  Callers = {2, 3}
  Views = {{1, 2, 3}, {2, 3}}
  ReadSuspends = TRUE
  MaxChanges = 2
  MaxDeactivations = 1
INVARIANTS DirTypeOK SingleHostUndisturbed EpochCoversEntries
PROPERTIES  RebuildFindsHosts
CHECK_DEADLOCK FALSE
