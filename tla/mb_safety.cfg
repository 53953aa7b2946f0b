\* A silo that stops or crashes, and whose probes may fail, is voted on by two others;
\* votes expire and the table may be unavailable.
SPECIFICATION Spec
CONSTANTS
  Silos = {s1, s2, s3}
  Mortal = {s1}
  NumVotes = 2
  MissLimit = 1
  VotesExpire = TRUE
  TableFails = TRUE
  Flaky = {s1}
  Beaters = {s1}
  MaxVersion = 6
  BeatVersion = 4
SYMMETRY SiloSymmetry
INVARIANTS TypeOK DeadHasQuorum
PROPERTIES VotesKept NeverResurrected
CHECK_DEADLOCK FALSE
