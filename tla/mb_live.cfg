\* Three silos, two of them needed to declare the third, which crashes or stops.
SPECIFICATION FairSpec
CONSTANTS
  Silos = {s1, s2, s3}
  Mortal = {s1}
  NumVotes = 2
  MissLimit = 2
  VotesExpire = FALSE
  TableFails = FALSE
  Flaky = {}
  Beaters = {s1}
  MaxVersion = 12
  BeatVersion = 4
PROPERTIES CrashedIsDeclared
CHECK_DEADLOCK FALSE
