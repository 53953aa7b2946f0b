\* Every component by itself, each with the bounds of its own constants.
SPECIFICATION SysSpec
CONSTANTS
  Components = {"ring", "manager", "spread", "lifecycle", "table", "client", "state", "stream"}
  RingSilos = {1, 2, 3}
  HashMax = 3
  Vnodes = 2
  Probed = 1
  l1 = l1
  l2 = l2
  l3 = l3
  Links = {l1, l2}
  Dialler <- MCDialler
  NoLink = NoLink
  Stoppable = {1}
  MaxCuts = 1
  MaxFailures = 1
  MaxCancels = 1
  Nodes = {n1, n2, n3}
  Late = {n3}
  ReadsSuspend = FALSE
  MaxVersion = 3
  MaxCrashes = 1
  MaxLosses = 1
  register = register
  cluster = cluster
  runtime = runtime
  services = services
  agent = agent
  gateway = gateway
  Participants = {register, cluster, runtime, services, agent, gateway}
  StageOf <- MCStageOf
  LastStage = 5
  Registrar = register
  Procs = {p1, p2}
  RowIds = {r1}
  Stores = {"file", "postgres"}
  MaxTable = 3
  MaxCrashed = 1
  Calls = {k1, k2}
  Attempts = 2
  MaxDials = 3
  MaxOutages = 1
  Copies = {x, y}
  Keepers = {"file", "postgres"}
  MaxChange = 2
  MaxStores = 3
  Subscribers = {s1, s2, s3}
  Events = {e1}
  MaxLists = 3
INVARIANTS OwnerIsNearest JoinersGetTheirKeys 
INVARIANTS ServicesOutliveUsers NothingIsLeftOn FileSnapshotsAgree
INVARIANTS AnswersMatchCalls WaitersAreRead EachGetsItOnce
PROPERTIES KeysMoveOnlyWithSilos  
PROPERTIES RingCatchesUpInCompany VotesNeverLost  NoLostUpdate
CHECK_DEADLOCK FALSE
