\* Streams without room for a second frame: a peer that does not read.
SPECIFICATION ConnFairSpec
CONSTANTS
  there = there
  back = back
  again = again
  ping = ping
  Requests = {there, back, again, ping}
  Pings = {ping}
  Origin <- MCOrigin
  Cause <- MCCause
  Mixes <- MCMixes
  NoReq = NoReq
  MaxInFlight = 1
  MaxInbound = 1
  MaxId = 2
  BufferRoom = 0
  Closers = {}
  Impatient = {}
  CutsAllowed = FALSE
PROPERTIES TimersEndRequests
CHECK_DEADLOCK FALSE
