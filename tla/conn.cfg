\* One permit for requests and one for handlers, streams that always have room, any
\* cut, cancellation, late answer and close.
SPECIFICATION ConnFairSpec
CONSTANTS
  there = there
  back = back
  again = again
  ping = ping
  Requests = {there, back, again, ping}
  Pings = {ping}
  Origin <- MCOrigin
  Cause <- MCCause
  Mixes <- MCMixes
  NoReq = NoReq
  MaxInFlight = 1
  MaxInbound = 1
  MaxId = 2
  BufferRoom = 0
  Closers = {"a"}
  Impatient = {there}
  CutsAllowed = TRUE
INVARIANTS ConnTypeOK WaitersArePending
PROPERTIES RequestPromise RequestsEnd
CHECK_DEADLOCK FALSE
