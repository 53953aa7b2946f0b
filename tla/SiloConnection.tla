--------------------------- MODULE SiloConnection ---------------------------
(***************************************************************************)
(* Both ends of one silo-to-silo connection (connection.py) with their     *)
(* tables of pending requests (pending.py).  Both ends run the same code:  *)
(* one read loop, a lock around writes, a bounded number of handlers, a    *)
(* bounded number of requests in flight, a timer for every request.        *)
(* A stream delivers its frames in order until it is cut.  A request may   *)
(* be made by the handler of another one, on the way back.  One-way        *)
(* messages are requests that nobody waits for and are left out, and so is *)
(* the backpressure mode "raise".                                          *)
(***************************************************************************)
EXTENDS Naturals, Sequences, FiniteSets

CONSTANTS
  Requests,     \* requests and keepalive pings
  Pings,        \* those that are pings
  Origin,       \* the end that makes each request
  Mixes,        \* bound: the sets of requests that one behaviour may make
  Cause,        \* the request whose handler makes it, or NoReq
  NoReq,
  MaxInFlight,  \* max_in_flight_requests
  MaxInbound,   \* max_inbound_concurrency
  MaxId,        \* the largest correlation id, 2^64-1 in the code
  BufferRoom,   \* frames a stream takes before drain() suspends
  Closers,      \* the ends whose manager may close the connection
  Impatient,    \* the requests whose callers may be cancelled
  CutsAllowed   \* TRUE iff the network may cut the connection

Ends == {"a", "b"}
Other(e) == CHOOSE o \in Ends : o # e

ASSUME ConnectionAssumption ==
  /\ IsFiniteSet(Requests)
  /\ {NoReq, "none", "failed"} \intersect Requests = {}
  /\ Pings \subseteq Requests
  /\ Origin \in [Requests -> Ends]
  /\ Cause \in [Requests -> Requests \union {NoReq}]
  /\ \A r \in Requests : Cause[r] # NoReq => Origin[Cause[r]] # Origin[r]
  /\ {MaxInFlight, MaxInbound, MaxId} \subseteq Nat \ {0}
  /\ BufferRoom \in Nat
  /\ Closers \subseteq Ends
  /\ Impatient \subseteq Requests
  /\ CutsAllowed \in BOOLEAN

\* Ids of 64 bits: no end makes so many requests that it hands one out again.
ASSUME IdsSuffice ==
  /\ Mixes \subseteq SUBSET Requests
  /\ \A mix \in Mixes, e \in Ends : Cardinality({r \in mix : Origin[r] = e}) <= MaxId

VARIABLES
  conn,      \* _state of each end
  nextId,    \* _next_id
  pending,   \* _pending: the request of each correlation id
  stage,     \* what the caller of a request is doing
  id,        \* its correlation id
  future,    \* its future: "none", "failed" or the request that was answered
  result,    \* what the caller got
  lock,      \* the frame whose writer holds _write_lock while it drains
  wire,      \* the frames on their way to each end
  open,      \* the ends that can still write to the other one
  handlers,  \* the requests each end is handling
  served     \* how many times a request was taken by the peer

table == <<nextId, pending, id, future>>
connVars == <<conn, table, stage, result, lock, wire, open, handlers, served>>

Frame(kind, i, r) == [kind |-> kind, id |-> i, req |-> r]
NoFrame == Frame("none", 0, NoReq)
Ids == 1..MaxId
NoPending == [i \in Ids |-> NoReq]

ConnInit ==
  /\ conn = [e \in Ends |-> "running"]
  /\ nextId = [e \in Ends |-> 1]
  /\ pending = [e \in Ends |-> NoPending]
  /\ stage = [r \in Requests |-> "idle"]
  /\ id = [r \in Requests |-> 0]
  /\ future = [r \in Requests |-> "none"]
  /\ result = [r \in Requests |-> "none"]
  /\ lock = [e \in Ends |-> NoFrame]
  /\ wire = [e \in Ends |-> <<>>]
  /\ open = Ends
  /\ handlers = [e \in Ends |-> {}]
  /\ served = [r \in Requests |-> 0]
-----------------------------------------------------------------------------
(* PendingRequests.                                                        *)

\* Mutated: the counter is not advanced.
Allocate_Same(r) ==
  LET e == Origin[r] IN
  /\ id' = [id EXCEPT ![r] = nextId[e]]
  /\ pending' = [pending EXCEPT ![e][nextId[e]] = r]
  /\ UNCHANGED nextId

\* allocate, with its timer
Allocate(r) ==
  LET e == Origin[r] IN
  /\ id' = [id EXCEPT ![r] = nextId[e]]
  /\ pending' = [pending EXCEPT ![e][nextId[e]] = r]
  /\ nextId' = [nextId EXCEPT ![e] = IF @ = MaxId THEN 1 ELSE @ + 1]

\* discard, by id, whosever request is there
Discarded(r) == IF id[r] = 0 THEN pending ELSE [pending EXCEPT ![Origin[r]][id[r]] = NoReq]

\* complete and fail: a response whose id is not pending is dropped.
Resolve(e, i, outcome) ==
  LET r == pending[e][i] IN
  /\ pending' = [pending EXCEPT ![e][i] = NoReq]
  /\ future' = IF r # NoReq /\ future[r] = "none"
               THEN [future EXCEPT ![r] = outcome] ELSE future
  /\ UNCHANGED <<nextId, id>>

\* The timer of a pending request fires.
Expire(r) ==
  /\ id[r] # 0
  /\ pending[Origin[r]][id[r]] = r
  /\ Resolve(Origin[r], id[r], "failed")
  /\ UNCHANGED <<conn, stage, result, lock, wire, open, handlers, served>>
-----------------------------------------------------------------------------
(* Writing a frame.                                                        *)

Locked(e) == lock[e] # NoFrame

\* With the lock taken, end e writes a frame: the stream takes it, and the writer
\* keeps the lock until there is room again.
Written(e, f) ==
  /\ ~Locked(e)
  /\ e \in open
  /\ wire' = [wire EXCEPT ![Other(e)] = Append(@, f)]
  /\ lock' = IF Len(wire[Other(e)]) < BufferRoom THEN lock ELSE [lock EXCEPT ![e] = f]

\* After the writer was closed a frame is refused, or swallowed while the rest is flushed.
Refused(e) == ~Locked(e) /\ e \notin open /\ UNCHANGED <<wire, lock>>

\* The writer of the frame at end e is a request, and not a handler or the read loop.
Asking(e) == Origin[lock[e].req] = e
Answering(e) == {h \in handlers[e] : h.stage = "draining"}

\* drain() of the frame that holds the lock returns.
Drained(e) ==
  /\ Locked(e)
  /\ e \in open
  /\ Len(wire[Other(e)]) <= BufferRoom
  /\ lock' = [lock EXCEPT ![e] = NoFrame]
  /\ stage' = IF Asking(e) THEN [stage EXCEPT ![lock[e].req] = "waiting"] ELSE stage
  /\ handlers' = [handlers EXCEPT ![e] = @ \ Answering(e)]
  /\ UNCHANGED <<conn, table, result, wire, open, served>>

\* It raises, because the stream was cut or closed: a request fails, an answer is lost.
\* A write error also schedules close("lost"), a CloseBegin.
DrainFails(e) ==
  /\ Locked(e)
  /\ e \notin open
  /\ lock' = [lock EXCEPT ![e] = NoFrame]
  /\ handlers' = [handlers EXCEPT ![e] = @ \ Answering(e)]
  /\ IF Asking(e)
     THEN /\ stage' = [stage EXCEPT ![lock[e].req] = "ended"]
          /\ result' = [result EXCEPT ![lock[e].req] = "failed"]
          /\ pending' = Discarded(lock[e].req)
     ELSE UNCHANGED <<stage, result, pending>>
  /\ UNCHANGED <<conn, nextId, id, future, wire, open, served>>
-----------------------------------------------------------------------------
(* send_request and send_ping.                                             *)

InFlight(e) ==
  {r \in Requests \ Pings : Origin[r] = e /\ stage[r] \in {"queued", "draining", "waiting"}}

\* The request gets a correlation id and its frame is written, or waits for the lock.
\* The state was tested before the permit and is not tested again.
Proceed(r) ==
  LET e == Origin[r]
      f == Frame(IF r \in Pings THEN "ping" ELSE "request", nextId[e], r) IN
  \/ /\ Locked(e)
     /\ Allocate(r)
     /\ stage' = [stage EXCEPT ![r] = "queued"]
     /\ UNCHANGED <<result, wire, lock>>
  \/ /\ Written(e, f)
     /\ Allocate(r)
     /\ stage' = [stage EXCEPT ![r] = IF lock'[e] = f THEN "draining" ELSE "waiting"]
     /\ UNCHANGED result
  \/ /\ Refused(e)
     /\ \/ /\ Allocate(r)
           /\ stage' = [stage EXCEPT ![r] = "waiting"]
           /\ UNCHANGED result
        \/ /\ nextId' = [nextId EXCEPT ![e] = IF @ = MaxId THEN 1 ELSE @ + 1]
           /\ stage' = [stage EXCEPT ![r] = "ended"]
           /\ result' = [result EXCEPT ![r] = "failed"]
           /\ UNCHANGED <<pending, id>>

\* A handler makes its request while it runs.
May(r) ==
  /\ stage[r] = "idle"
  /\ Cause[r] = NoReq \/ \E h \in handlers[Origin[r]] : h.req = Cause[r] /\ h.stage = "running"
  /\ \E mix \in Mixes : {r} \union {q \in Requests : stage[q] # "idle"} \subseteq mix

Send(r) ==
  LET e == Origin[r] IN
  /\ May(r)
  /\ conn[e] = "running"
  /\ IF r \in Pings \/ Cardinality(InFlight(e)) < MaxInFlight
     THEN Proceed(r)
     ELSE /\ stage' = [stage EXCEPT ![r] = "permit"]
          /\ UNCHANGED <<nextId, pending, id, result, wire, lock>>
  /\ UNCHANGED <<conn, future, open, handlers, served>>

\* _ensure_running raises.
SendRejected(r) ==
  /\ May(r)
  /\ conn[Origin[r]] # "running"
  /\ stage' = [stage EXCEPT ![r] = "ended"]
  /\ result' = [result EXCEPT ![r] = "failed"]
  /\ UNCHANGED <<conn, table, lock, wire, open, handlers, served>>

\* A permit of _in_flight becomes free.
Permitted(r) ==
  /\ stage[r] = "permit"
  /\ Cardinality(InFlight(Origin[r])) < MaxInFlight
  /\ Proceed(r)
  /\ UNCHANGED <<conn, future, open, handlers, served>>

\* A request that waited for the write lock gets it.
WriteQueued(r) ==
  LET e == Origin[r]
      f == Frame(IF r \in Pings THEN "ping" ELSE "request", id[r], r) IN
  /\ stage[r] = "queued"
  /\ \/ /\ Written(e, f)
        /\ stage' = [stage EXCEPT ![r] = IF lock'[e] = f THEN "draining" ELSE "waiting"]
        /\ UNCHANGED <<result, pending>>
     \/ /\ Refused(e)
        /\ stage' = [stage EXCEPT ![r] = "ended"]
        /\ result' = [result EXCEPT ![r] = "failed"]
        /\ pending' = Discarded(r)
  /\ UNCHANGED <<conn, nextId, id, future, open, handlers, served>>

\* The caller gets what its future holds; a ping that failed closes the connection.
Return(r) ==
  /\ stage[r] = "waiting"
  /\ future[r] # "none"
  /\ stage' = [stage EXCEPT ![r] = "ended"]
  /\ result' = [result EXCEPT ![r] = future[r]]
  /\ pending' = IF future[r] = "failed" THEN Discarded(r) ELSE pending
  /\ UNCHANGED <<conn, nextId, id, future, lock, wire, open, handlers, served>>

\* The task of the caller is cancelled, wherever it is suspended.
GivesUp(r) ==
  LET e == Origin[r] IN
  /\ stage[r] \in {"permit", "queued", "draining", "waiting"}
  /\ stage' = [stage EXCEPT ![r] = "ended"]
  /\ result' = [result EXCEPT ![r] = "failed"]
  /\ pending' = Discarded(r)
  /\ lock' = IF stage[r] = "draining" THEN [lock EXCEPT ![e] = NoFrame] ELSE lock

\* Calls are cancelled by their callers, pings when close() begins.
CancelRequest(r) ==
  /\ IF r \in Pings THEN conn[Origin[r]] # "running" ELSE r \in Impatient
  /\ GivesUp(r)
  /\ UNCHANGED <<conn, nextId, id, future, wire, open, handlers, served>>
-----------------------------------------------------------------------------
(* The read loop and the handlers.                                         *)

\* The read loop takes a frame, unless it is draining a PONG.
Reading(e) ==
  /\ conn[e] \in {"running", "closing"}
  /\ wire[e] # <<>>
  /\ Locked(e) /\ lock[e].req \in Pings => Asking(e)
Tail1(e) == [wire EXCEPT ![e] = Tail(@)]

ReadAnswer(e) ==
  LET f == Head(wire[e]) IN
  /\ Reading(e)
  /\ f.kind \in {"response", "error"}
  /\ Resolve(e, f.id, IF f.kind = "error" THEN "failed" ELSE f.req)
  /\ wire' = Tail1(e)
  /\ UNCHANGED <<conn, stage, result, lock, open, handlers, served>>

\* Mutated: handlers are started without a permit.
ReadRequest_NoCap(e) ==
  LET f == Head(wire[e]) IN
  /\ Reading(e)
  /\ f.kind = "request"
  /\ handlers' = [handlers EXCEPT ![e] = @ \union {[req |-> f.req, id |-> f.id, stage |-> "running"]}]
  /\ served' = [served EXCEPT ![f.req] = @ + 1]
  /\ wire' = Tail1(e)
  /\ UNCHANGED <<conn, table, stage, result, lock, open>>

\* The read loop waits for a permit of _inbound_sem and then goes on to the next frame.
ReadRequest(e) ==
  LET f == Head(wire[e]) IN
  /\ Reading(e)
  /\ f.kind = "request"
  /\ Cardinality(handlers[e]) < MaxInbound
  /\ handlers' = [handlers EXCEPT ![e] = @ \union {[req |-> f.req, id |-> f.id, stage |-> "running"]}]
  /\ served' = [served EXCEPT ![f.req] = @ + 1]
  /\ wire' = Tail1(e)
  /\ UNCHANGED <<conn, table, stage, result, lock, open>>

\* A PING is answered by the read loop itself, which waits for the write lock.
ReadPing(e) ==
  LET f == Head(wire[e])
      pong == Frame("response", f.id, f.req) IN
  /\ Reading(e)
  /\ f.kind = "ping"
  /\ ~Locked(e)
  /\ served' = [served EXCEPT ![f.req] = @ + 1]
  /\ IF e \in open
     THEN /\ wire' = [Tail1(e) EXCEPT ![Other(e)] = Append(@, pong)]
          /\ lock' = IF Len(wire[Other(e)]) < BufferRoom THEN lock ELSE [lock EXCEPT ![e] = pong]
     ELSE wire' = Tail1(e) /\ UNCHANGED lock
  /\ UNCHANGED <<conn, table, stage, result, open, handlers>>

\* A handler returns, or raises, once the request it makes has ended.  Its answer is
\* written, or waits for the lock, or is dropped with the connection.
Answered(e, h, f) ==
  \/ /\ Written(e, f)
     /\ handlers' = [handlers EXCEPT ![e] = (@ \ {h}) \union
                       (IF lock'[e] = f THEN {[h EXCEPT !.stage = "draining"]} ELSE {})]
  \/ /\ Refused(e)
     /\ handlers' = [handlers EXCEPT ![e] = @ \ {h}]

Done(h) == \A r \in Requests : Cause[r] = h.req => stage[r] \in {"idle", "ended"}

Handled(e, h) ==
  /\ h.stage = "running"
  /\ Done(h)
  /\ \E kind \in {"response", "error"} :
       \/ Answered(e, h, Frame(kind, h.id, h.req))
       \/ /\ Locked(e)
          /\ handlers' = [handlers EXCEPT ![e] = (@ \ {h}) \union {[h EXCEPT !.stage = kind]}]
          /\ UNCHANGED <<wire, lock>>
  /\ UNCHANGED <<conn, table, stage, result, open, served>>

Reply(e, h) ==
  /\ h.stage \in {"response", "error"}
  /\ Answered(e, h, Frame(h.stage, h.id, h.req))
  /\ UNCHANGED <<conn, table, stage, result, open, served>>
-----------------------------------------------------------------------------
(* close().                                                                *)

\* By the manager, or by the task that a write error, the end of the stream or a ping
\* without answer scheduled.
CloseBegin(e) ==
  /\ conn[e] = "running"
  /\ \/ e \in Closers
     \/ e \notin open
     \/ Other(e) \notin open /\ wire[e] = <<>>
     \/ \E r \in Pings : Origin[r] = e /\ stage[r] = "ended" /\ result[r] = "failed"
  /\ conn' = [conn EXCEPT ![e] = "closing"]
  /\ UNCHANGED <<table, stage, result, lock, wire, open, handlers, served>>

\* Mutated: requests that are pending stay so.
FailAll_Forgets(e) ==
  /\ conn[e] = "closing"
  /\ conn' = [conn EXCEPT ![e] = "shutting"]
  /\ pending' = [pending EXCEPT ![e] = NoPending]
  /\ open' = open \ {e}
  /\ UNCHANGED <<nextId, id, future, stage, result, lock, wire, handlers, served>>

\* A lost connection at once, a normal close when nothing is pending or at its deadline:
\* fail_all, and the writer is closed.
FailAll(e) ==
  /\ conn[e] = "closing"
  /\ conn' = [conn EXCEPT ![e] = "shutting"]
  /\ future' = [r \in Requests |->
       IF \E i \in Ids : pending[e][i] = r /\ future[r] = "none" THEN "failed" ELSE future[r]]
  /\ pending' = [pending EXCEPT ![e] = NoPending]
  /\ open' = open \ {e}
  /\ UNCHANGED <<nextId, id, stage, result, lock, wire, handlers, served>>

\* The read loop is cancelled, then the handlers and with them what they wait for.
CancelHandler(e, h) ==
  /\ conn[e] = "shutting"
  /\ handlers' = [handlers EXCEPT ![e] = @ \ {h}]
  /\ \/ /\ Done(h)
        /\ lock' = IF h.stage = "draining" THEN [lock EXCEPT ![e] = NoFrame] ELSE lock
        /\ UNCHANGED <<stage, result, pending>>
     \/ \E r \in Requests : Cause[r] = h.req /\ GivesUp(r)
  /\ UNCHANGED <<conn, nextId, id, future, wire, open, served>>

CloseEnd(e) ==
  /\ conn[e] = "shutting"
  /\ handlers[e] = {}
  /\ conn' = [conn EXCEPT ![e] = "closed"]
  /\ wire' = [wire EXCEPT ![e] = <<>>]
  /\ UNCHANGED <<table, stage, result, lock, open, handlers, served>>

\* The network cuts the connection; either stream may lose what is under way.
Cut ==
  /\ CutsAllowed
  /\ open # {}
  /\ open' = {}
  /\ \E whole \in SUBSET Ends :
       wire' = [e \in Ends |-> IF e \in whole THEN wire[e] ELSE <<>>]
  /\ UNCHANGED <<conn, table, stage, result, lock, handlers, served>>
-----------------------------------------------------------------------------
ConnNext ==
  \/ \E r \in Requests : \/ Send(r) \/ SendRejected(r) \/ Permitted(r) \/ WriteQueued(r)
                         \/ Expire(r) \/ Return(r) \/ CancelRequest(r)
  \/ \E e \in Ends : \/ Drained(e) \/ DrainFails(e)
                     \/ ReadAnswer(e) \/ ReadRequest(e) \/ ReadPing(e)
                     \/ CloseBegin(e) \/ FailAll(e) \/ CloseEnd(e)
                     \/ \E h \in handlers[e] : Handled(e, h) \/ Reply(e, h) \/ CancelHandler(e, h)
  \/ Cut

ConnSpec == ConnInit /\ [][ConnNext]_connVars

\* The event loop runs every timer and every task that can go on; grain code in a
\* handler may never return and a close may be cancelled.
ConnFairness ==
  /\ \A r \in Requests : /\ WF_connVars(Permitted(r)) /\ WF_connVars(WriteQueued(r))
                         /\ WF_connVars(Expire(r)) /\ WF_connVars(Return(r))
  /\ \A e \in Ends :
       /\ WF_connVars(Drained(e)) /\ WF_connVars(DrainFails(e))
       /\ WF_connVars(ReadAnswer(e) \/ ReadRequest(e) \/ ReadPing(e))
ConnFairSpec == ConnSpec /\ ConnFairness
-----------------------------------------------------------------------------
\* The type of the state of both ends.
ConnTypeOK ==
  /\ conn \in [Ends -> {"running", "closing", "shutting", "closed"}]
  /\ nextId \in [Ends -> Ids]
  /\ pending \in [Ends -> [Ids -> Requests \union {NoReq}]]
  /\ stage \in [Requests -> {"idle", "permit", "queued", "draining", "waiting", "ended"}]
  /\ id \in [Requests -> Ids \union {0}]
  /\ {future[r] : r \in Requests} \subseteq Requests \union {"none", "failed"}
  /\ \A e \in Ends : Cardinality(handlers[e]) <= MaxInbound

\* The connection keeps its promise, through correlation ids, timers, the pending table
\* and every way it may close: no request is handled twice or ends twice, and no
\* caller gets the answer to another request.
Promised == INSTANCE RequestResponse WITH
  stage <- [r \in Requests |-> IF stage[r] \in {"idle", "ended"} THEN stage[r] ELSE "open"]
RequestPromise == Promised!Promise

\* A request whose future is open is in the pending table under its id, where a
\* response, its timer or fail_all will find it (allocate, discard, fail_all).
WaitersArePending ==
  \A r \in Requests :
    stage[r] \in {"queued", "draining", "waiting"} /\ future[r] = "none" =>
      pending[Origin[r]][id[r]] = r

\* Every request ends, by its answer, its timer or the end of the connection, provided
\* that no writer holds the lock for ever.
RequestEnds(r) == stage[r] # "idle" ~> stage[r] = "ended"
RequestsEnd ==
  \A r \in Requests : []<>~Locked(Origin[r]) => RequestEnds(r)

\* The same without the proviso.  It fails: the timer of a request ends its future, which
\* nobody looks at while drain() is suspended or the write lock is awaited.
TimersEndRequests == \A r \in Requests : RequestEnds(r)
=============================================================================
