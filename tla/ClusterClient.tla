---------------------------- MODULE ClusterClient ----------------------------
(***************************************************************************)
(* A client's connection to a gateway and the calls it makes over it       *)
(* (cluster_client.py), with the gateways as far as it sees them           *)
(* (gateway/listener.py).  The calls share the client: each that loses the *)
(* connection closes and dials again, whatever the others do meanwhile.    *)
(* A new connection is to whichever gateway of the list answers, the list  *)
(* being what the gateway_refresher returned; a connection ends when its   *)
(* gateway does.                                                           *)
(***************************************************************************)
EXTENDS Naturals, FiniteSets

CONSTANTS
  Calls,         \* the invocations made through the client
  Attempts,      \* 1 + max_reconnect_attempts
  MaxDials,      \* bound: connections opened
  MaxOutages     \* bound: connections whose gateway goes down

ASSUME ClientAssumption ==
  /\ Attempts \in Nat \ {0}
  /\ MaxDials \in Nat \ {0} /\ MaxOutages \in Nat

Dials == 1..MaxDials
None == 0
Fresh == MaxDials + 1   \* a read loop whose task has not run yet

VARIABLES
  socks,     \* the connections: "open" until our side is closed, "up" while the gateway is
  current,   \* _writer and _reader: a connection or None
  task,      \* _read_task: the read loop of a connection or None
  loops,     \* per read loop: the connection it reads from, Fresh, or None
  corr,      \* _correlation_counter
  asked,     \* _pending: the calls with a future, by correlation id
  wire,      \* the requests at gateways and the responses on their way
  calls      \* per call: what it is doing, its attempts and how it ended

clientVars ==
  <<socks, current, task, loops, corr, asked, wire, calls>>

Dialled == DOMAIN socks
Connected == current # None /\ socks[current].open
\* The gateway of the connection is up and our side has not closed it.
Alive(k) == socks[k].open /\ socks[k].up

Message(k, i, c, what) == [on |-> k, id |-> i, call |-> c, is |-> what]

Waiting(ids) == {c \in Calls : calls[c].at = "waiting" /\ calls[c].id \in ids}

\* The calls whose futures fail go back to invoke's loop; c goes to `where`.
FailWaiting(ids) ==
  [c \in Calls |-> IF c \in Waiting(ids) THEN [calls[c] EXCEPT !.at = "lost"] ELSE calls[c]]

\* connect() has been called once when the calls are made.
ClientInit ==
  /\ socks = [k \in {1} |-> [open |-> TRUE, up |-> TRUE]]
  /\ current = 1 /\ task = 1
  /\ loops = [k \in Dials |-> IF k = 1 THEN 1 ELSE None]
  /\ corr = 0
  /\ asked = {}
  /\ wire = {}
  /\ calls = [c \in Calls |-> [at |-> "idle", left |-> Attempts, id |-> 0, got |-> "none"]]
-----------------------------------------------------------------------------
(* One attempt: _invoke_once.                                              *)

\* The request is written, or the client is not connected.  The counter goes on over
\* reconnects.
Attempt(c) ==
  /\ calls[c].at \in {"idle", "again"}
  /\ IF Connected
     THEN /\ corr' = corr + 1
          /\ asked' = asked \cup {corr'}
          /\ wire' = IF Alive(current)
                     THEN wire \cup {Message(current, corr', c, "request")}
                     ELSE wire
          /\ calls' = [calls EXCEPT ![c].at = "waiting", ![c].id = corr']
     ELSE /\ calls' = [calls EXCEPT ![c].at = "lost"]
          /\ UNCHANGED <<corr, asked, wire>>
  /\ UNCHANGED <<socks, current, task, loops>>

\* drain() fails on a connection that is gone.
WriteFails(c) ==
  /\ calls[c].at = "waiting" /\ current # None /\ ~Alive(current)
  /\ asked' = asked \ {calls[c].id}
  /\ calls' = [calls EXCEPT ![c].at = "lost"]
  /\ UNCHANGED <<socks, current, task, loops, corr, wire>>

\* Mutated: there is no timeout.
CallTimeout_Never(c) == calls[c].at = "never" /\ UNCHANGED clientVars

\* wait_for raises TimeoutError, which invoke does not catch.
CallTimeout(c) ==
  /\ calls[c].at = "waiting"
  /\ asked' = asked \ {calls[c].id}
  /\ calls' = [calls EXCEPT ![c].at = "done", ![c].got = "timeout"]
  /\ UNCHANGED <<socks, current, task, loops, corr, wire>>

\* The attempt ended with ConnectionError: invoke gives up, or closes the connection.
\* close() cancels the read loop and waits for it; the loop fails every pending call, unless
\* it has not begun to read.
ConnectionLost(c) ==
  /\ calls[c].at = "lost"
  /\ IF calls[c].left = 1
     THEN /\ calls' = [calls EXCEPT ![c].at = "done", ![c].got = "error"]
          /\ UNCHANGED <<loops, asked>>
     ELSE LET reading == task # None /\ loops[task] \in Dialled
              failed == IF reading THEN FailWaiting(asked) ELSE calls
          IN  /\ calls' = [failed EXCEPT ![c].at = "closing", ![c].left = @ - 1]
              /\ loops' = IF task # None THEN [loops EXCEPT ![task] = None] ELSE loops
              /\ asked' = IF reading THEN {} ELSE asked
  /\ UNCHANGED <<socks, current, task, corr, wire>>

\* It then closes the writer there is now, and waits for that; without one it fails the
\* calls made meanwhile at once.
CloseWriter(c) ==
  /\ calls[c].at = "closing"
  /\ task' = None
  /\ IF current = None
     THEN /\ calls' = [FailWaiting(asked) EXCEPT ![c].at = "dialling"]
          /\ asked' = {}
          /\ UNCHANGED socks
     ELSE /\ socks' = [socks EXCEPT ![current].open = FALSE]
          /\ calls' = [calls EXCEPT ![c].at = "closed"]
          /\ UNCHANGED asked
  /\ UNCHANGED <<current, loops, corr, wire>>

\* When it is closed, close() forgets the writer there is by then and fails the calls made
\* meanwhile.  connect() then asks the refresher.
Forget(c) ==
  /\ calls[c].at = "closed"
  /\ current' = None
  /\ asked' = {}
  /\ calls' = [FailWaiting(asked) EXCEPT ![c].at = "dialling"]
  /\ UNCHANGED <<socks, task, loops, corr, wire>>

\* Mutated: the correlation ids begin anew with every connection.
Dial_Restarts(c) ==
  /\ calls[c].at = "dialling"
  /\ Cardinality(Dialled) < MaxDials
  /\ LET k == Cardinality(Dialled) + 1 IN
     /\ socks' = [j \in Dialled \cup {k} |-> IF j = k THEN [open |-> TRUE, up |-> TRUE] ELSE socks[j]]
     /\ current' = k /\ task' = k
     /\ loops' = [loops EXCEPT ![k] = Fresh]
     /\ corr' = 0
  /\ calls' = [calls EXCEPT ![c].at = "again"]
  /\ UNCHANGED <<asked, wire>>

\* A gateway answers the dial: reader, writer, read loop and gateway are replaced, and
\* the call is tried again.
Dial(c) ==
  /\ calls[c].at = "dialling"
  /\ Cardinality(Dialled) < MaxDials
  /\ LET k == Cardinality(Dialled) + 1 IN
     /\ socks' = [j \in Dialled \cup {k} |-> IF j = k THEN [open |-> TRUE, up |-> TRUE] ELSE socks[j]]
     /\ current' = k /\ task' = k
     /\ loops' = [loops EXCEPT ![k] = Fresh]
  /\ calls' = [calls EXCEPT ![c].at = "again"]
  /\ UNCHANGED <<corr, asked, wire>>

\* No gateway answers, also after the second refresh: connect raises out of invoke.
NoGateway(c) ==
  /\ calls[c].at = "dialling"
  /\ calls' = [calls EXCEPT ![c].at = "done", ![c].got = "error"]
  /\ UNCHANGED <<socks, current, task, loops, corr, asked, wire>>
-----------------------------------------------------------------------------
(* The read loop of connection k.  It reads the next frame from whatever    *)
(* reader the client has by then.                                          *)

\* Its end fails all pending calls and closes the writer the client has by then.
LoopEnds(k) ==
  /\ loops' = [loops EXCEPT ![k] = None]
  /\ asked' = {}
  /\ socks' = IF current = None THEN socks ELSE [socks EXCEPT ![current].open = FALSE]

\* Two coroutines cannot read from one stream, and None cannot be read.
Blocked(k) == current = None \/ \E j \in Dials \ {k} : loops[j] = current

LoopStarts(k) ==
  /\ loops[k] = Fresh
  /\ IF Blocked(k)
     THEN LoopEnds(k) /\ calls' = FailWaiting(asked)
     ELSE loops' = [loops EXCEPT ![k] = current] /\ UNCHANGED <<asked, calls, socks>>
  /\ UNCHANGED <<current, task, corr, wire>>

\* A response: its call is done.  The loop goes on to read.
LoopReads(k) ==
  \E m \in wire :
    /\ m.is = "response" /\ m.on = loops[k]
    /\ wire' = wire \ {m}
    /\ LET hit == IF m.id \in asked THEN Waiting({m.id}) ELSE {}
           rest == asked \ {m.id}
           answered(cs) == [c \in Calls |->
             IF c \in hit THEN [cs[c] EXCEPT !.at = "done", !.got = m.call] ELSE cs[c]]
       IN  IF Blocked(k)
           THEN LoopEnds(k) /\ calls' = answered(FailWaiting(rest))
           ELSE /\ loops' = [loops EXCEPT ![k] = current]
                /\ asked' = rest
                /\ calls' = answered(calls)
                /\ UNCHANGED socks
    /\ UNCHANGED <<current, task, corr>>

\* Mutated: the end of a connection is not passed on to the calls that wait.
LoopLoses_Silent(k) ==
  /\ loops[k] \in Dialled /\ ~Alive(loops[k])
  /\ loops' = [loops EXCEPT ![k] = None]
  /\ UNCHANGED <<socks, current, task, corr, asked, wire, calls>>

\* The connection ends.
LoopLoses(k) ==
  /\ loops[k] \in Dialled /\ ~Alive(loops[k])
  /\ LoopEnds(k)
  /\ calls' = FailWaiting(asked)
  /\ UNCHANGED <<current, task, corr, wire>>
-----------------------------------------------------------------------------
(* The gateways.                                                           *)

\* A gateway dispatches a request to its runtime and writes the response; requests of a
\* connection are dispatched one after another.
GatewayAnswers(m) ==
  /\ m \in wire /\ m.is = "request" /\ Alive(m.on)
  /\ \A n \in wire : n.is = "request" /\ n.on = m.on => m.id <= n.id
  /\ wire' = (wire \ {m}) \cup {Message(m.on, m.id, m.call, "response")}
  /\ UNCHANGED <<socks, current, task, loops, corr, asked, calls>>

\* The gateway of a connection goes down: its requests are lost.
GatewayDown(k) ==
  /\ k \in Dialled /\ socks[k].up
  /\ Cardinality({j \in Dialled : ~socks[j].up}) < MaxOutages
  /\ socks' = [socks EXCEPT ![k].up = FALSE]
  /\ wire' = {m \in wire : m.is = "request" => m.on # k}
  /\ UNCHANGED <<current, task, loops, corr, asked, calls>>

ClientNext ==
  \/ \E c \in Calls : \/ Attempt(c) \/ WriteFails(c) \/ CallTimeout(c) \/ ConnectionLost(c)
                      \/ CloseWriter(c) \/ Forget(c) \/ Dial(c) \/ NoGateway(c)
  \/ \E k \in Dials : LoopStarts(k) \/ LoopReads(k) \/ LoopLoses(k) \/ GatewayDown(k)
  \/ \E m \in wire : GatewayAnswers(m)

ClientSpec == ClientInit /\ [][ClientNext]_clientVars

\* The tasks of the client run and its timeouts pass; gateways may be silent for ever.
ClientFairness ==
  \A c \in Calls :
    WF_clientVars(\/ CallTimeout(c) \/ ConnectionLost(c) \/ CloseWriter(c) \/ Forget(c)
                  \/ Dial(c) \/ NoGateway(c) \/ (Attempt(c) /\ calls[c].at = "again"))
ClientFairSpec == ClientSpec /\ ClientFairness
-----------------------------------------------------------------------------
\* A call returns the result of its own request, over all reconnects, although
\* responses of an abandoned connection and of calls that timed out may still arrive
\* (_correlation_counter).
AnswersMatchCalls == \A c \in Calls : calls[c].got \in {"none", "timeout", "error", c}

\* Every call ends, if only by its timeout: also when gateways go down, when other calls
\* close the connection, and when a gateway never answers (invoke).
CallsFinish == \A c \in Calls : calls[c].at # "idle" ~> calls[c].at = "done"

\* A call waits only for a gateway: there is a read loop to complete it or to fail it, or
\* a close in progress that will, in whatever order the calls close and dial (close).
WaitersAreRead ==
  \A c \in Calls : calls[c].at = "waiting" =>
    \/ \E k \in Dials : loops[k] # None
    \/ \E d \in Calls : calls[d].at \in {"closing", "closed"}

\* The client has one connection; concurrent reconnects leave others behind.
OneConnection == Cardinality({k \in Dialled : socks[k].open}) <= 1
=============================================================================
