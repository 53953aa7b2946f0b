------------------------- MODULE ClusterClientProofs -------------------------
(***************************************************************************)
(* Proofs about ClusterClient, for any number of calls, of attempts and of *)
(* connections.                                                            *)
(***************************************************************************)
EXTENDS ClusterClient, Integers, FiniteSetTheorems, TLAPS

Places == {"idle", "again", "waiting", "lost", "closing", "closed", "dialling", "done"}
CallType == [at : Places, left : Int, id : Nat,
             got : Calls \union {"none", "timeout", "error"}]

\* Ids are handed out once: what is on the wire under the id of a call that waits is
\* that call's, and no other call waits with it.
ClientInv ==
  /\ corr \in Nat
  /\ calls \in [Calls -> CallType]
  /\ AnswersMatchCalls
  /\ \A m \in wire : m.id \in 0..corr
  /\ \A c \in Calls : calls[c].at = "waiting" => calls[c].id \in 0..corr
  /\ \A c, d \in Calls : calls[c].at = "waiting" /\ calls[d].at = "waiting"
                           /\ calls[c].id = calls[d].id => c = d
  /\ \A m \in wire, c \in Calls : calls[c].at = "waiting" /\ calls[c].id = m.id => m.call = c

\* What a step that hands out no id may do to the calls and to the wire.
Harmless ==
  /\ corr' = corr
  /\ calls' \in [Calls -> CallType]
  /\ \A c \in Calls :
       /\ calls'[c].got \in {calls[c].got, "timeout", "error", c}
       /\ calls'[c].at = "waiting" => calls[c].at = "waiting" /\ calls'[c].id = calls[c].id
  /\ \A m \in wire' : \E n \in wire : n.id = m.id /\ n.call = m.call

\* A step that hands out no id and puts nothing new on the wire keeps the invariant.
LEMMA HarmlessKeeps ==
  ASSUME ClientInv, Harmless
  PROVE  ClientInv'
<1>1. AnswersMatchCalls'
  BY DEF ClientInv, Harmless, AnswersMatchCalls
<1>2. \A m \in wire' : m.id \in 0..corr'
  BY DEF ClientInv, Harmless
<1>3. \A c \in Calls : calls'[c].at = "waiting" => calls'[c].id \in 0..corr'
  BY DEF ClientInv, Harmless
<1>4. \A c, d \in Calls : calls'[c].at = "waiting" /\ calls'[d].at = "waiting"
                            /\ calls'[c].id = calls'[d].id => c = d
  BY DEF ClientInv, Harmless
<1>5. \A m \in wire', c \in Calls :
        calls'[c].at = "waiting" /\ calls'[c].id = m.id => m.call = c
  <2> SUFFICES ASSUME NEW m \in wire', NEW c \in Calls,
                      calls'[c].at = "waiting", calls'[c].id = m.id
               PROVE  m.call = c
    OBVIOUS
  <2>1. PICK n \in wire : n.id = m.id /\ n.call = m.call
    BY DEF Harmless
  <2>2. calls[c].at = "waiting" /\ calls[c].id = n.id
    BY <2>1 DEF Harmless
  <2> QED
    BY <2>1, <2>2 DEF ClientInv
<1> QED
  BY <1>1, <1>2, <1>3, <1>4, <1>5 DEF ClientInv, Harmless

\* What an EXCEPT does to the record of a call, whatever its fields are.
LEMMA EditAt ==
  ASSUME NEW S, NEW T, NEW U, NEW V, NEW r \in [at : S, left : T, id : U, got : V], NEW a \in S
  PROVE  LET s == [r EXCEPT !.at = a] IN
         s \in [at : S, left : T, id : U, got : V] /\ s.at = a /\ s.id = r.id /\ s.got = r.got
  OBVIOUS

\* The fields of a call's record that an EXCEPT changes, and those it leaves.
LEMMA EditLeft ==
  ASSUME NEW S, NEW T, NEW U, NEW V, NEW r \in [at : S, left : T, id : U, got : V],
         NEW a \in S, NEW n \in T
  PROVE  LET s == [r EXCEPT !.at = a, !.left = n] IN
         s \in [at : S, left : T, id : U, got : V] /\ s.at = a /\ s.id = r.id /\ s.got = r.got
  OBVIOUS

\* The same, for a call that is given an id.
LEMMA EditId ==
  ASSUME NEW S, NEW T, NEW U, NEW V, NEW r \in [at : S, left : T, id : U, got : V],
         NEW a \in S, NEW n \in U
  PROVE  LET s == [r EXCEPT !.at = a, !.id = n] IN
         s \in [at : S, left : T, id : U, got : V] /\ s.at = a /\ s.id = n /\ s.got = r.got
  OBVIOUS

\* The same, for a call that gets its result.
LEMMA EditGot ==
  ASSUME NEW S, NEW T, NEW U, NEW V, NEW r \in [at : S, left : T, id : U, got : V],
         NEW a \in S, NEW g \in V
  PROVE  LET s == [r EXCEPT !.at = a, !.got = g] IN
         s \in [at : S, left : T, id : U, got : V] /\ s.at = a /\ s.id = r.id /\ s.got = g
  OBVIOUS

\* A call changes what it is doing.
Moved(r, s, a) == s \in CallType /\ s.at = a /\ s.id = r.id /\ s.got = r.got

\* A call that goes on to another place has the type of a call still.
LEMMA CallMoves ==
  ASSUME NEW r \in CallType, NEW a \in Places
  PROVE  /\ Moved(r, [r EXCEPT !.at = a], a)
         /\ Moved(r, [r EXCEPT !.at = a, !.left = r.left - 1], a)
<1>1. Moved(r, [r EXCEPT !.at = a], a)
  BY EditAt DEF CallType, Moved
<1>2. r.left - 1 \in Int
  BY DEF CallType
<1>3. Moved(r, [r EXCEPT !.at = a, !.left = r.left - 1], a)
  BY <1>2, EditLeft DEF CallType, Moved
<1> QED
  BY <1>1, <1>3

\* Futures that fail send their calls back to the loop of invoke.
LEMMA FailKeeps ==
  ASSUME NEW ids, calls \in [Calls -> CallType]
  PROVE  /\ FailWaiting(ids) \in [Calls -> CallType]
         /\ \A c \in Calls : \/ FailWaiting(ids)[c] = calls[c]
                             \/ Moved(calls[c], FailWaiting(ids)[c], "lost")
<1>1. ASSUME NEW c \in Calls PROVE Moved(calls[c], [calls[c] EXCEPT !.at = "lost"], "lost")
  <2> DEFINE r == calls[c]
  <2>1. r \in CallType /\ "lost" \in Places
    BY DEF Places
  <2> HIDE DEF r
  <2>2. Moved(r, [r EXCEPT !.at = "lost"], "lost")
    BY <2>1, CallMoves
  <2> QED
    BY <2>2 DEF r
<1>2. FailWaiting(ids) =
        [c \in Calls |-> IF c \in Waiting(ids) THEN [calls[c] EXCEPT !.at = "lost"] ELSE calls[c]]
  BY DEF FailWaiting
<1> QED
  BY <1>1, <1>2 DEF Moved

\* Some calls fail, if any, and one of them goes on.
Failing(f) ==
  /\ f \in [Calls -> CallType]
  /\ \A d \in Calls : f[d] = calls[d] \/ Moved(calls[d], f[d], "lost")

\* A step of one call, after others failed, that waits for nothing new is harmless.
LEMMA OneCall ==
  ASSUME ClientInv, NEW f, Failing(f), NEW c \in Calls, NEW s \in CallType,
         s.at # "waiting", s.got \in {f[c].got, "timeout", "error", c},
         calls' = [f EXCEPT ![c] = s], corr' = corr,
         \A m \in wire' : \E n \in wire : n.id = m.id /\ n.call = m.call
  PROVE  Harmless
<1>1. \A d \in Calls : calls'[d] = IF d = c THEN s ELSE f[d]
  BY DEF Failing
<1>2. calls' \in [Calls -> CallType]
  BY DEF Failing
<1>3. ASSUME NEW d \in Calls
      PROVE  /\ calls'[d].got \in {calls[d].got, "timeout", "error", d}
             /\ calls'[d].at = "waiting" => calls[d].at = "waiting" /\ calls'[d].id = calls[d].id
  <2>1. f[d] = calls[d] \/ Moved(calls[d], f[d], "lost")
    BY DEF Failing
  <2>2. CASE d = c
    BY <1>1, <2>1, <2>2 DEF Moved
  <2>3. CASE d # c
    BY <1>1, <2>1, <2>3 DEF Moved
  <2> QED
    BY <2>2, <2>3
<1> QED
  BY <1>2, <1>3 DEF Harmless

\* One call goes to another place.
LEMMA OneCallMoves ==
  ASSUME ClientInv, NEW f, Failing(f), NEW c \in Calls, NEW a \in Places \ {"waiting"},
         \/ calls' = [f EXCEPT ![c].at = a]
         \/ calls' = [f EXCEPT ![c].at = a, ![c].left = @ - 1]
         \/ \E g \in {"timeout", "error"} : calls' = [f EXCEPT ![c].at = a, ![c].got = g],
         corr' = corr,
         \A m \in wire' : \E n \in wire : n.id = m.id /\ n.call = m.call
  PROVE  Harmless
<1> DEFINE r == f[c]
<1>1. r \in CallType
  BY DEF Failing
<1>2. CASE calls' = [f EXCEPT ![c].at = a]
  <2> DEFINE s == [r EXCEPT !.at = a]
  <2>1. calls' = [f EXCEPT ![c] = s]
    BY <1>2 DEF Failing
  <2> HIDE DEF r
  <2>2. Moved(r, s, a)
    BY <1>1, CallMoves
  <2> HIDE DEF s
  <2>3. s \in CallType /\ s.at # "waiting" /\ s.got = f[c].got
    BY <2>2 DEF Moved, r
  <2> QED
    BY <2>1, <2>3, OneCall
<1>3. CASE calls' = [f EXCEPT ![c].at = a, ![c].left = @ - 1]
  <2> DEFINE s == [r EXCEPT !.at = a, !.left = r.left - 1]
  <2>1. calls' = [f EXCEPT ![c] = s]
    BY <1>3 DEF Failing
  <2> HIDE DEF r
  <2>2. Moved(r, s, a)
    BY <1>1, CallMoves
  <2> HIDE DEF s
  <2>3. s \in CallType /\ s.at # "waiting" /\ s.got = f[c].got
    BY <2>2 DEF Moved, r
  <2> QED
    BY <2>1, <2>3, OneCall
<1>4. ASSUME NEW g \in {"timeout", "error"}, calls' = [f EXCEPT ![c].at = a, ![c].got = g]
      PROVE  Harmless
  <2> DEFINE s == [r EXCEPT !.at = a, !.got = g]
  <2>1. calls' = [f EXCEPT ![c] = s]
    BY <1>4 DEF Failing
  <2> HIDE DEF r
  <2>2. s \in CallType /\ s.at = a /\ s.got = g
    BY <1>1, EditGot DEF CallType
  <2> HIDE DEF s
  <2>3. s.at # "waiting" /\ s.got \in {f[c].got, "timeout", "error", c}
    BY <1>4, <2>2
  <2> QED
    BY <2>1, <2>2, <2>3, OneCall
<1> QED
  BY <1>2, <1>3, <1>4

\* Calls as they are, and with some failed.
LEMMA Fails ==
  ASSUME ClientInv
  PROVE  /\ Failing(calls)
         /\ \A ids : Failing(FailWaiting(ids))
         /\ wire' \subseteq wire => \A m \in wire' : \E n \in wire : n.id = m.id /\ n.call = m.call
  BY FailKeeps DEF ClientInv, Failing

\* No call but those that fail.
LEMMA OnlyFails ==
  ASSUME ClientInv, NEW f, Failing(f), calls' = f, corr' = corr,
         \A m \in wire' : \E n \in wire : n.id = m.id /\ n.call = m.call
  PROVE  Harmless
  BY DEF Failing, Harmless, Moved

\* A response completes the call that waits under its id: the one it was made for.
LEMMA Answered ==
  ASSUME ClientInv, NEW k \in Dials, LoopReads(k)
  PROVE  Harmless
<1> DEFINE hitOf(m) == IF m.id \in asked THEN Waiting({m.id}) ELSE {}
           answer(m, f) == [c \in Calls |->
             IF c \in hitOf(m) THEN [f[c] EXCEPT !.at = "done", !.got = m.call] ELSE f[c]]
<1>1. PICK m \in wire :
        /\ wire' = wire \ {m} /\ corr' = corr
        /\ \/ calls' = answer(m, FailWaiting(asked \ {m.id}))
           \/ calls' = answer(m, calls)
  BY DEF LoopReads
<1>2. \A c \in hitOf(m) : c \in Calls /\ m.call = c
  BY DEF Waiting, ClientInv
<1>3. ASSUME NEW f, Failing(f), calls' = answer(m, f)
      PROVE  Harmless
  <2> HIDE DEF hitOf
  <2>1. ASSUME NEW c \in Calls
        PROVE  /\ calls'[c] \in CallType
               /\ calls'[c].got \in {calls[c].got, c}
               /\ calls'[c].at = "waiting" => calls[c].at = "waiting" /\ calls'[c].id = calls[c].id
    <3>1. f[c] \in CallType /\ (f[c] = calls[c] \/ Moved(calls[c], f[c], "lost"))
      BY <1>3 DEF Failing
    <3>2. CASE c \notin hitOf(m)
      BY <1>3, <3>1, <3>2 DEF Moved
    <3>3. CASE c \in hitOf(m)
      <4> DEFINE r == f[c]
                 s == [r EXCEPT !.at = "done", !.got = m.call]
      <4>1. calls'[c] = s /\ m.call = c
        BY <1>2, <1>3, <3>3
      <4> HIDE DEF r
      <4>2. r \in CallType /\ "done" \in Places /\ m.call \in Calls
        BY <3>1, <4>1 DEF r, Places
      <4>3. s \in CallType /\ s.at = "done" /\ s.got = m.call
        BY <4>2, EditGot DEF CallType
      <4> HIDE DEF s
      <4> QED
        BY <4>1, <4>3
    <3> QED
      BY <3>2, <3>3
  <2>2. calls' = [c \in Calls |-> calls'[c]]
    BY <1>3
  <2>3. calls' \in [Calls -> CallType]
    BY <2>1, <2>2
  <2> QED
    BY <1>1, <2>1, <2>3 DEF Harmless
<1> HIDE DEF answer
<1> QED
  BY <1>1, <1>3, Fails

\* A request is written under an id that nothing has had.
LEMMA Written ==
  ASSUME ClientInv, NEW c \in Calls, Attempt(c), Connected
  PROVE  ClientInv'
<1> DEFINE r == calls[c]
           n == corr + 1
           s == [r EXCEPT !.at = "waiting", !.id = n]
<1>1. /\ r \in CallType /\ n \in Nat /\ "waiting" \in Places
      /\ calls \in [Calls -> CallType]
  BY DEF ClientInv, Places
<1>2. /\ corr' = n
      /\ calls' = [calls EXCEPT ![c] = s]
      /\ \A m \in wire' : m \in wire \/ (m.id = n /\ m.call = c)
  <2>1. corr' = n /\ calls' = [calls EXCEPT ![c].at = "waiting", ![c].id = n]
    BY DEF Attempt
  <2>2. wire' = wire \/ wire' = wire \union {Message(current, n, c, "request")}
    BY DEF Attempt
  <2>3. Message(current, n, c, "request").id = n /\ Message(current, n, c, "request").call = c
    BY DEF Message
  <2>4. calls' = [calls EXCEPT ![c] = s]
    BY <1>1, <2>1
  <2> HIDE DEF n, s
  <2> QED
    BY <2>1, <2>2, <2>3, <2>4
<1> HIDE DEF r
<1>3. s \in CallType /\ s.at = "waiting" /\ s.id = n /\ s.got = r.got
  BY <1>1, EditId DEF CallType
<1> HIDE DEF s
<1>4. \A d \in Calls : calls'[d] = IF d = c THEN s ELSE calls[d]
  BY <1>1, <1>2
<1>5. calls' \in [Calls -> CallType]
  BY <1>1, <1>2, <1>3
<1>6. AnswersMatchCalls'
  BY <1>3, <1>4 DEF AnswersMatchCalls, ClientInv, r
<1>7. \A m \in wire' : m.id \in 0..n
  BY <1>1, <1>2 DEF ClientInv
<1>8. \A d \in Calls : calls'[d].at = "waiting" => calls'[d].id \in 0..n
  BY <1>1, <1>3, <1>4 DEF ClientInv
<1>9. \A d, e \in Calls : calls'[d].at = "waiting" /\ calls'[e].at = "waiting"
                            /\ calls'[d].id = calls'[e].id => d = e
  BY <1>1, <1>3, <1>4 DEF ClientInv
<1>10. \A m \in wire', d \in Calls :
         calls'[d].at = "waiting" /\ calls'[d].id = m.id => m.call = d
  BY <1>1, <1>2, <1>3, <1>4 DEF ClientInv
<1> QED
  BY <1>1, <1>2, <1>5, <1>6, <1>7, <1>8, <1>9, <1>10 DEF ClientInv

\* The other steps of a call.
LEMMA CallHarmless ==
  ASSUME ClientInv, NEW c \in Calls,
         \/ (Attempt(c) /\ ~Connected) \/ WriteFails(c) \/ CallTimeout(c) \/ ConnectionLost(c)
         \/ CloseWriter(c) \/ Forget(c) \/ Dial(c) \/ NoGateway(c)
  PROVE  Harmless
<1>1. \A a \in {"lost", "done", "closing", "closed", "dialling", "again"} :
        a \in Places \ {"waiting"}
  BY DEF Places
<1>2. wire' = wire /\ corr' = corr
  BY DEF Attempt, WriteFails, CallTimeout, ConnectionLost, CloseWriter, Forget, Dial, NoGateway
<1>3. \A m \in wire' : \E n \in wire : n.id = m.id /\ n.call = m.call
  BY <1>2
<1>4. CASE (Attempt(c) /\ ~Connected) \/ WriteFails(c)
  <2>1. calls' = [calls EXCEPT ![c].at = "lost"]
    BY <1>4 DEF Attempt, WriteFails
  <2> QED
    BY <1>1, <1>2, <1>3, <2>1, Fails, OneCallMoves
<1>5. CASE CallTimeout(c) \/ NoGateway(c)
  <2>1. \E g \in {"timeout", "error"} : calls' = [calls EXCEPT ![c].at = "done", ![c].got = g]
    BY <1>5 DEF CallTimeout, NoGateway
  <2> QED
    BY <1>1, <1>2, <1>3, <2>1, Fails, OneCallMoves
<1>6. CASE ConnectionLost(c)
  <2>1. CASE calls' = [calls EXCEPT ![c].at = "done", ![c].got = "error"]
    BY <1>1, <1>2, <1>3, <2>1, Fails, OneCallMoves
  <2>2. CASE calls' = [calls EXCEPT ![c].at = "closing", ![c].left = @ - 1]
    BY <1>1, <1>2, <1>3, <2>2, Fails, OneCallMoves
  <2>3. CASE calls' = [FailWaiting(asked) EXCEPT ![c].at = "closing", ![c].left = @ - 1]
    BY <1>1, <1>2, <1>3, <2>3, Fails, OneCallMoves
  <2> QED
    BY <1>6, <2>1, <2>2, <2>3 DEF ConnectionLost
<1>7. CASE CloseWriter(c)
  <2>1. CASE calls' = [FailWaiting(asked) EXCEPT ![c].at = "dialling"]
    BY <1>1, <1>2, <1>3, <2>1, Fails, OneCallMoves
  <2>2. CASE calls' = [calls EXCEPT ![c].at = "closed"]
    BY <1>1, <1>2, <1>3, <2>2, Fails, OneCallMoves
  <2> QED
    BY <1>7, <2>1, <2>2 DEF CloseWriter
<1>8. CASE Forget(c)
  <2>1. calls' = [FailWaiting(asked) EXCEPT ![c].at = "dialling"]
    BY <1>8 DEF Forget
  <2> QED
    BY <1>1, <1>2, <1>3, <2>1, Fails, OneCallMoves
<1>9. CASE Dial(c)
  <2>1. calls' = [calls EXCEPT ![c].at = "again"]
    BY <1>9 DEF Dial
  <2> QED
    BY <1>1, <1>2, <1>3, <2>1, Fails, OneCallMoves
<1> QED
  BY <1>4, <1>5, <1>6, <1>7, <1>8, <1>9

\* The other steps of read loops, and those of gateways.
LEMMA OtherHarmless ==
  ASSUME ClientInv,
         \/ \E k \in Dials : LoopStarts(k) \/ LoopLoses(k) \/ GatewayDown(k)
         \/ \E m \in wire : GatewayAnswers(m)
  PROVE  Harmless
<1>1. CASE \E k \in Dials : LoopStarts(k) \/ LoopLoses(k) \/ GatewayDown(k)
  <2>1. /\ corr' = corr /\ wire' \subseteq wire
        /\ calls' = calls \/ calls' = FailWaiting(asked)
    BY <1>1 DEF LoopStarts, LoopLoses, GatewayDown
  <2> QED
    BY <2>1, Fails, OnlyFails
<1>2. ASSUME NEW m \in wire, GatewayAnswers(m)
      PROVE  Harmless
  <2> DEFINE a == Message(m.on, m.id, m.call, "response")
  <2>1. corr' = corr /\ calls' = calls /\ wire' = (wire \ {m}) \union {a}
    BY <1>2 DEF GatewayAnswers
  <2>2. a.id = m.id /\ a.call = m.call
    BY DEF Message
  <2> HIDE DEF a
  <2>3. \A x \in wire' : \E n \in wire : n.id = x.id /\ n.call = x.call
    BY <2>1, <2>2
  <2> QED
    BY <2>1, <2>3, Fails, OnlyFails
<1> QED
  BY <1>1, <1>2

\* Calls wait under ids of their own, whatever connections come and go.
THEOREM ClientInvariant == ClientSpec => []ClientInv
<1>1. ClientInit => ClientInv
  <2> SUFFICES ASSUME ClientInit PROVE ClientInv
    OBVIOUS
  <2>1. "idle" \in Places /\ Attempts \in Int
    BY ClientAssumption DEF Places
  <2>2. calls \in [Calls -> CallType] /\ \A c \in Calls : calls[c].at = "idle" /\ calls[c].got = "none"
    BY <2>1 DEF ClientInit, CallType
  <2> QED
    BY <2>2 DEF ClientInit, ClientInv, AnswersMatchCalls
<1>2. ClientInv /\ [ClientNext]_clientVars => ClientInv'
  <2> SUFFICES ASSUME ClientInv, [ClientNext]_clientVars PROVE ClientInv'
    OBVIOUS
  <2>1. CASE \E c \in Calls : \/ Attempt(c) \/ WriteFails(c) \/ CallTimeout(c) \/ ConnectionLost(c)
                              \/ CloseWriter(c) \/ Forget(c) \/ Dial(c) \/ NoGateway(c)
    BY <2>1, Written, CallHarmless, HarmlessKeeps
  <2>2. CASE \/ \E k \in Dials : LoopStarts(k) \/ LoopReads(k) \/ LoopLoses(k) \/ GatewayDown(k)
             \/ \E m \in wire : GatewayAnswers(m)
    BY <2>2, Answered, OtherHarmless, HarmlessKeeps
  <2>3. CASE UNCHANGED clientVars
    BY <2>3 DEF clientVars, ClientInv, AnswersMatchCalls
  <2> QED
    BY <2>1, <2>2, <2>3 DEF ClientNext
<1> QED
  BY <1>1, <1>2, PTL DEF ClientSpec

\* No call returns the result of another, over any number of reconnects.
THEOREM AnswersAlwaysMatch == ClientSpec => []AnswersMatchCalls
<1>1. ClientInv => AnswersMatchCalls
  BY DEF ClientInv
<1> QED
  BY <1>1, ClientInvariant, PTL

-----------------------------------------------------------------------------
(* WaitersAreRead.                                                         *)

\* There is a read loop, or a close in progress that will fail the calls.
SomeoneReads ==
  \/ \E k \in Dials : loops[k] # None
  \/ \E d \in Calls : calls[d].at \in {"closing", "closed"}

\* The connections are numbered in the order they were dialled in.
SockTypes ==
  /\ \E n \in Nat : Dialled = 1..n
  /\ socks \in [Dialled -> [open : BOOLEAN, up : BOOLEAN]]
  /\ current \in Dialled \cup {None}
  /\ DOMAIN loops = Dials

\* A call that waits has its future among the pending ones, where a loop that ends or a
\* close finds it.
Settled == \A c \in Calls : calls[c].at = "waiting" => calls[c].id \in asked

\* An open connection is read: a request that is written will be answered or fail.
ReadInv ==
  /\ ClientInv /\ SockTypes /\ Settled
  /\ Connected => SomeoneReads
  /\ WaitersAreRead

NobodyWaits == \A c \in Calls : calls[c].at # "waiting"

\* Where a call that goes to another place is, and that the others stay.
LEMMA Goes ==
  ASSUME NEW f \in [Calls -> CallType], NEW c \in Calls, NEW a, NEW n, NEW g, NEW h,
         \/ h = [f EXCEPT ![c].at = a]
         \/ h = [f EXCEPT ![c].at = a, ![c].left = @ - 1]
         \/ h = [f EXCEPT ![c].at = a, ![c].got = g]
         \/ h = [f EXCEPT ![c].at = a, ![c].id = n]
  PROVE  h[c].at = a /\ \A d \in Calls : d # c => h[d] = f[d]
<1>1. f[c] \in CallType
  OBVIOUS
<1>2. /\ [f[c] EXCEPT !.at = a].at = a
      /\ [f[c] EXCEPT !.at = a, !.left = f[c].left - 1].at = a
      /\ [f[c] EXCEPT !.at = a, !.got = g].at = a
      /\ [f[c] EXCEPT !.at = a, !.id = n].at = a
  BY <1>1 DEF CallType
<1> QED
  BY <1>2

\* When every pending future fails, nobody waits.
LEMMA AllFail ==
  ASSUME ClientInv, Settled
  PROVE  /\ FailWaiting(asked) \in [Calls -> CallType]
         /\ \A c \in Calls : FailWaiting(asked)[c].at # "waiting"
<1>1. calls \in [Calls -> CallType]
  BY DEF ClientInv
<1>2. FailWaiting(asked) \in [Calls -> CallType]
  BY <1>1, FailKeeps
<1>3. ASSUME NEW c \in Calls PROVE FailWaiting(asked)[c].at # "waiting"
  <2>1. [calls[c] EXCEPT !.at = "lost"].at = "lost"
    BY <1>1 DEF CallType
  <2>2. FailWaiting(asked)[c] =
          IF c \in Waiting(asked) THEN [calls[c] EXCEPT !.at = "lost"] ELSE calls[c]
    BY DEF FailWaiting
  <2>3. c \notin Waiting(asked) => calls[c].at # "waiting"
    BY DEF Settled, Waiting
  <2> QED
    BY <2>1, <2>2, <2>3
<1> QED
  BY <1>2, <1>3

\* A step keeps the open connection read, fails every call along with the connection, or
\* leaves a reader.
LEMMA ReadFrame ==
  ASSUME ReadInv,
         \A c \in Calls : calls'[c].at = "waiting" =>
            \/ calls[c].at = "waiting" /\ calls'[c].id = calls[c].id /\ calls[c].id \in asked'
            \/ Connected /\ calls'[c].id \in asked',
         \/ SomeoneReads'
         \/ (SomeoneReads => SomeoneReads') /\ (Connected' => Connected)
         \/ NobodyWaits' /\ ~Connected'
  PROVE  Settled' /\ (Connected => SomeoneReads)' /\ WaitersAreRead'
<1>1. Settled'
  BY DEF Settled
<1>2. (Connected => SomeoneReads)'
  BY DEF ReadInv
<1>3. (\A c \in Calls : calls'[c].at = "waiting" => SomeoneReads')
  BY DEF ReadInv, WaitersAreRead, SomeoneReads, NobodyWaits
<1>4. WaitersAreRead'
  BY <1>3 DEF WaitersAreRead, SomeoneReads
<1> QED
  BY <1>1, <1>2, <1>4

\* A new connection has the next number.
LEMMA NextDial ==
  ASSUME SockTypes, Cardinality(Dialled) < MaxDials
  PROVE  LET k == Cardinality(Dialled) + 1 IN
         k \in Dials /\ k # None /\ \E n \in Nat : Dialled \cup {k} = 1..n
<1>1. PICK n \in Nat : Dialled = 1..n
  BY DEF SockTypes
<1>2. Cardinality(Dialled) = n
  BY <1>1, FS_Interval
<1>3. n + 1 \in Nat /\ Dialled \cup {n + 1} = 1..(n + 1)
  BY <1>1
<1>4. n + 1 \in 1..MaxDials
  BY <1>2, ClientAssumption
<1> QED
  BY <1>2, <1>3, <1>4 DEF Dials, None

\* Every step keeps the connections numbered, and the current one among them.
LEMMA SockStep ==
  ASSUME SockTypes, [ClientNext]_clientVars
  PROVE  SockTypes'
<1>1. ASSUME NEW c \in Calls, Dial(c) PROVE SockTypes'
  <2> DEFINE k == Cardinality(Dialled) + 1
             new == [j \in Dialled \cup {k} |->
                       IF j = k THEN [open |-> TRUE, up |-> TRUE] ELSE socks[j]]
  <2>1. /\ socks' = new /\ current' = k /\ loops' = [loops EXCEPT ![k] = Fresh]
        /\ Cardinality(Dialled) < MaxDials
    BY <1>1 DEF Dial
  <2>2. k \in Dials /\ \E n \in Nat : Dialled \cup {k} = 1..n
    BY <2>1, NextDial
  <2> HIDE DEF k
  <2>3. DOMAIN new = Dialled \cup {k} /\ new \in [Dialled \cup {k} -> [open : BOOLEAN, up : BOOLEAN]]
    BY DEF SockTypes
  <2>4. Dialled' = Dialled \cup {k}
    BY <2>1, <2>3 DEF Dialled
  <2> HIDE DEF new
  <2> QED
    BY <2>1, <2>2, <2>3, <2>4 DEF SockTypes
<1>2. ASSUME socks' = socks \/ \E k : \E b \in BOOLEAN :
               socks' = [socks EXCEPT ![k].open = b] \/ socks' = [socks EXCEPT ![k].up = b],
             current' \in {current, None},
             DOMAIN loops' = DOMAIN loops
      PROVE  SockTypes'
  <2>1. DOMAIN socks' = DOMAIN socks
    BY <1>2
  <2>2. socks' \in [Dialled -> [open : BOOLEAN, up : BOOLEAN]]
    <3>1. CASE socks' = socks
      BY <3>1 DEF SockTypes
    <3>2. ASSUME NEW k, NEW b \in BOOLEAN,
                 socks' = [socks EXCEPT ![k].open = b] \/ socks' = [socks EXCEPT ![k].up = b]
          PROVE  socks' \in [Dialled -> [open : BOOLEAN, up : BOOLEAN]]
      <4>1. k \in Dialled =>
              /\ [socks[k] EXCEPT !.open = b] \in [open : BOOLEAN, up : BOOLEAN]
              /\ [socks[k] EXCEPT !.up = b] \in [open : BOOLEAN, up : BOOLEAN]
        BY DEF SockTypes
      <4> QED
        BY <3>2, <4>1 DEF SockTypes
    <3> QED
      BY <1>2, <3>1, <3>2
  <2> QED
    BY <1>2, <2>1, <2>2 DEF SockTypes, Dialled
<1>3. ASSUME NEW c \in Calls, \/ Attempt(c) \/ WriteFails(c) \/ CallTimeout(c) \/ ConnectionLost(c)
                              \/ CloseWriter(c) \/ Forget(c) \/ NoGateway(c)
      PROVE  SockTypes'
  BY <1>2, <1>3 DEF Attempt, WriteFails, CallTimeout, ConnectionLost, CloseWriter, Forget, NoGateway
<1>4. ASSUME NEW k \in Dials, LoopStarts(k) \/ LoopReads(k) \/ LoopLoses(k)
      PROVE  SockTypes'
  BY <1>2, <1>4 DEF LoopStarts, LoopReads, LoopLoses, LoopEnds
<1>5. ASSUME NEW k \in Dials, GatewayDown(k)
      PROVE  SockTypes'
  BY <1>2, <1>5 DEF GatewayDown
<1>6. CASE (\E m \in wire : GatewayAnswers(m)) \/ UNCHANGED clientVars
  BY <1>2, <1>6 DEF GatewayAnswers, clientVars
<1> QED
  BY <1>1, <1>3, <1>4, <1>5, <1>6 DEF ClientNext

\* The steps of a call, but the one that writes a request.
LEMMA CallReads ==
  ASSUME ReadInv, Harmless, NEW c \in Calls,
         \/ (Attempt(c) /\ ~Connected) \/ WriteFails(c) \/ CallTimeout(c) \/ ConnectionLost(c)
         \/ CloseWriter(c) \/ Forget(c) \/ Dial(c) \/ NoGateway(c)
  PROVE  Settled' /\ (Connected => SomeoneReads)' /\ WaitersAreRead'
<1> DEFINE kept == \A d \in Calls : calls'[d].at = "waiting" =>
                     /\ calls[d].at = "waiting" /\ calls'[d].id = calls[d].id
                     /\ calls[d].id \in asked'
<1>0. ClientInv /\ Settled /\ SockTypes /\ calls \in [Calls -> CallType]
  BY DEF ReadInv, ClientInv
<1>1. \A d \in Calls : calls'[d].at = "waiting" => /\ calls[d].at = "waiting"
                                                  /\ calls'[d].id = calls[d].id
                                                  /\ calls[d].id \in asked
  BY <1>0 DEF Harmless, Settled
<1>2. ASSUME NEW a \in {"lost", "done"}, NEW g,
             calls[c].at \notin {"closing", "closed"},
             calls' = [calls EXCEPT ![c].at = a] \/ calls' = [calls EXCEPT ![c].at = a, ![c].got = g],
             asked' = asked \/ (calls[c].at = "waiting" /\ asked' = asked \ {calls[c].id}),
             UNCHANGED <<socks, current, loops>>
      PROVE  Settled' /\ (Connected => SomeoneReads)' /\ WaitersAreRead'
  <2>1. calls'[c].at = a /\ \A d \in Calls : d # c => calls'[d] = calls[d]
    <3>1. CASE calls' = [calls EXCEPT ![c].at = a]
      BY <1>0, <3>1, Goes
    <3>2. CASE calls' = [calls EXCEPT ![c].at = a, ![c].got = g]
      BY <1>0, <3>2, Goes
    <3> QED
      BY <1>2, <3>1, <3>2
  <2>2. kept
    BY <1>0, <1>1, <1>2, <2>1 DEF ClientInv
  <2>3. (SomeoneReads => SomeoneReads') /\ (Connected' => Connected)
    BY <1>2, <2>1 DEF SomeoneReads, Connected
  <2> HIDE DEF kept
  <2> QED
    BY <2>2, <2>3, ReadFrame DEF kept
<1>3. CASE (Attempt(c) /\ ~Connected) \/ WriteFails(c) \/ CallTimeout(c) \/ NoGateway(c)
  <2>1. CASE Attempt(c) /\ ~Connected
    BY <1>2, <2>1 DEF Attempt
  <2>2. CASE WriteFails(c)
    BY <1>2, <2>2 DEF WriteFails
  <2>3. CASE CallTimeout(c)
    BY <1>2, <2>3 DEF CallTimeout
  <2>4. CASE NoGateway(c)
    BY <1>2, <2>4 DEF NoGateway
  <2> QED
    BY <1>3, <2>1, <2>2, <2>3, <2>4
<1>4. CASE ConnectionLost(c)
  <2>1. CASE calls[c].left = 1
    BY <1>2, <1>4, <2>1 DEF ConnectionLost
  <2>2. CASE calls[c].left # 1
    <3>1. PICK f \in {calls, FailWaiting(asked)} :
            /\ calls' = [f EXCEPT ![c].at = "closing", ![c].left = @ - 1]
            /\ f = FailWaiting(asked) \/ (f = calls /\ asked' = asked)
      BY <1>4, <2>2 DEF ConnectionLost
    <3>2. f \in [Calls -> CallType]
      BY <1>0, AllFail
    <3>3. calls'[c].at = "closing" /\ \A d \in Calls : d # c => calls'[d] = f[d]
      BY <3>1, <3>2, Goes
    <3>4. SomeoneReads'
      BY <3>3 DEF SomeoneReads
    <3>5. kept
      BY <1>0, <1>1, <3>1, <3>3, AllFail
    <3> QED
      BY <3>4, <3>5, ReadFrame
  <2> QED
    BY <2>1, <2>2
<1>5. ASSUME current' = None, calls' = [FailWaiting(asked) EXCEPT ![c].at = "dialling"]
      PROVE  Settled' /\ (Connected => SomeoneReads)' /\ WaitersAreRead'
  <2>1. \A d \in Calls : calls'[d].at # "waiting"
    <3>1. calls'[c].at = "dialling" /\ \A d \in Calls : d # c => calls'[d] = FailWaiting(asked)[d]
      BY <1>0, <1>5, AllFail, Goes
    <3> QED
      BY <1>0, <3>1, AllFail
  <2>2. NobodyWaits' /\ ~Connected'
    BY <1>5, <2>1 DEF NobodyWaits, Connected
  <2> QED
    BY <2>1, <2>2, ReadFrame
<1>6. CASE CloseWriter(c)
  <2>1. CASE current = None
    BY <1>5, <1>6, <2>1 DEF CloseWriter
  <2>2. CASE current # None
    <3>1. calls' = [calls EXCEPT ![c].at = "closed"] /\ asked' = asked
      BY <1>6, <2>2 DEF CloseWriter
    <3>2. calls'[c].at = "closed"
      BY <1>0, <3>1, Goes
    <3>3. SomeoneReads'
      BY <3>2 DEF SomeoneReads
    <3> QED
      BY <1>1, <3>1, <3>3, ReadFrame
  <2> QED
    BY <2>1, <2>2
<1>7. CASE Forget(c)
  BY <1>5, <1>7 DEF Forget
<1>8. CASE Dial(c)
  <2> DEFINE k == Cardinality(Dialled) + 1
  <2>1. loops' = [loops EXCEPT ![k] = Fresh] /\ Cardinality(Dialled) < MaxDials /\ asked' = asked
    BY <1>8 DEF Dial
  <2>2. k \in Dials
    BY <1>0, <2>1, NextDial
  <2> HIDE DEF k
  <2>3. loops'[k] = Fresh /\ Fresh # None
    BY <1>0, <2>1, <2>2, ClientAssumption DEF SockTypes, Fresh, None
  <2>4. SomeoneReads'
    BY <2>2, <2>3 DEF SomeoneReads
  <2> QED
    BY <1>1, <2>1, <2>4, ReadFrame
<1> QED
  BY <1>3, <1>4, <1>6, <1>7, <1>8

\* A request is written only to a connection that is open, and so read.
LEMMA WrittenIsRead ==
  ASSUME ReadInv, NEW c \in Calls, Attempt(c), Connected
  PROVE  Settled' /\ (Connected => SomeoneReads)' /\ WaitersAreRead'
<1> DEFINE n == corr + 1
<1>1. /\ calls \in [Calls -> CallType] /\ calls[c].at \in {"idle", "again"}
      /\ asked' = asked \cup {n}
      /\ calls' = [calls EXCEPT ![c].at = "waiting", ![c].id = n]
      /\ UNCHANGED <<socks, current, loops>>
  BY DEF ReadInv, ClientInv, Attempt
<1> HIDE DEF n
<1>2. calls'[c].at = "waiting" /\ \A d \in Calls : d # c => calls'[d] = calls[d]
  BY <1>1, Goes
<1>3. calls'[c].id = n
  <2>1. calls[c] \in CallType
    BY <1>1
  <2>2. [calls[c] EXCEPT !.at = "waiting", !.id = n].id = n
    BY <2>1 DEF CallType
  <2> QED
    BY <1>1, <2>2
<1>4. \A d \in Calls : calls'[d].at = "waiting" =>
         \/ calls[d].at = "waiting" /\ calls'[d].id = calls[d].id /\ calls[d].id \in asked'
         \/ Connected /\ calls'[d].id \in asked'
  BY <1>1, <1>2, <1>3 DEF ReadInv, Settled
<1>5. SomeoneReads'
  BY <1>1, <1>2 DEF ReadInv, SomeoneReads
<1> QED
  BY <1>4, <1>5, ReadFrame

\* The steps of the read loops and of the gateways.
LEMMA LoopsRead ==
  ASSUME ReadInv, Harmless,
         \/ \E k \in Dials : LoopStarts(k) \/ LoopReads(k) \/ LoopLoses(k) \/ GatewayDown(k)
         \/ \E m \in wire : GatewayAnswers(m)
  PROVE  Settled' /\ (Connected => SomeoneReads)' /\ WaitersAreRead'
<1>0. ClientInv /\ Settled /\ SockTypes /\ calls \in [Calls -> CallType]
  BY DEF ReadInv, ClientInv
<1>1. \A d \in Calls : calls'[d].at = "waiting" => /\ calls[d].at = "waiting"
                                                  /\ calls'[d].id = calls[d].id
                                                  /\ calls[d].id \in asked
  BY <1>0 DEF Harmless, Settled
<1>2. ASSUME NEW k \in Dials, LoopEnds(k), current' = current, NobodyWaits'
      PROVE  Settled' /\ (Connected => SomeoneReads)' /\ WaitersAreRead'
  <2>1. ~Connected'
    <3>1. CASE current = None
      BY <1>2, <3>1 DEF Connected
    <3>2. CASE current # None
      <4>1. socks' = [socks EXCEPT ![current].open = FALSE] /\ socks[current] \in [open : BOOLEAN, up : BOOLEAN]
            /\ current \in DOMAIN socks
        BY <1>0, <1>2, <3>2 DEF LoopEnds, SockTypes, Dialled
      <4>2. socks'[current].open = FALSE
        BY <4>1
      <4> QED
        BY <1>2, <4>2 DEF Connected
    <3> QED
      BY <3>1, <3>2
  <2> QED
    BY <1>2, <2>1, ReadFrame DEF NobodyWaits
<1>3. ASSUME NEW k \in Dials, loops' = [loops EXCEPT ![k] = current], ~Blocked(k),
             \A d \in Calls : calls'[d].at = "waiting" => calls[d].id \in asked'
      PROVE  Settled' /\ (Connected => SomeoneReads)' /\ WaitersAreRead'
  <2>1. loops'[k] # None
    BY <1>0, <1>3 DEF Blocked, SockTypes
  <2>2. SomeoneReads'
    BY <2>1 DEF SomeoneReads
  <2> QED
    BY <1>1, <1>3, <2>2, ReadFrame
<1>4. ASSUME calls' = FailWaiting(asked) PROVE NobodyWaits'
  BY <1>0, <1>4, AllFail DEF NobodyWaits
<1>5. ASSUME NEW k \in Dials, LoopStarts(k) \/ LoopLoses(k)
      PROVE  Settled' /\ (Connected => SomeoneReads)' /\ WaitersAreRead'
  <2>1. CASE LoopEnds(k) /\ calls' = FailWaiting(asked)
    BY <1>2, <1>4, <1>5, <2>1 DEF LoopStarts, LoopLoses
  <2>2. CASE ~Blocked(k) /\ loops' = [loops EXCEPT ![k] = current] /\ asked' = asked
    BY <1>1, <1>3, <2>2
  <2> QED
    BY <1>5, <2>1, <2>2 DEF LoopStarts, LoopLoses
<1>6. ASSUME NEW k \in Dials, LoopReads(k)
      PROVE  Settled' /\ (Connected => SomeoneReads)' /\ WaitersAreRead'
  <2> DEFINE hitOf(m) == IF m.id \in asked THEN Waiting({m.id}) ELSE {}
             answer(m, f) == [c \in Calls |->
               IF c \in hitOf(m) THEN [f[c] EXCEPT !.at = "done", !.got = m.call] ELSE f[c]]
  <2>1. PICK m \in wire :
          IF Blocked(k)
          THEN LoopEnds(k) /\ calls' = answer(m, FailWaiting(asked \ {m.id}))
          ELSE /\ loops' = [loops EXCEPT ![k] = current]
               /\ asked' = asked \ {m.id}
               /\ calls' = answer(m, calls)
    BY <1>6 DEF LoopReads
  <2>2. \A f \in [Calls -> CallType] : \A c \in hitOf(m) \cap Calls : answer(m, f)[c].at = "done"
    <3> TAKE f \in [Calls -> CallType]
    <3> TAKE c \in hitOf(m) \cap Calls
    <3> HIDE DEF hitOf
    <3>1. f[c] \in CallType
      OBVIOUS
    <3>2. [f[c] EXCEPT !.at = "done", !.got = m.call].at = "done"
      BY <3>1 DEF CallType
    <3> QED
      BY <3>2
  <2>3. \A c \in Calls : calls[c].at = "waiting" /\ calls[c].id = m.id => c \in hitOf(m)
    BY <1>0 DEF Settled, Waiting
  <2>4. CASE Blocked(k)
    <3>1. FailWaiting(asked \ {m.id}) \in [Calls -> CallType]
      BY <1>0, FailKeeps
    <3>2. ASSUME NEW c \in Calls PROVE calls'[c].at # "waiting"
      <4>1. CASE c \in hitOf(m)
        BY <2>1, <2>2, <2>4, <3>1, <4>1
      <4>2. CASE c \notin hitOf(m)
        <5>1. calls'[c] = FailWaiting(asked \ {m.id})[c]
          BY <2>1, <2>4, <4>2
        <5>2. FailWaiting(asked \ {m.id})[c] =
                IF c \in Waiting(asked \ {m.id}) THEN [calls[c] EXCEPT !.at = "lost"] ELSE calls[c]
          BY DEF FailWaiting
        <5>3. [calls[c] EXCEPT !.at = "lost"].at = "lost"
          BY <1>0 DEF CallType
        <5>4. calls[c].at = "waiting" => c \in Waiting(asked \ {m.id})
          BY <1>0, <2>3, <4>2 DEF Settled, Waiting
        <5> QED
          BY <5>1, <5>2, <5>3, <5>4
      <4> QED
        BY <4>1, <4>2
    <3>3. NobodyWaits' /\ LoopEnds(k) /\ current' = current
      BY <1>6, <2>1, <2>4, <3>2 DEF NobodyWaits, LoopReads
    <3> QED
      BY <1>2, <3>3
  <2>5. CASE ~Blocked(k)
    <3>1. ASSUME NEW c \in Calls, calls'[c].at = "waiting" PROVE calls[c].id \in asked'
      <4>1. c \notin hitOf(m)
        BY <1>0, <2>1, <2>2, <2>5, <3>1
      <4>2. calls[c].at = "waiting" /\ calls[c].id \in asked
        BY <1>1, <3>1
      <4> QED
        BY <2>1, <2>3, <2>5, <4>1, <4>2
    <3> HIDE DEF hitOf, answer
    <3> QED
      BY <1>3, <2>1, <2>5, <3>1
  <2> QED
    BY <2>4, <2>5
<1>7. ASSUME NEW k \in Dials, GatewayDown(k)
      PROVE  Settled' /\ (Connected => SomeoneReads)' /\ WaitersAreRead'
  <2>1. /\ socks' = [socks EXCEPT ![k].up = FALSE]
        /\ UNCHANGED <<current, loops, asked, calls>>
    BY <1>7 DEF GatewayDown
  <2>2. \A j \in Dialled : socks'[j].open = socks[j].open
    BY <1>0, <2>1 DEF SockTypes, Dialled
  <2>3. Connected' => Connected
    BY <1>0, <2>1, <2>2 DEF Connected, SockTypes
  <2>4. SomeoneReads => SomeoneReads'
    BY <2>1 DEF SomeoneReads
  <2> QED
    BY <1>1, <2>1, <2>3, <2>4, ReadFrame
<1>8. CASE \E m \in wire : GatewayAnswers(m)
  <2>1. UNCHANGED <<socks, current, loops, asked, calls>>
    BY <1>8 DEF GatewayAnswers
  <2>2. (SomeoneReads => SomeoneReads') /\ (Connected' => Connected)
    BY <2>1 DEF SomeoneReads, Connected
  <2> QED
    BY <1>1, <2>1, <2>2, ReadFrame
<1> QED
  BY <1>5, <1>6, <1>7, <1>8

\* A call that waits is read for, or about to be failed, in whatever order calls close
\* and dial and gateways go down.
THEOREM WaitersAreAlwaysRead == ClientSpec => []WaitersAreRead
<1>1. ClientInit /\ ClientInv => ReadInv
  <2> SUFFICES ASSUME ClientInit, ClientInv PROVE ReadInv
    OBVIOUS
  <2>1. calls \in [Calls -> CallType] /\ \A c \in Calls : calls[c].at = "idle"
    BY DEF ClientInit, ClientInv
  <2>2. SockTypes
    <3>1. 1 \in Nat /\ {1} = 1..1 /\ Dialled = {1}
      BY DEF ClientInit, Dialled
    <3> QED
      BY <3>1 DEF ClientInit, SockTypes
  <2>3. SomeoneReads
    <3>1. 1 \in Dials /\ loops[1] = 1
      BY ClientAssumption DEF ClientInit, Dials
    <3> QED
      BY <3>1 DEF SomeoneReads, None
  <2> QED
    BY <2>1, <2>2, <2>3 DEF ReadInv, Settled, WaitersAreRead
<1>2. ReadInv /\ [ClientNext]_clientVars /\ ClientInv' => ReadInv'
  <2> SUFFICES ASSUME ReadInv, [ClientNext]_clientVars, ClientInv' PROVE ReadInv'
    OBVIOUS
  <2>0. ClientInv /\ SockTypes'
    BY SockStep DEF ReadInv
  <2> SUFFICES Settled' /\ (Connected => SomeoneReads)' /\ WaitersAreRead'
    BY <2>0 DEF ReadInv
  <2>1. CASE \E c \in Calls : \/ Attempt(c) \/ WriteFails(c) \/ CallTimeout(c) \/ ConnectionLost(c)
                              \/ CloseWriter(c) \/ Forget(c) \/ Dial(c) \/ NoGateway(c)
    BY <2>0, <2>1, CallHarmless, CallReads, WrittenIsRead
  <2>2. CASE \/ \E k \in Dials : LoopStarts(k) \/ LoopReads(k) \/ LoopLoses(k) \/ GatewayDown(k)
             \/ \E m \in wire : GatewayAnswers(m)
    <3>1. Harmless
      BY <2>0, <2>2, Answered, OtherHarmless
    <3> QED
      BY <2>2, <3>1, LoopsRead
  <2>3. CASE UNCHANGED clientVars
    BY <2>3 DEF clientVars, ReadInv, Settled, Connected, SomeoneReads, WaitersAreRead
  <2> QED
    BY <2>1, <2>2, <2>3 DEF ClientNext
<1>3. ReadInv => WaitersAreRead
  BY DEF ReadInv
<1> QED
  BY <1>1, <1>2, <1>3, ClientInvariant, PTL DEF ClientSpec
=============================================================================
