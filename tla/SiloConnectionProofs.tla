------------------------ MODULE SiloConnectionProofs ------------------------
(***************************************************************************)
(* Proofs about SiloConnection: for any requests, whatever makes them, and *)
(* any limits, both ends keep the promise of RequestResponse.              *)
(***************************************************************************)
EXTENDS SiloConnection, FiniteSetTheorems, SequenceTheorems, TLAPS

Frames == [kind : {"request", "ping", "response", "error"}, id : Ids, req : Requests]
Jobs == [req : Requests, id : Ids, stage : {"running", "response", "error", "draining"}]
Results == Requests \union {"none", "failed"}
Begins == {"queued", "draining", "waiting"}

CallerTypes ==
  /\ nextId \in [Ends -> Ids]
  /\ pending \in [Ends -> [Ids -> Requests \union {NoReq}]]
  /\ stage \in [Requests -> {"idle", "permit", "queued", "draining", "waiting", "ended"}]
  /\ id \in [Requests -> Ids \union {0}]
  /\ future \in [Requests -> Results]
  /\ result \in [Requests -> Results]

WireTypes ==
  /\ conn \in [Ends -> {"running", "closing", "shutting", "closed"}]
  /\ lock \in [Ends -> Frames \union {NoFrame}]
  /\ wire \in [Ends -> Seq(Frames)]
  /\ open \in SUBSET Ends
  /\ handlers \in [Ends -> SUBSET Jobs]
  /\ served \in [Requests -> {0, 1}]

Active == {q \in Requests : stage[q] # "idle"}
Mixed(R) == \E mix \in Mixes : R \subseteq mix

\* The requests of an end that may have an id, and the counter that stays behind them.
Begun(e) == {r \in Requests : Origin[r] = e /\ stage[r] \notin {"idle", "permit"}}
Counted(e) ==
  \/ Cardinality(Begun(e)) >= MaxId
  \/ /\ nextId[e] <= Cardinality(Begun(e)) + 1
     /\ \A r \in Requests : Origin[r] = e => id[r] < nextId[e]

\* An id is one request's, for good.
IdsAreOwned ==
  /\ \A r, q \in Requests : Origin[r] = Origin[q] /\ id[r] = id[q] /\ id[r] # 0 => r = q
  /\ \A r \in Requests : /\ stage[r] \in {"idle", "permit"} => id[r] = 0
                         /\ stage[r] \in Begins => id[r] # 0
  /\ \A e \in Ends, i \in Ids :
       pending[e][i] # NoReq => Origin[pending[e][i]] = e /\ id[pending[e][i]] = i

CallerInv ==
  /\ CallerTypes
  /\ Active = {} \/ Mixed(Active)
  /\ \A e \in Ends : Counted(e)
  /\ IdsAreOwned
  /\ WaitersArePending

Sent(r) == stage[r] \in {"draining", "waiting", "ended"}
IsAnswer(f) == f.kind \in {"response", "error"}

\* A request is under way to the peer once, and then never again: an answer is under way
\* only after the peer took the request, and it bears the request's own id.
Fits(e, f) ==
  /\ f.id = id[f.req]
  /\ IsAnswer(f) => Origin[f.req] = e /\ served[f.req] = 1
  /\ ~IsAnswer(f) => Origin[f.req] = Other(e) /\ served[f.req] = 0 /\ Sent(f.req)
Once(s) ==
  \A i, j \in 1..Len(s) :
    ~IsAnswer(s[i]) /\ ~IsAnswer(s[j]) /\ s[i].req = s[j].req => i = j
OnTheWire ==
  \A e \in Ends : Once(wire[e]) /\ \A i \in 1..Len(wire[e]) : Fits(e, wire[e][i])

InHandlers ==
  \A e \in Ends : \A h \in handlers[e] :
    Origin[h.req] = Other(e) /\ h.id = id[h.req] /\ served[h.req] = 1

Futures ==
  \A r \in Requests : /\ future[r] \in {"none", "failed", r}
                      /\ future[r] = r => served[r] = 1
                      /\ served[r] = 1 => Sent(r)

LocksAreHeld == \A e \in Ends : Locked(e) /\ Asking(e) => stage[lock[e].req] = "draining"

ConnInv ==
  /\ CallerInv
  /\ WireTypes
  /\ OnTheWire
  /\ InHandlers
  /\ Futures
  /\ LocksAreHeld

\* A connection has two ends.
LEMMA Two ==
  /\ \A e \in Ends : Other(e) \in Ends /\ Other(e) # e /\ Other(Other(e)) = e
  /\ Other("a") = "b" /\ Other("b") = "a"
  BY DEF Other, Ends
-----------------------------------------------------------------------------
(* What a step may do to the callers and to the table of pending requests. *)

callerVars == <<nextId, pending, stage, id, future, result>>

WaitsForPermit(r) ==
  /\ stage[r] = "idle"
  /\ Mixed({r} \union Active)
  /\ stage' = [stage EXCEPT ![r] = "permit"]
  /\ UNCHANGED <<table, result>>

Begin(r) ==
  /\ stage[r] \in {"idle", "permit"}
  /\ Mixed({r} \union Active)
  /\ Allocate(r)
  /\ \E s \in Begins : stage' = [stage EXCEPT ![r] = s]
  /\ UNCHANGED <<future, result>>

Advance(r) ==
  /\ stage[r] \in {"queued", "draining"}
  /\ \E s \in {"draining", "waiting"} : stage' = [stage EXCEPT ![r] = s]
  /\ UNCHANGED <<table, result>>

\* It ends before it has an id, and perhaps the counter goes on.
EndsEarly(r) ==
  /\ stage[r] \in {"idle", "permit"}
  /\ Mixed({r} \union Active)
  /\ stage' = [stage EXCEPT ![r] = "ended"]
  /\ result' = [result EXCEPT ![r] = "failed"]
  /\ nextId' \in {nextId, [nextId EXCEPT ![Origin[r]] = IF @ = MaxId THEN 1 ELSE @ + 1]}
  /\ UNCHANGED <<pending, id, future>>

EndsWith(r, outcome) ==
  /\ stage[r] \in {"permit", "queued", "draining", "waiting"}
  /\ stage' = [stage EXCEPT ![r] = "ended"]
  /\ result' = [result EXCEPT ![r] = outcome]
  /\ pending' \in {pending, Discarded(r)}
  /\ UNCHANGED <<nextId, id, future>>

Settles(e, i, outcome) ==
  /\ Resolve(e, i, outcome)
  /\ UNCHANGED <<stage, result>>

\* fail_all of one end, as its futures see it.
Flushes(e) ==
  /\ future' = [r \in Requests |->
       IF \E i \in Ids : pending[e][i] = r /\ future[r] = "none" THEN "failed" ELSE future[r]]
  /\ pending' = [pending EXCEPT ![e] = NoPending]
  /\ UNCHANGED <<nextId, id, stage, result>>

CallerStep ==
  \/ UNCHANGED callerVars
  \/ \E r \in Requests : \/ WaitsForPermit(r) \/ Begin(r) \/ Advance(r) \/ EndsEarly(r)
                         \/ EndsWith(r, "failed")
                         \/ future[r] # "none" /\ EndsWith(r, future[r])
  \/ \E e \in Ends, i \in Ids, r \in Requests :
       \E outcome \in {"failed", r} :
          /\ outcome = r => served[r] = 1
          /\ pending[e][i] \in {r, NoReq}
          /\ Settles(e, i, outcome)
  \/ \E e \in Ends : Flushes(e)

\* Every way to make a request starts as one of these.
LEMMA ProceedIs ==
  ASSUME NEW r \in Requests, stage[r] \in {"idle", "permit"}, Mixed({r} \union Active),
         Proceed(r), UNCHANGED future
  PROVE  Begin(r) \/ EndsEarly(r)
<1>1. CASE Locked(Origin[r]) /\ Allocate(r) /\ stage' = [stage EXCEPT ![r] = "queued"]
             /\ UNCHANGED <<result, wire, lock>>
  BY <1>1 DEF Begin, Begins
<1>2. CASE /\ Allocate(r)
           /\ stage' = [stage EXCEPT ![r] = "draining"] \/ stage' = [stage EXCEPT ![r] = "waiting"]
           /\ UNCHANGED result
  BY <1>2 DEF Begin, Begins
<1>3. CASE /\ nextId' = [nextId EXCEPT ![Origin[r]] = IF @ = MaxId THEN 1 ELSE @ + 1]
           /\ stage' = [stage EXCEPT ![r] = "ended"]
           /\ result' = [result EXCEPT ![r] = "failed"]
           /\ UNCHANGED <<pending, id>>
  BY <1>3 DEF EndsEarly
<1> QED
  BY <1>1, <1>2, <1>3 DEF Proceed

\* A request that may begin belongs to the same mix as those begun.
LEMMA MayIs ==
  ASSUME NEW r \in Requests, May(r)
  PROVE  stage[r] = "idle" /\ Mixed({r} \union Active)
  BY DEF May, Mixed, Active

\* So does one that has begun.
LEMMA ActiveIs ==
  ASSUME CallerInv, NEW r \in Requests, stage[r] # "idle"
  PROVE  Mixed({r} \union Active)
  BY DEF CallerInv, Active, Mixed

\* Giving up is an end with an error.
LEMMA GivesUpIs ==
  ASSUME NEW r \in Requests, GivesUp(r), UNCHANGED <<nextId, id, future>>
  PROVE  EndsWith(r, "failed")
  BY DEF GivesUp, EndsWith

\* What a response may do to a future: an id that is pending is its request's.
LEMMA ReadAnswerIs ==
  ASSUME ConnInv, NEW e \in Ends, ReadAnswer(e)
  PROVE  \E i \in Ids, r \in Requests : \E outcome \in {"failed", r} :
           /\ outcome = r => served[r] = 1
           /\ pending[e][i] \in {r, NoReq}
           /\ Settles(e, i, outcome)
<1> DEFINE f == Head(wire[e])
           outcome == IF f.kind = "error" THEN "failed" ELSE f.req
<1>1. wire[e] \in Seq(Frames) /\ wire[e] # <<>>
  BY DEF ConnInv, WireTypes, ReadAnswer, Reading
<1>2. f \in Frames /\ 1 \in 1..Len(wire[e]) /\ f = wire[e][1]
  BY <1>1, HeadTailProperties, EmptySeq
<1>3. IsAnswer(f) /\ Settles(e, f.id, outcome)
  BY DEF ReadAnswer, Settles, IsAnswer
<1>4. f.id = id[f.req] /\ Origin[f.req] = e /\ served[f.req] = 1
  BY <1>2, <1>3 DEF ConnInv, OnTheWire, Fits
<1>5. f.id \in Ids /\ f.req \in Requests
  BY <1>2 DEF Frames
<1>6. pending[e][f.id] \in Requests \union {NoReq}
  BY <1>5 DEF ConnInv, CallerInv, CallerTypes
<1>7. pending[e][f.id] # NoReq => pending[e][f.id] = f.req
  <2> SUFFICES ASSUME pending[e][f.id] # NoReq PROVE pending[e][f.id] = f.req
    OBVIOUS
  <2>1. Origin[pending[e][f.id]] = e /\ id[pending[e][f.id]] = f.id
    BY <1>5 DEF ConnInv, CallerInv, IdsAreOwned
  <2>2. f.id # 0
    BY <1>5, ConnectionAssumption DEF Ids
  <2> QED
    BY <1>4, <1>5, <1>6, <2>1, <2>2 DEF ConnInv, CallerInv, IdsAreOwned
<1>8. outcome \in {"failed", f.req}
  OBVIOUS
<1> HIDE DEF f, outcome
<1> QED
  BY <1>3, <1>4, <1>5, <1>7, <1>8

\* Every step is one of these for the callers and the pending requests.
LEMMA CallerSteps ==
  ASSUME ConnInv, ConnNext
  PROVE  CallerStep
<1>1. ASSUME NEW r \in Requests, Send(r) PROVE CallerStep
  <2>1. stage[r] = "idle" /\ Mixed({r} \union Active)
    BY <1>1, MayIs DEF Send
  <2>2. CASE Proceed(r)
    BY <1>1, <2>1, <2>2, ProceedIs DEF CallerStep, Send
  <2>3. CASE stage' = [stage EXCEPT ![r] = "permit"] /\ UNCHANGED <<nextId, pending, id, result>>
    BY <1>1, <2>1, <2>3 DEF CallerStep, Send, WaitsForPermit, table
  <2> QED
    BY <1>1, <2>2, <2>3 DEF Send
<1>2. ASSUME NEW r \in Requests, SendRejected(r) PROVE CallerStep
  BY <1>2, MayIs DEF SendRejected, EndsEarly, CallerStep, table
<1>3. ASSUME NEW r \in Requests, Permitted(r) PROVE CallerStep
  <2>1. stage[r] = "permit" /\ Mixed({r} \union Active)
    BY <1>3, ActiveIs DEF Permitted, ConnInv
  <2> QED
    BY <1>3, <2>1, ProceedIs DEF CallerStep, Permitted
<1>4. ASSUME NEW r \in Requests, WriteQueued(r) PROVE CallerStep
  <2>1. stage[r] = "queued" /\ UNCHANGED <<nextId, id, future>>
    BY <1>4 DEF WriteQueued
  <2>2. CASE /\ stage' = [stage EXCEPT ![r] = "draining"] \/ stage' = [stage EXCEPT ![r] = "waiting"]
             /\ UNCHANGED <<result, pending>>
    BY <2>1, <2>2 DEF CallerStep, Advance, table
  <2>3. CASE /\ stage' = [stage EXCEPT ![r] = "ended"]
             /\ result' = [result EXCEPT ![r] = "failed"]
             /\ pending' = Discarded(r)
    BY <2>1, <2>3 DEF CallerStep, EndsWith
  <2> QED
    BY <1>4, <2>2, <2>3 DEF WriteQueued
<1>5. ASSUME NEW r \in Requests, Expire(r) PROVE CallerStep
  <2>1. Origin[r] \in Ends /\ id[r] \in Ids
    BY <1>5, ConnectionAssumption DEF ConnInv, CallerInv, CallerTypes, Expire
  <2>2. Settles(Origin[r], id[r], "failed") /\ pending[Origin[r]][id[r]] = r
    BY <1>5 DEF Expire, Settles
  <2>3. "failed" # r
    BY ConnectionAssumption
  <2> QED
    BY <2>1, <2>2, <2>3 DEF CallerStep
<1>6. ASSUME NEW r \in Requests, Return(r) PROVE CallerStep
  BY <1>6 DEF Return, EndsWith, CallerStep
<1>7. ASSUME NEW r \in Requests, CancelRequest(r) PROVE CallerStep
  BY <1>7, GivesUpIs DEF CancelRequest, CallerStep
<1>8. ASSUME NEW e \in Ends, Drained(e) PROVE CallerStep
  <2>1. CASE Asking(e)
    <3>1. lock[e].req \in Requests /\ stage[lock[e].req] = "draining"
      BY <1>8, <2>1 DEF Drained, Locked, ConnInv, LocksAreHeld, WireTypes, Frames
    <3>2. stage' = [stage EXCEPT ![lock[e].req] = "waiting"] /\ UNCHANGED <<table, result>>
      BY <1>8, <2>1 DEF Drained
    <3> QED
      BY <3>1, <3>2 DEF CallerStep, Advance
  <2>2. CASE ~Asking(e)
    BY <1>8, <2>2 DEF Drained, CallerStep, callerVars, table
  <2> QED
    BY <2>1, <2>2
<1>9. ASSUME NEW e \in Ends, DrainFails(e) PROVE CallerStep
  <2>1. CASE Asking(e)
    <3>1. lock[e].req \in Requests /\ stage[lock[e].req] = "draining"
      BY <1>9, <2>1 DEF DrainFails, Locked, ConnInv, LocksAreHeld, WireTypes, Frames
    <3>2. EndsWith(lock[e].req, "failed")
      BY <1>9, <2>1, <3>1 DEF DrainFails, EndsWith
    <3> QED
      BY <3>1, <3>2 DEF CallerStep
  <2>2. CASE ~Asking(e)
    BY <1>9, <2>2 DEF DrainFails, CallerStep, callerVars
  <2> QED
    BY <2>1, <2>2
<1>10. ASSUME NEW e \in Ends, ReadAnswer(e) PROVE CallerStep
  BY <1>10, ReadAnswerIs DEF CallerStep
<1>11. ASSUME NEW e \in Ends, FailAll(e) PROVE CallerStep
  BY <1>11 DEF FailAll, CallerStep, Flushes
<1>12. ASSUME NEW e \in Ends, NEW h \in handlers[e], CancelHandler(e, h) PROVE CallerStep
  <2>1. CASE UNCHANGED <<stage, result, pending>>
    BY <1>12, <2>1 DEF CancelHandler, CallerStep, callerVars
  <2>2. CASE \E r \in Requests : Cause[r] = h.req /\ GivesUp(r)
    BY <1>12, <2>2, GivesUpIs DEF CancelHandler, CallerStep
  <2> QED
    BY <1>12, <2>1, <2>2 DEF CancelHandler
<1>13. ASSUME NEW e \in Ends,
              \/ ReadRequest(e) \/ ReadPing(e) \/ CloseBegin(e) \/ CloseEnd(e) \/ Cut
              \/ \E h \in handlers[e] : Handled(e, h) \/ Reply(e, h)
       PROVE  CallerStep
  BY <1>13 DEF ReadRequest, ReadPing, CloseBegin, CloseEnd, Cut, Handled, Reply, CallerStep,
               callerVars, table
<1> QED
  BY <1>1, <1>2, <1>3, <1>4, <1>5, <1>6, <1>7, <1>8, <1>9, <1>10, <1>11, <1>12, <1>13,
     Two DEF ConnNext, Ends
-----------------------------------------------------------------------------
(* The callers and the table keep their invariant.                         *)

\* They keep the types.
LEMMA CallerTypesKept ==
  ASSUME CallerTypes, CallerStep
  PROVE  CallerTypes'
<1> USE ConnectionAssumption DEF CallerTypes, Results
<1>1. ASSUME NEW r \in Requests, WaitsForPermit(r) \/ Advance(r) PROVE CallerTypes'
  BY <1>1 DEF WaitsForPermit, Advance, table
<1>2. ASSUME NEW r \in Requests, Begin(r) PROVE CallerTypes'
  <2>1. Origin[r] \in Ends /\ nextId[Origin[r]] \in Ids /\ MaxId \in Nat \ {0}
    OBVIOUS
  <2>2. nextId' \in [Ends -> Ids]
    BY <1>2, <2>1 DEF Begin, Allocate, Ids
  <2>3. id' \in [Requests -> Ids \union {0}] /\ pending' \in [Ends -> [Ids -> Requests \union {NoReq}]]
    BY <1>2, <2>1 DEF Begin, Allocate
  <2> QED
    BY <1>2, <2>2, <2>3 DEF Begin, Begins
<1>3. ASSUME NEW r \in Requests, EndsEarly(r) PROVE CallerTypes'
  <2>1. Origin[r] \in Ends /\ nextId[Origin[r]] \in Ids /\ MaxId \in Nat \ {0}
    OBVIOUS
  <2>2. CASE nextId' = [nextId EXCEPT ![Origin[r]] = IF @ = MaxId THEN 1 ELSE @ + 1]
    <3>1. nextId' \in [Ends -> Ids]
      BY <2>1, <2>2 DEF Ids
    <3> QED
      BY <1>3, <3>1 DEF EndsEarly
  <2>3. CASE nextId' = nextId
    BY <1>3, <2>3 DEF EndsEarly
  <2> QED
    BY <1>3, <2>2, <2>3 DEF EndsEarly
<1>4. ASSUME NEW r \in Requests, NEW o \in Results, EndsWith(r, o) PROVE CallerTypes'
  <2>1. Discarded(r) \in [Ends -> [Ids -> Requests \union {NoReq}]]
    BY DEF Discarded
  <2>2. pending' \in [Ends -> [Ids -> Requests \union {NoReq}]]
    BY <1>4, <2>1 DEF EndsWith
  <2> QED
    BY <1>4, <2>2 DEF EndsWith
<1>5. ASSUME NEW e \in Ends, NEW i \in Ids, NEW o \in Results, Settles(e, i, o) PROVE CallerTypes'
  BY <1>5 DEF Settles, Resolve
<1>6. ASSUME NEW e \in Ends, Flushes(e) PROVE CallerTypes'
  BY <1>6 DEF Flushes, NoPending
<1>7. CASE UNCHANGED callerVars
  BY <1>7 DEF callerVars
<1>8. "failed" \in Results /\ \A r \in Requests : r \in Results /\ future[r] \in Results
  OBVIOUS
<1> QED
  BY <1>1, <1>2, <1>3, <1>4, <1>5, <1>6, <1>7, <1>8 DEF CallerStep

\* The requests of one behaviour stay within a mix.
LEMMA MixKept ==
  ASSUME CallerInv, CallerStep
  PROVE  (Active = {} \/ Mixed(Active))'
<1>1. ASSUME NEW r \in Requests, WaitsForPermit(r) \/ Begin(r) \/ EndsEarly(r) PROVE Mixed(Active)'
  <2>1. Active' \subseteq {r} \union Active
    BY <1>1 DEF WaitsForPermit, Begin, EndsEarly, Active, CallerInv, CallerTypes
  <2> QED
    BY <1>1, <2>1 DEF WaitsForPermit, Begin, EndsEarly, Mixed
<1>2. CASE Active' \subseteq Active
  BY <1>2 DEF CallerInv, Mixed
<1>3. ASSUME NEW r \in Requests, NEW o, Advance(r) \/ EndsWith(r, o) PROVE Active' \subseteq Active
  BY <1>3 DEF Advance, EndsWith, Active, CallerInv, CallerTypes
<1>4. ASSUME UNCHANGED stage PROVE Active' \subseteq Active
  BY <1>4 DEF Active
<1> QED
  BY <1>1, <1>2, <1>3, <1>4 DEF CallerStep, callerVars, Settles, Flushes

\* The requests of an end that have begun can be counted.
LEMMA BegunIsFinite ==
  ASSUME NEW e \in Ends
  PROVE  IsFiniteSet(Begun(e)) /\ Cardinality(Begun(e)) \in Nat
<1>1. Begun(e) \subseteq Requests
  BY DEF Begun
<1> QED
  BY <1>1, FS_Subset, FS_CardinalityType, ConnectionAssumption

\* A request that is about to get an id is one of those a mix may still make.
LEMMA IdIsLeft ==
  ASSUME NEW r \in Requests, Mixed({r} \union Active), stage[r] \in {"idle", "permit"}
  PROVE  /\ r \notin Begun(Origin[r])
         /\ Cardinality(Begun(Origin[r]) \union {r}) = Cardinality(Begun(Origin[r])) + 1
         /\ Cardinality(Begun(Origin[r])) < MaxId
<1> DEFINE e == Origin[r]
<1>1. PICK mix \in Mixes : {r} \union Active \subseteq mix
  BY DEF Mixed
<1>2. e \in Ends
  BY ConnectionAssumption
<1> DEFINE M == {q \in mix : Origin[q] = e}
<1>3. Begun(e) \union {r} \subseteq M
  BY <1>1 DEF Begun, Active
<1>4. M \subseteq Requests
  BY IdsSuffice
<1>5. IsFiniteSet(M) /\ Cardinality(M) <= MaxId
  BY <1>2, <1>4, FS_Subset, ConnectionAssumption, IdsSuffice
<1>6. r \notin Begun(e)
  BY DEF Begun
<1>7. Cardinality(Begun(e) \union {r}) = Cardinality(Begun(e)) + 1
  BY <1>2, <1>6, BegunIsFinite, FS_AddElement
<1>8. Cardinality(Begun(e) \union {r}) <= Cardinality(M)
  BY <1>3, <1>5, FS_Subset
<1>9. Cardinality(M) \in Nat /\ MaxId \in Nat /\ Cardinality(Begun(e)) \in Nat
  BY <1>2, <1>5, BegunIsFinite, FS_CardinalityType, ConnectionAssumption
<1>10. Cardinality(Begun(e)) < MaxId
  BY <1>5, <1>7, <1>8, <1>9
<1> QED
  BY <1>6, <1>7, <1>10

\* How far the counter of an end is behind the requests that were begun.
LEMMA CountedKept ==
  ASSUME CallerInv, CallerStep, NEW e \in Ends
  PROVE  Counted(e)'
<1> USE DEF CallerInv, CallerTypes
<1>0. Cardinality(Begun(e)) \in Nat /\ MaxId \in Nat /\ nextId[e] \in Nat
  BY BegunIsFinite, ConnectionAssumption DEF Ids
<1>1. ASSUME Begun(e)' = Begun(e), UNCHANGED <<nextId, id>> PROVE Counted(e)'
  BY <1>1 DEF Counted
<1>2. ASSUME NEW r \in Requests, Begun(e)' = Begun(e) \union {r}, Origin[r] = e,
             Cardinality(Begun(e) \union {r}) = Cardinality(Begun(e)) + 1,
             nextId' = [nextId EXCEPT ![e] = IF @ = MaxId THEN 1 ELSE @ + 1],
             id' \in {id, [id EXCEPT ![r] = nextId[e]]}
      PROVE  Counted(e)'
  <2>1. CASE Cardinality(Begun(e)) >= MaxId \/ nextId[e] = MaxId
    BY <1>0, <1>2, <2>1 DEF Counted
  <2>2. CASE Cardinality(Begun(e)) < MaxId /\ nextId[e] # MaxId
    <3>1. nextId[e] <= Cardinality(Begun(e)) + 1 /\ \A q \in Requests : Origin[q] = e => id[q] < nextId[e]
      BY <1>0, <2>2 DEF Counted
    <3>2. nextId'[e] = nextId[e] + 1
      BY <1>2, <2>2
    <3>3. ASSUME NEW q \in Requests, Origin[q] = e PROVE id'[q] < nextId'[e]
      <4>1. id[q] < nextId[e] /\ id[q] \in Nat
        BY <3>1, <3>3, ConnectionAssumption DEF Ids
      <4>2. id'[q] = id[q] \/ id'[q] = nextId[e]
        BY <1>2
      <4> QED
        BY <1>0, <3>2, <4>1, <4>2
    <3> QED
      BY <1>0, <1>2, <3>1, <3>2, <3>3 DEF Counted
  <2> QED
    BY <1>0, <2>1, <2>2
<1>3. ASSUME NEW r \in Requests, Begun(e)' = Begun(e) \union {r}, UNCHANGED <<nextId, id>>
      PROVE  Counted(e)'
  <2>1. IsFiniteSet(Begun(e))
    BY BegunIsFinite
  <2>2. Cardinality(Begun(e) \union {r}) =
          IF r \in Begun(e) THEN Cardinality(Begun(e)) ELSE Cardinality(Begun(e)) + 1
    BY <2>1, FS_AddElement
  <2>3. Cardinality(Begun(e)') >= Cardinality(Begun(e)) /\ Cardinality(Begun(e)') \in Nat
    BY <1>0, <1>3, <2>2
  <2> QED
    BY <1>0, <1>3, <2>3 DEF Counted
<1>4. ASSUME NEW r \in Requests, Begin(r) PROVE Counted(e)'
  <2>1. CASE Origin[r] = e
    <3>1. Begun(e)' = Begun(e) \union {r}
      BY <1>4, <2>1 DEF Begin, Begins, Begun
    <3> QED
      BY <1>2, <1>4, <2>1, <3>1, IdIsLeft DEF Begin, Allocate
  <2>2. CASE Origin[r] # e
    <3>1. Begun(e)' = Begun(e) /\ nextId'[e] = nextId[e]
      BY <1>4, <2>2, ConnectionAssumption DEF Begin, Allocate, Begun
    <3>2. \A q \in Requests : Origin[q] = e => id'[q] = id[q]
      BY <1>4, <2>2 DEF Begin, Allocate
    <3> QED
      BY <3>1, <3>2 DEF Counted
  <2> QED
    BY <2>1, <2>2
<1>5. ASSUME NEW r \in Requests, EndsEarly(r) PROVE Counted(e)'
  <2>1. CASE Origin[r] = e
    <3>1. Begun(e)' = Begun(e) \union {r}
      BY <1>5, <2>1 DEF EndsEarly, Begun
    <3> QED
      BY <1>2, <1>3, <1>5, <2>1, <3>1, IdIsLeft DEF EndsEarly
  <2>2. CASE Origin[r] # e
    <3>1. Begun(e)' = Begun(e) /\ nextId'[e] = nextId[e] /\ id' = id
      BY <1>5, <2>2, ConnectionAssumption DEF EndsEarly, Begun
    <3> QED
      BY <3>1 DEF Counted
  <2> QED
    BY <2>1, <2>2
<1>6. ASSUME NEW r \in Requests, NEW o, EndsWith(r, o) PROVE Counted(e)'
  <2>1. Begun(e)' \in {Begun(e), Begun(e) \union {r}} /\ UNCHANGED <<nextId, id>>
    BY <1>6 DEF EndsWith, Begun
  <2> QED
    BY <1>1, <1>3, <2>1
<1>7. ASSUME NEW r \in Requests, WaitsForPermit(r) \/ Advance(r) PROVE Counted(e)'
  <2>1. Begun(e)' = Begun(e) /\ UNCHANGED <<nextId, id>>
    BY <1>7 DEF WaitsForPermit, Advance, Begun, table
  <2> QED
    BY <1>1, <2>1
<1>8. ASSUME UNCHANGED <<stage, nextId, id>> PROVE Counted(e)'
  BY <1>1, <1>8 DEF Begun
<1> QED
  BY <1>4, <1>5, <1>6, <1>7, <1>8 DEF CallerStep, callerVars, Settles, Resolve, Flushes

\* The id that a request gets was never given to another one of its end.
LEMMA IdIsFresh ==
  ASSUME CallerInv, NEW r \in Requests, Begin(r)
  PROVE  LET e == Origin[r] IN
         /\ nextId[e] \in Ids /\ nextId[e] # 0
         /\ id[r] = 0
         /\ \A q \in Requests : Origin[q] = e => id[q] # nextId[e]
         /\ pending[e][nextId[e]] = NoReq
<1> DEFINE e == Origin[r]
           n == nextId[e]
<1>1. e \in Ends /\ n \in Ids /\ n # 0 /\ n \in Nat /\ MaxId \in Nat
  BY ConnectionAssumption DEF CallerInv, CallerTypes, Ids
<1>2. id[r] = 0
  BY DEF Begin, CallerInv, IdsAreOwned
<1>3. Cardinality(Begun(e)) < MaxId /\ Cardinality(Begun(e)) \in Nat
  BY <1>1, IdIsLeft, BegunIsFinite DEF Begin
<1>4. \A q \in Requests : Origin[q] = e => id[q] < n
  BY <1>1, <1>3 DEF CallerInv, Counted
<1>5. ASSUME NEW q \in Requests, Origin[q] = e PROVE id[q] # n
  BY <1>1, <1>4, <1>5 DEF CallerInv, CallerTypes, Ids
<1>6. pending[e][n] = NoReq
  <2>1. pending[e][n] \in Requests \union {NoReq}
    BY <1>1 DEF CallerInv, CallerTypes
  <2>2. pending[e][n] # NoReq => Origin[pending[e][n]] = e /\ id[pending[e][n]] = n
    BY <1>1 DEF CallerInv, IdsAreOwned
  <2> QED
    BY <1>5, <2>1, <2>2
<1> HIDE DEF e, n
<1> QED
  BY <1>1, <1>2, <1>5, <1>6 DEF e, n

\* What a request leaves behind in the table when it ends.
LEMMA DiscardedIs ==
  ASSUME CallerInv, NEW r \in Requests
  PROVE  \A e \in Ends, i \in Ids :
           /\ Discarded(r)[e][i] \in {pending[e][i], NoReq}
           /\ \A q \in Requests \ {r} : pending[e][i] = q => Discarded(r)[e][i] = q
<1> SUFFICES ASSUME NEW e \in Ends, NEW i \in Ids
             PROVE  /\ Discarded(r)[e][i] \in {pending[e][i], NoReq}
                    /\ \A q \in Requests \ {r} : pending[e][i] = q => Discarded(r)[e][i] = q
  OBVIOUS
<1>1. CASE e = Origin[r] /\ i = id[r]
  <2>1. pending[e][i] # NoReq => pending[e][i] = r
    <3> SUFFICES ASSUME pending[e][i] # NoReq PROVE pending[e][i] = r
      OBVIOUS
    <3>1. pending[e][i] \in Requests /\ Origin[pending[e][i]] = e /\ id[pending[e][i]] = i
      BY DEF CallerInv, CallerTypes, IdsAreOwned
    <3>2. i # 0
      BY ConnectionAssumption DEF Ids
    <3> QED
      BY <1>1, <3>1, <3>2 DEF CallerInv, IdsAreOwned
  <2>2. Discarded(r)[e][i] \in {pending[e][i], NoReq}
    BY <1>1 DEF Discarded, CallerInv, CallerTypes
  <2> QED
    BY <2>1, <2>2, ConnectionAssumption
<1>2. CASE e # Origin[r] \/ i # id[r]
  BY <1>2 DEF Discarded, CallerInv, CallerTypes
<1> QED
  BY <1>1, <1>2

\* A step that gives nobody an id.
KeepsIds ==
  /\ \A q \in Requests : \/ stage'[q] \in {stage[q], "ended"}
                         \/ {stage[q], stage'[q]} \subseteq Begins
                         \/ stage[q] = "idle" /\ stage'[q] = "permit"
  /\ \A e \in Ends, i \in Ids : pending'[e][i] \in {pending[e][i], NoReq}

\* An id is one request's, for good.
LEMMA IdsKept ==
  ASSUME CallerInv, CallerStep
  PROVE  IdsAreOwned'
<1> USE DEF CallerInv, CallerTypes
<1>1. ASSUME NEW r \in Requests, Begin(r) PROVE IdsAreOwned'
  <2> DEFINE e == Origin[r]
             n == nextId[e]
  <2>1. e \in Ends /\ n \in Ids /\ n # 0
    BY <1>1, IdIsFresh, ConnectionAssumption
  <2>2. \A q \in Requests : Origin[q] = e => id[q] # n
    BY <1>1, IdIsFresh
  <2>3. id' = [id EXCEPT ![r] = n] /\ pending' = [pending EXCEPT ![e][n] = r]
    BY <1>1 DEF Begin, Allocate
  <2>4. id[r] = 0 /\ id'[r] = n /\ \A q \in Requests \ {r} : id'[q] = id[q]
    BY <1>1, <2>3, IdIsFresh
  <2>5. stage'[r] \in Begins /\ \A q \in Requests \ {r} : stage'[q] = stage[q]
    BY <1>1 DEF Begin
  <2> HIDE DEF n, e
  <2>6. ASSUME NEW p \in Requests, NEW q \in Requests, Origin[p] = Origin[q],
               id'[p] = id'[q], id'[p] # 0
        PROVE  p = q
    BY <2>2, <2>4, <2>6 DEF IdsAreOwned, e
  <2>7. ASSUME NEW q \in Requests
        PROVE  /\ stage'[q] \in {"idle", "permit"} => id'[q] = 0
               /\ stage'[q] \in Begins => id'[q] # 0
    BY <2>1, <2>4, <2>5 DEF IdsAreOwned, Begins
  <2>8. ASSUME NEW d \in Ends, NEW i \in Ids, pending'[d][i] # NoReq
        PROVE  Origin[pending'[d][i]] = d /\ id'[pending'[d][i]] = i
    <3>1. CASE d = e /\ i = n
      BY <2>1, <2>3, <2>4, <3>1 DEF e
    <3>2. CASE d # e \/ i # n
      <4>1. pending'[d][i] = pending[d][i] /\ pending[d][i] \in Requests
        BY <2>3, <2>8, <3>2
      <4>2. Origin[pending[d][i]] = d /\ id[pending[d][i]] = i /\ i # 0
        BY <2>8, <4>1, ConnectionAssumption DEF IdsAreOwned, Ids
      <4> QED
        BY <2>4, <4>1, <4>2
    <3> QED
      BY <3>1, <3>2
  <2> QED
    BY <2>6, <2>7, <2>8 DEF IdsAreOwned
<1>2. ASSUME UNCHANGED id, KeepsIds PROVE IdsAreOwned'
  BY <1>2 DEF KeepsIds, IdsAreOwned, Begins
<1>3. ASSUME NEW r \in Requests, WaitsForPermit(r) \/ Advance(r) \/ EndsEarly(r) PROVE IdsAreOwned'
  <2>1. KeepsIds /\ UNCHANGED id
    BY <1>3 DEF KeepsIds, WaitsForPermit, Advance, EndsEarly, Begins, table
  <2> QED
    BY <1>2, <2>1
<1>4. ASSUME NEW r \in Requests, NEW o, EndsWith(r, o) PROVE IdsAreOwned'
  <2>1. \A q \in Requests : stage'[q] \in {stage[q], "ended"}
    BY <1>4 DEF EndsWith
  <2>2. \A d \in Ends, i \in Ids : pending'[d][i] \in {pending[d][i], NoReq}
    BY <1>4, DiscardedIs DEF EndsWith
  <2>3. KeepsIds /\ UNCHANGED id
    BY <1>4, <2>1, <2>2 DEF KeepsIds, EndsWith
  <2> QED
    BY <1>2, <2>3
<1>5. ASSUME NEW e \in Ends, NEW i \in Ids, NEW o, Settles(e, i, o) PROVE IdsAreOwned'
  <2>1. KeepsIds /\ UNCHANGED id
    BY <1>5 DEF KeepsIds, Settles, Resolve
  <2> QED
    BY <1>2, <2>1
<1>6. ASSUME NEW e \in Ends, Flushes(e) PROVE IdsAreOwned'
  <2>1. KeepsIds /\ UNCHANGED id
    BY <1>6 DEF KeepsIds, Flushes, NoPending
  <2> QED
    BY <1>2, <2>1
<1>7. CASE UNCHANGED callerVars
  BY <1>7 DEF callerVars, IdsAreOwned
<1> QED
  BY <1>1, <1>3, <1>4, <1>5, <1>6, <1>7 DEF CallerStep

\* A request stays in the table for as long as its future is open.
LEMMA WaitersKept ==
  ASSUME CallerInv, CallerStep
  PROVE  WaitersArePending'
<1> USE DEF CallerInv, CallerTypes
<1> SUFFICES ASSUME NEW q \in Requests, stage'[q] \in Begins, future'[q] = "none"
             PROVE  pending'[Origin[q]][id'[q]] = q
  BY DEF WaitersArePending, Begins
<1> DEFINE d == Origin[q]
<1>0. d \in Ends
  BY ConnectionAssumption
<1>1. ASSUME stage[q] \in Begins, future[q] = "none"
      PROVE  pending[d][id[q]] = q /\ id[q] \in Ids /\ q # NoReq
  BY <1>1, ConnectionAssumption DEF WaitersArePending, IdsAreOwned, Begins
<1>2. ASSUME NEW r \in Requests, Begin(r) PROVE pending'[d][id'[q]] = q
  <2> DEFINE e == Origin[r]
             n == nextId[e]
  <2>1. e \in Ends /\ n \in Ids
    BY <1>2, IdIsFresh, ConnectionAssumption
  <2>2. \A p \in Requests : Origin[p] = e => id[p] # n
    BY <1>2, IdIsFresh
  <2>3. id' = [id EXCEPT ![r] = n] /\ pending' = [pending EXCEPT ![e][n] = r]
    BY <1>2 DEF Begin, Allocate
  <2>4. CASE q = r
    BY <2>1, <2>3, <2>4
  <2>5. CASE q # r
    <3>1. stage[q] \in Begins /\ future[q] = "none"
      BY <1>2, <2>5 DEF Begin
    <3> QED
      BY <1>0, <1>1, <2>1, <2>2, <2>3, <2>5, <3>1
  <2> QED
    BY <2>4, <2>5
<1>3. ASSUME NEW r \in Requests, Advance(r) PROVE pending'[d][id'[q]] = q
  <2>1. stage[q] \in Begins /\ future[q] = "none"
    BY <1>3 DEF Advance, Begins, table
  <2> QED
    BY <1>1, <1>3, <2>1 DEF Advance, table
<1>4. ASSUME NEW r \in Requests, WaitsForPermit(r) \/ EndsEarly(r) PROVE pending'[d][id'[q]] = q
  <2>1. q # r /\ stage[q] \in Begins /\ future[q] = "none"
    BY <1>4 DEF WaitsForPermit, EndsEarly, Begins, table
  <2> QED
    BY <1>1, <1>4, <2>1 DEF WaitsForPermit, EndsEarly, table
<1>5. ASSUME NEW r \in Requests, NEW o, EndsWith(r, o) PROVE pending'[d][id'[q]] = q
  <2>1. q # r /\ stage[q] \in Begins /\ future[q] = "none"
    BY <1>5 DEF EndsWith, Begins
  <2>2. pending[d][id[q]] = q /\ id[q] \in Ids
    BY <1>1, <2>1
  <2>3. Discarded(r)[d][id[q]] = q
    <3>1. q \in Requests \ {r}
      BY <2>1
    <3> HIDE DEF d, CallerInv, CallerTypes
    <3>2. \A p \in Requests \ {r} : pending[d][id[q]] = p => Discarded(r)[d][id[q]] = p
      BY <1>0, <2>2, DiscardedIs
    <3> QED
      BY <2>2, <3>1, <3>2
  <2> QED
    BY <1>5, <2>2, <2>3 DEF EndsWith
<1>6. ASSUME NEW e \in Ends, NEW i \in Ids, NEW r \in Requests, NEW o \in {"failed", r},
             pending[e][i] \in {r, NoReq}, Settles(e, i, o)
      PROVE  pending'[d][id'[q]] = q
  <2>1. future[q] = "none"
    BY <1>6, ConnectionAssumption DEF Settles, Resolve
  <2>2. pending[d][id[q]] = q /\ id[q] \in Ids /\ q # NoReq
    BY <1>1, <1>6, <2>1 DEF Settles
  <2>3. pending[e][i] # q
    BY <1>6, <2>1, <2>2, ConnectionAssumption DEF Settles, Resolve
  <2> QED
    BY <1>0, <1>6, <2>2, <2>3 DEF Settles, Resolve
<1>7. ASSUME NEW e \in Ends, Flushes(e) PROVE pending'[d][id'[q]] = q
  <2>1. future[q] = "none" /\ stage[q] \in Begins
    BY <1>7, ConnectionAssumption DEF Flushes
  <2>2. pending[d][id[q]] = q /\ id[q] \in Ids
    BY <1>1, <2>1
  <2>3. d # e
    BY <1>7, <2>1, <2>2, ConnectionAssumption DEF Flushes
  <2> QED
    BY <1>0, <1>7, <2>2, <2>3 DEF Flushes
<1>8. CASE UNCHANGED callerVars
  BY <1>1, <1>8 DEF callerVars
<1> QED
  BY <1>2, <1>3, <1>4, <1>5, <1>6, <1>7, <1>8 DEF CallerStep

\* They keep the invariant of the callers.
LEMMA CallerKept ==
  ASSUME ConnInv, ConnNext
  PROVE  CallerInv'
BY CallerSteps, CallerTypesKept, MixKept, CountedKept, IdsKept, WaitersKept DEF CallerInv, ConnInv
-----------------------------------------------------------------------------
(* What a step may do to the frames under way.                             *)

\* What was written stays so, and an id is not changed.
SentNext(r) == stage'[r] \in {"draining", "waiting", "ended"}
Onward ==
  \A r \in Requests : /\ Sent(r) => SentNext(r)
                      /\ id[r] # 0 => id'[r] = id[r]

\* Every step of the callers goes onward.
LEMMA GoesOnward ==
  ASSUME CallerInv, CallerStep
  PROVE  Onward
<1> USE DEF CallerInv, CallerTypes, Onward, Sent, SentNext
<1>1. ASSUME NEW r \in Requests, WaitsForPermit(r) \/ Advance(r) \/ EndsEarly(r) PROVE Onward
  BY <1>1 DEF WaitsForPermit, Advance, EndsEarly, table
<1>2. ASSUME NEW r \in Requests, Begin(r) PROVE Onward
  BY <1>2 DEF Begin, Allocate, IdsAreOwned
<1>3. ASSUME NEW r \in Requests, NEW o, EndsWith(r, o) PROVE Onward
  BY <1>3 DEF EndsWith
<1>4. ASSUME UNCHANGED <<stage, id>> PROVE Onward
  BY <1>4
<1> QED
  BY <1>1, <1>2, <1>3, <1>4 DEF CallerStep, callerVars, Settles, Resolve, Flushes

Stays ==
  /\ wire' \in [Ends -> Seq(Frames)]
  /\ \A e \in Ends : wire'[e] \in {wire[e], <<>>}
  /\ served' = served

\* A frame that may be written: an answer to what was taken, or a request's only frame.
Writable(e, f) ==
  /\ f \in Frames
  /\ IsAnswer(f) => Origin[f.req] = Other(e) /\ served[f.req] = 1 /\ f.id = id[f.req]
  /\ ~IsAnswer(f) => /\ Origin[f.req] = e /\ f.id = id'[f.req]
                     /\ ~Sent(f.req) /\ SentNext(f.req)

Puts(e, f) ==
  /\ Writable(e, f)
  /\ wire' = [wire EXCEPT ![Other(e)] = Append(@, f)]
  /\ served' = served

TakesAnswer(e) ==
  /\ wire[e] # <<>>
  /\ IsAnswer(Head(wire[e]))
  /\ wire' = Tail1(e)
  /\ served' = served

TakesRequest(e) ==
  /\ wire[e] # <<>>
  /\ ~IsAnswer(Head(wire[e]))
  /\ served' = [served EXCEPT ![Head(wire[e]).req] = @ + 1]
  /\ wire' = Tail1(e)

\* A PING, and its PONG is written at once.
Pongs(e) ==
  /\ wire[e] # <<>>
  /\ ~IsAnswer(Head(wire[e]))
  /\ served' = [served EXCEPT ![Head(wire[e]).req] = @ + 1]
  /\ wire' = [Tail1(e) EXCEPT ![Other(e)] =
                Append(@, Frame("response", Head(wire[e]).id, Head(wire[e]).req))]

WireStep ==
  \/ Stays
  \/ \E e \in Ends : \/ \E f \in Frames : Puts(e, f)
                     \/ TakesAnswer(e) \/ TakesRequest(e) \/ Pongs(e)

\* A request writes its frame.
LEMMA AsksIs ==
  ASSUME ConnInv, NEW r \in Requests, NEW kind \in {"ping", "request"}, NEW i \in Ids,
         stage[r] \in {"idle", "permit", "queued"}, Written(Origin[r], Frame(kind, i, r)),
         i = id'[r], stage' = [stage EXCEPT ![r] =
                         IF lock'[Origin[r]] = Frame(kind, i, r) THEN "draining" ELSE "waiting"],
         served' = served
  PROVE  Frame(kind, i, r) \in Frames /\ Puts(Origin[r], Frame(kind, i, r))
<1>1. Frame(kind, i, r) \in Frames /\ ~IsAnswer(Frame(kind, i, r))
  BY DEF Frame, Frames, IsAnswer
<1>2. stage'[r] \in {"draining", "waiting"}
  BY DEF ConnInv, CallerInv, CallerTypes
<1>3. Writable(Origin[r], Frame(kind, i, r))
  BY <1>1, <1>2 DEF Writable, Frame, Sent, SentNext
<1> QED
  BY <1>1, <1>3 DEF Puts, Written

\* A request that goes on writes one frame at most.
LEMMA ProceedWrites ==
  ASSUME ConnInv, NEW r \in Requests, stage[r] \in {"idle", "permit"}, Proceed(r), served' = served
  PROVE  wire' = wire \/ \E f \in Frames : Puts(Origin[r], f)
<1> DEFINE kind == IF r \in Pings THEN "ping" ELSE "request"
           e == Origin[r]
<1>1. CASE wire' = wire
  BY <1>1
<1>2. CASE /\ Written(e, Frame(kind, nextId[e], r))
           /\ Allocate(r)
           /\ stage' = [stage EXCEPT ![r] =
                          IF lock'[e] = Frame(kind, nextId[e], r) THEN "draining" ELSE "waiting"]
  <2>1. kind \in {"ping", "request"}
    OBVIOUS
  <2>2. nextId[e] \in Ids /\ id'[r] = nextId[e]
    BY <1>2, ConnectionAssumption DEF Allocate, ConnInv, CallerInv, CallerTypes
  <2> HIDE DEF kind
  <2>3. Puts(e, Frame(kind, nextId[e], r)) /\ Frame(kind, nextId[e], r) \in Frames
    BY <1>2, <2>1, <2>2, AsksIs
  <2> QED
    BY <2>3
<1> QED
  BY <1>1, <1>2 DEF Proceed, Refused

\* What is under way, and the frame at its head.
LEMMA HeadIs ==
  ASSUME ConnInv, NEW e \in Ends, wire[e] # <<>>
  PROVE  /\ Head(wire[e]) \in Frames /\ Head(wire[e]) = wire[e][1] /\ 1 \in 1..Len(wire[e])
         /\ Tail(wire[e]) \in Seq(Frames) /\ Len(Tail(wire[e])) = Len(wire[e]) - 1
         /\ \A i \in 1..Len(Tail(wire[e])) :
              i + 1 \in 1..Len(wire[e]) /\ i + 1 # 1 /\ Tail(wire[e])[i] = wire[e][i + 1]
<1>1. wire[e] \in Seq(Frames) /\ Len(wire[e]) \in Nat \ {0}
  BY EmptySeq DEF ConnInv, WireTypes
<1>2. /\ Head(wire[e]) \in Frames /\ Tail(wire[e]) \in Seq(Frames)
      /\ Len(Tail(wire[e])) = Len(wire[e]) - 1
      /\ \A i \in 1..Len(Tail(wire[e])) : Tail(wire[e])[i] = wire[e][i + 1]
  BY <1>1, HeadTailProperties
<1>3. Head(wire[e]) = wire[e][1]
  BY <1>1
<1> QED
  BY <1>1, <1>2, <1>3

\* A handler writes its answer.
LEMMA AnsweredIs ==
  ASSUME ConnInv, NEW e \in Ends, NEW h \in handlers[e], NEW kind \in {"response", "error"},
         Answered(e, h, Frame(kind, h.id, h.req)), served' = served
  PROVE  wire' = wire \/ \E f \in Frames : Puts(e, f)
<1>1. CASE Refused(e)
  BY <1>1 DEF Refused
<1>2. CASE Written(e, Frame(kind, h.id, h.req))
  <2>1. h \in Jobs
    BY DEF ConnInv, WireTypes
  <2>2. Frame(kind, h.id, h.req) \in Frames /\ IsAnswer(Frame(kind, h.id, h.req))
    BY <2>1 DEF Frame, Frames, Jobs, IsAnswer
  <2>3. Writable(e, Frame(kind, h.id, h.req))
    BY <2>2 DEF Writable, Frame, ConnInv, InHandlers
  <2> QED
    BY <1>2, <2>2, <2>3 DEF Puts, Written
<1> QED
  BY <1>1, <1>2 DEF Answered

\* Every step is one of these for the frames.
LEMMA WireSteps ==
  ASSUME ConnInv, ConnNext
  PROVE  WireStep
<1>1. ASSUME UNCHANGED <<wire, served>> PROVE WireStep
  BY <1>1 DEF WireStep, Stays, ConnInv, WireTypes
<1>2. ASSUME NEW r \in Requests, Send(r) PROVE WireStep
  BY <1>1, <1>2, ProceedWrites, MayIs, ConnectionAssumption DEF Send, WireStep
<1>3. ASSUME NEW r \in Requests, Permitted(r) PROVE WireStep
  BY <1>1, <1>3, ProceedWrites, ConnectionAssumption DEF Permitted, WireStep
<1>4. ASSUME NEW r \in Requests, WriteQueued(r) PROVE WireStep
  <2> DEFINE kind == IF r \in Pings THEN "ping" ELSE "request"
             e == Origin[r]
  <2>1. CASE Refused(e)
    BY <1>1, <1>4, <2>1 DEF WriteQueued, Refused
  <2>2. CASE /\ Written(e, Frame(kind, id[r], r))
             /\ stage' = [stage EXCEPT ![r] =
                            IF lock'[e] = Frame(kind, id[r], r) THEN "draining" ELSE "waiting"]
    <3>1. kind \in {"ping", "request"} /\ e \in Ends
      BY ConnectionAssumption
    <3>2. id[r] \in Ids /\ id'[r] = id[r]
      BY <1>4 DEF WriteQueued, ConnInv, CallerInv, CallerTypes, IdsAreOwned, Begins
    <3> HIDE DEF kind
    <3>3. Puts(e, Frame(kind, id[r], r)) /\ Frame(kind, id[r], r) \in Frames
      BY <1>4, <2>2, <3>1, <3>2, AsksIs DEF WriteQueued
    <3> QED
      BY <3>1, <3>3 DEF WireStep
  <2> QED
    BY <1>4, <2>1, <2>2 DEF WriteQueued
<1>5. ASSUME NEW r \in Requests, SendRejected(r) \/ Expire(r) \/ Return(r) \/ CancelRequest(r)
      PROVE  WireStep
  BY <1>1, <1>5 DEF SendRejected, Expire, Return, CancelRequest
<1>6. ASSUME NEW e \in Ends, \/ Drained(e) \/ DrainFails(e) \/ CloseBegin(e) \/ FailAll(e)
                            \/ \E h \in handlers[e] : CancelHandler(e, h)
      PROVE  WireStep
  BY <1>1, <1>6 DEF Drained, DrainFails, CloseBegin, FailAll, CancelHandler
<1>7. ASSUME NEW e \in Ends, ReadAnswer(e) PROVE WireStep
  <2>1. wire[e] # <<>> /\ IsAnswer(Head(wire[e])) /\ wire' = Tail1(e) /\ served' = served
    BY <1>7 DEF ReadAnswer, Reading, IsAnswer
  <2> QED
    BY <2>1 DEF WireStep, TakesAnswer
<1>8. ASSUME NEW e \in Ends, ReadRequest(e) PROVE WireStep
  <2>1. TakesRequest(e)
    BY <1>8 DEF ReadRequest, Reading, TakesRequest, IsAnswer
  <2> QED
    BY <2>1 DEF WireStep
<1>9. ASSUME NEW e \in Ends, ReadPing(e) PROVE WireStep
  <2>1. /\ wire[e] # <<>> /\ ~IsAnswer(Head(wire[e]))
        /\ served' = [served EXCEPT ![Head(wire[e]).req] = @ + 1]
    BY <1>9 DEF ReadPing, Reading, IsAnswer
  <2>2. CASE e \in open
    BY <1>9, <2>1, <2>2 DEF ReadPing, WireStep, Pongs
  <2>3. CASE e \notin open
    BY <1>9, <2>1, <2>3 DEF ReadPing, WireStep, TakesRequest
  <2> QED
    BY <2>2, <2>3
<1>10. ASSUME NEW e \in Ends, NEW h \in handlers[e], Handled(e, h) PROVE WireStep
  BY <1>1, <1>10, AnsweredIs DEF Handled, WireStep
<1>11. ASSUME NEW e \in Ends, NEW h \in handlers[e], Reply(e, h) PROVE WireStep
  BY <1>1, <1>11, AnsweredIs DEF Reply, WireStep
<1>12. ASSUME NEW e \in Ends, CloseEnd(e) PROVE WireStep
  <2>1. wire' \in [Ends -> Seq(Frames)]
    BY <1>12, EmptySeq DEF CloseEnd, ConnInv, WireTypes
  <2> QED
    BY <1>12, <2>1 DEF CloseEnd, WireStep, Stays, ConnInv, WireTypes
<1>13. CASE Cut
  <2>1. wire' \in [Ends -> Seq(Frames)]
    BY <1>13, EmptySeq DEF Cut, ConnInv, WireTypes
  <2> QED
    BY <1>13, <2>1 DEF Cut, WireStep, Stays
<1> QED
  BY <1>2, <1>3, <1>4, <1>5, <1>6, <1>7, <1>8, <1>9, <1>10, <1>11, <1>12, <1>13 DEF ConnNext

\* Fits, of a frame as it is now, in the next state.
FitsNext(e, f) ==
  /\ f.id = id'[f.req]
  /\ IsAnswer(f) => Origin[f.req] = e /\ served'[f.req] = 1
  /\ ~IsAnswer(f) => Origin[f.req] = Other(e) /\ served'[f.req] = 0 /\ SentNext(f.req)

\* A frame under way stays what it was.
LEMMA FrameStays ==
  ASSUME ConnInv, Onward, NEW e \in Ends, NEW f \in Frames, Fits(e, f),
         served'[f.req] = served[f.req] \/ (IsAnswer(f) /\ served'[f.req] = 1)
  PROVE  FitsNext(e, f)
<1>1. f.req \in Requests /\ f.id # 0
  BY ConnectionAssumption DEF Frames, Ids
<1>2. id'[f.req] = f.id /\ (Sent(f.req) => SentNext(f.req))
  BY <1>1 DEF Onward, Fits
<1> QED
  BY <1>2 DEF Fits, FitsNext, IsAnswer

\* What is left after the first frame is read asks nothing twice.
LEMMA OnceTail ==
  ASSUME ConnInv, NEW e \in Ends, wire[e] # <<>>
  PROVE  /\ Once(Tail(wire[e]))
         /\ ~IsAnswer(Head(wire[e])) =>
              \A i \in 1..Len(Tail(wire[e])) :
                ~IsAnswer(Tail(wire[e])[i]) => Tail(wire[e])[i].req # Head(wire[e]).req
<1>1. Once(wire[e])
  BY DEF ConnInv, OnTheWire
<1>2. Len(wire[e]) \in Nat /\ Len(Tail(wire[e])) \in Nat
  BY HeadIs DEF ConnInv, WireTypes
<1>3. ASSUME NEW i \in 1..Len(Tail(wire[e])), NEW j \in 1..Len(Tail(wire[e])),
             ~IsAnswer(Tail(wire[e])[i]), ~IsAnswer(Tail(wire[e])[j]),
             Tail(wire[e])[i].req = Tail(wire[e])[j].req
      PROVE  i = j
  <2>1. i + 1 = j + 1
    BY <1>1, <1>3, HeadIs DEF Once
  <2> QED
    BY <1>2, <2>1
<1>4. ASSUME NEW i \in 1..Len(Tail(wire[e])),
             ~IsAnswer(Tail(wire[e])[i]), ~IsAnswer(Head(wire[e]))
      PROVE  Tail(wire[e])[i].req # Head(wire[e]).req
  BY <1>1, <1>4, HeadIs DEF Once
<1> QED
  BY <1>3, <1>4 DEF Once

\* A frame that asks nothing asked before may be added.
LEMMA OnceAppend ==
  ASSUME NEW s \in Seq(Frames), NEW f \in Frames, Once(s),
         IsAnswer(f) \/ \A i \in 1..Len(s) : ~IsAnswer(s[i]) => s[i].req # f.req
  PROVE  Once(Append(s, f))
<1>1. /\ Len(Append(s, f)) = Len(s) + 1 /\ Len(s) \in Nat
      /\ \A i \in 1..Len(s) : Append(s, f)[i] = s[i]
      /\ Append(s, f)[Len(s) + 1] = f
  BY AppendProperties
<1> SUFFICES ASSUME NEW i \in 1..Len(s) + 1, NEW j \in 1..Len(s) + 1,
                    ~IsAnswer(Append(s, f)[i]), ~IsAnswer(Append(s, f)[j]),
                    Append(s, f)[i].req = Append(s, f)[j].req
             PROVE  i = j
  BY <1>1 DEF Once
<1>2. CASE i \in 1..Len(s) /\ j \in 1..Len(s)
  BY <1>1, <1>2 DEF Once
<1>3. CASE i = Len(s) + 1 /\ j \in 1..Len(s)
  BY <1>1, <1>3
<1>4. CASE i \in 1..Len(s) /\ j = Len(s) + 1
  BY <1>1, <1>4
<1> QED
  BY <1>1, <1>2, <1>3, <1>4

\* The frames an end has not read yet, when one more is written to it.
LEMMA OnWireAppend ==
  ASSUME NEW e, NEW s \in Seq(Frames), NEW f \in Frames, Once(s), FitsNext(e, f),
         \A i \in 1..Len(s) : FitsNext(e, s[i]),
         IsAnswer(f) \/ \A i \in 1..Len(s) : ~IsAnswer(s[i]) => s[i].req # f.req,
         wire'[e] = Append(s, f)
  PROVE  Once(wire'[e]) /\ \A i \in 1..Len(wire'[e]) : FitsNext(e, wire'[e][i])
<1>1. /\ Len(Append(s, f)) = Len(s) + 1 /\ Len(s) \in Nat
      /\ \A i \in 1..Len(s) : Append(s, f)[i] = s[i]
      /\ Append(s, f)[Len(s) + 1] = f
  BY AppendProperties
<1>2. ASSUME NEW i \in 1..Len(wire'[e]) PROVE FitsNext(e, wire'[e][i])
  <2>1. i \in 1..Len(s) \/ i = Len(s) + 1
    BY <1>1
  <2>2. CASE i \in 1..Len(s)
    <3>1. wire'[e][i] = s[i]
      BY <1>1, <2>2
    <3> QED
      BY <2>2, <3>1
  <2>3. CASE i = Len(s) + 1
    <3>1. wire'[e][i] = f
      BY <1>1, <2>3
    <3> QED
      BY <3>1
  <2> QED
    BY <2>1, <2>2, <2>3
<1> QED
  BY <1>2, OnceAppend

\* A request that is taken is under way nowhere else.
LEMMA OthersFit ==
  ASSUME ConnInv, Onward, NEW e \in Ends, wire[e] # <<>>, ~IsAnswer(Head(wire[e])),
         served' = [served EXCEPT ![Head(wire[e]).req] = @ + 1]
  PROVE  /\ served' \in [Requests -> {0, 1}] /\ served'[Head(wire[e]).req] = 1
         /\ \A i \in 1..Len(Tail(wire[e])) : FitsNext(e, Tail(wire[e])[i])
         /\ \A i \in 1..Len(wire[Other(e)]) : FitsNext(Other(e), wire[Other(e)][i])
<1> DEFINE q == Head(wire[e]).req
<1>0. Head(wire[e]) \in Frames /\ Fits(e, Head(wire[e])) /\ served \in [Requests -> {0, 1}]
  BY HeadIs DEF ConnInv, WireTypes, OnTheWire
<1>1. q \in Requests /\ served[q] = 0 /\ Origin[q] = Other(e)
  BY <1>0 DEF Fits, Frames
<1>2. served'[q] = 1 /\ \A r \in Requests : r # q => served'[r] = served[r]
  BY <1>0, <1>1
<1>3. ASSUME NEW i \in 1..Len(Tail(wire[e])) PROVE FitsNext(e, Tail(wire[e])[i])
  <2> DEFINE f == Tail(wire[e])[i]
  <2>1. f \in Frames
    BY HeadIs, ElementOfSeq
  <2>2. Fits(e, f)
    BY HeadIs DEF ConnInv, OnTheWire
  <2>3. IsAnswer(f) \/ f.req # q
    BY OnceTail
  <2>4. f.req \in Requests
    BY <2>1 DEF Frames
  <2> HIDE DEF f, q
  <2>5. FitsNext(e, f)
    BY <1>2, <2>1, <2>2, <2>3, <2>4, FrameStays
  <2> QED
    BY <2>5 DEF f
<1>4. ASSUME NEW i \in 1..Len(wire[Other(e)]) PROVE FitsNext(Other(e), wire[Other(e)][i])
  <2> DEFINE f == wire[Other(e)][i]
  <2>1. f \in Frames /\ Other(e) \in Ends /\ Other(e) # e /\ Other(Other(e)) = e
    BY Two, ElementOfSeq DEF ConnInv, WireTypes
  <2>2. Fits(Other(e), f)
    BY <2>1 DEF ConnInv, OnTheWire
  <2>3. IsAnswer(f) \/ f.req # q
    BY <1>1, <2>1, <2>2 DEF Fits
  <2>4. f.req \in Requests
    BY <2>1 DEF Frames
  <2> HIDE DEF f, q
  <2>5. FitsNext(Other(e), f)
    BY <1>2, <2>1, <2>2, <2>3, <2>4, FrameStays
  <2> QED
    BY <2>5 DEF f
<1> HIDE DEF q
<1>5. served' \in [Requests -> {0, 1}]
  BY <1>0, <1>1, <1>2 DEF q
<1> QED
  BY <1>2, <1>3, <1>4, <1>5 DEF q

\* The frames under way after a step that is this one.
WireIsKept ==
  /\ wire' \in [Ends -> Seq(Frames)] /\ served' \in [Requests -> {0, 1}]
  /\ \A r \in Requests : served[r] = 1 => served'[r] = 1
  /\ \A e \in Ends : Once(wire'[e]) /\ \A i \in 1..Len(wire'[e]) : FitsNext(e, wire'[e][i])

\* Without a request taken, what is under way stays as it was.
LEMMA UnservedFit ==
  ASSUME ConnInv, Onward, served' = served
  PROVE  /\ wire \in [Ends -> Seq(Frames)] /\ served \in [Requests -> {0, 1}]
         /\ \A e \in Ends : /\ Once(wire[e])
                            /\ \A i \in 1..Len(wire[e]) : /\ wire[e][i] \in Frames
                                                          /\ Fits(e, wire[e][i])
                                                          /\ FitsNext(e, wire[e][i])
<1>1. /\ wire \in [Ends -> Seq(Frames)] /\ served \in [Requests -> {0, 1}]
      /\ \A e \in Ends : Once(wire[e]) /\ \A i \in 1..Len(wire[e]) : Fits(e, wire[e][i])
  BY DEF ConnInv, WireTypes, OnTheWire
<1>2. ASSUME NEW e \in Ends, NEW i \in 1..Len(wire[e])
      PROVE  wire[e][i] \in Frames /\ FitsNext(e, wire[e][i])
  <2>1. wire[e][i] \in Frames
    BY <1>1, ElementOfSeq
  <2> QED
    BY <1>1, <2>1, FrameStays
<1> QED
  BY <1>1, <1>2

\* Frames that stay fit callers that go onward.
LEMMA StaysKeeps ==
  ASSUME ConnInv, Onward, Stays
  PROVE  WireIsKept
<1>1. served' = served
  BY DEF Stays
<1>2. ASSUME NEW e \in Ends
      PROVE  Once(wire'[e]) /\ \A i \in 1..Len(wire'[e]) : FitsNext(e, wire'[e][i])
  <2>1. CASE wire'[e] = wire[e]
    BY <1>1, <2>1, UnservedFit
  <2>2. CASE wire'[e] = <<>>
    <3>1. Len(wire'[e]) = 0
      BY <2>2
    <3> QED
      BY <3>1 DEF Once
  <2> QED
    BY <2>1, <2>2 DEF Stays
<1> QED
  BY <1>1, <1>2, UnservedFit DEF WireIsKept, Stays

\* A frame that is written fits, and those before it do still.
LEMMA PutsKeeps ==
  ASSUME ConnInv, Onward, NEW d \in Ends, NEW f \in Frames, Puts(d, f)
  PROVE  WireIsKept
<1> DEFINE o == Other(d)
<1>1. /\ served' = served /\ f.req \in Requests /\ f.id # 0
      /\ o \in Ends /\ o # d /\ Other(o) = d /\ \A e \in Ends : e \in {d, o}
  BY Two, ConnectionAssumption DEF Puts, Frames, Ids, Ends
<1>2. wire'[o] = Append(wire[o], f) /\ wire'[d] = wire[d] /\ wire' \in [Ends -> Seq(Frames)]
  BY <1>1, UnservedFit, AppendProperties DEF Puts
<1>3. FitsNext(o, f)
  <2>1. CASE IsAnswer(f)
    BY <1>1, <2>1 DEF Puts, Writable, FitsNext, Onward
  <2>2. CASE ~IsAnswer(f)
    <3>1. served[f.req] # 1
      BY <1>1, <2>2 DEF Puts, Writable, ConnInv, Futures
    <3>2. served'[f.req] = 0
      BY <1>1, <3>1, UnservedFit
    <3> QED
      BY <1>1, <2>2, <3>2 DEF Puts, Writable, FitsNext
  <2> QED
    BY <2>1, <2>2
<1>4. IsAnswer(f) \/ \A i \in 1..Len(wire[o]) : ~IsAnswer(wire[o][i]) => wire[o][i].req # f.req
  BY <1>1, UnservedFit DEF Puts, Writable, Fits
<1> HIDE DEF o
<1>5. Once(wire'[o]) /\ \A i \in 1..Len(wire'[o]) : FitsNext(o, wire'[o][i])
  <2>1. wire[o] \in Seq(Frames) /\ Once(wire[o]) /\ \A i \in 1..Len(wire[o]) : FitsNext(o, wire[o][i])
    BY <1>1, UnservedFit
  <2> QED
    BY <1>2, <1>3, <1>4, <2>1, OnWireAppend
<1>6. Once(wire'[d]) /\ \A i \in 1..Len(wire'[d]) : FitsNext(d, wire'[d][i])
  BY <1>1, <1>2, UnservedFit
<1>7. \A r \in Requests : served[r] = 1 => served'[r] = 1
  BY <1>1
<1> QED
  BY <1>1, <1>2, <1>5, <1>6, <1>7, UnservedFit DEF WireIsKept

\* Those behind an answer that is read do still.
LEMMA TakesAnswerKeeps ==
  ASSUME ConnInv, Onward, NEW d \in Ends, TakesAnswer(d)
  PROVE  WireIsKept
<1>1. served' = served /\ wire[d] # <<>> /\ wire' = [wire EXCEPT ![d] = Tail(@)]
  BY DEF TakesAnswer, Tail1
<1>2. wire' \in [Ends -> Seq(Frames)]
  BY <1>1, UnservedFit, HeadIs
<1>3. ASSUME NEW e \in Ends
      PROVE  Once(wire'[e]) /\ \A i \in 1..Len(wire'[e]) : FitsNext(e, wire'[e][i])
  <2>1. CASE e = d
    <3>1. wire'[e] = Tail(wire[e])
      BY <1>1, <2>1, UnservedFit
    <3>2. ASSUME NEW i \in 1..Len(Tail(wire[e])) PROVE FitsNext(e, Tail(wire[e])[i])
      BY <1>1, <2>1, HeadIs, UnservedFit
    <3> QED
      BY <1>1, <2>1, <3>1, <3>2, OnceTail
  <2>2. CASE e # d
    <3>1. wire'[e] = wire[e]
      BY <1>1, <2>2, UnservedFit
    <3> QED
      BY <1>1, <3>1, UnservedFit
  <2> QED
    BY <2>1, <2>2
<1> QED
  BY <1>1, <1>2, <1>3, UnservedFit DEF WireIsKept

\* The end takes a request, and may answer it at once.
LEMMA TakesRequestKeeps ==
  ASSUME ConnInv, Onward, NEW d \in Ends, TakesRequest(d) \/ Pongs(d)
  PROVE  WireIsKept
<1> DEFINE o == Other(d)
           h == Head(wire[d])
           pong == Frame("response", h.id, h.req)
<1>1. /\ wire[d] # <<>> /\ ~IsAnswer(h)
      /\ served' = [served EXCEPT ![h.req] = @ + 1]
  BY DEF TakesRequest, Pongs
<1>2. o \in Ends /\ o # d /\ \A e \in Ends : e \in {d, o}
  BY Two DEF Ends
<1>3. wire \in [Ends -> Seq(Frames)] /\ h \in Frames /\ Fits(d, h) /\ Tail(wire[d]) \in Seq(Frames)
  BY <1>1, HeadIs DEF ConnInv, WireTypes, OnTheWire
<1>4. wire'[d] = Tail(wire[d]) /\ wire'[o] \in {wire[o], Append(wire[o], pong)}
  BY <1>2, <1>3 DEF TakesRequest, Pongs, Tail1
<1>5. pong \in Frames /\ IsAnswer(pong) /\ pong.req = h.req /\ pong.id = h.id /\ h.req \in Requests
  BY <1>3 DEF Frame, Frames, IsAnswer
<1>6. wire' \in [Ends -> Seq(Frames)]
  <2>1. Append(wire[o], pong) \in Seq(Frames)
    BY <1>2, <1>3, <1>5, AppendProperties
  <2> HIDE DEF pong, h, o
  <2> QED
    BY <1>2, <1>3, <2>1 DEF TakesRequest, Pongs, Tail1, h, o, pong
<1>7. FitsNext(o, pong)
  <2>1. h.id = id[h.req] /\ h.id # 0 /\ Origin[h.req] = o
    BY <1>1, <1>3, ConnectionAssumption DEF Fits, Frames, Ids
  <2>2. id'[h.req] = h.id
    BY <1>5, <2>1 DEF Onward
  <2>3. served'[h.req] = 1
    BY <1>1, OthersFit
  <2> HIDE DEF pong, h, o
  <2> QED
    BY <1>5, <2>1, <2>2, <2>3 DEF FitsNext
<1>8. /\ served' \in [Requests -> {0, 1}]
      /\ \A i \in 1..Len(Tail(wire[d])) : FitsNext(d, Tail(wire[d])[i])
      /\ \A i \in 1..Len(wire[o]) : FitsNext(o, wire[o][i])
  BY <1>1, OthersFit
<1>9. Once(Tail(wire[d])) /\ Once(wire[o])
  BY <1>1, <1>2, OnceTail DEF ConnInv, OnTheWire
<1>10. \A r \in Requests : served[r] = 1 => served'[r] = 1
  <2>1. served \in [Requests -> {0, 1}] /\ served'[h.req] = 1
    BY <1>1, OthersFit DEF ConnInv, WireTypes
  <2> HIDE DEF h
  <2> QED
    BY <1>1, <1>5, <2>1
<1>11. Once(wire'[d]) /\ \A i \in 1..Len(wire'[d]) : FitsNext(d, wire'[d][i])
  BY <1>4, <1>8, <1>9
<1>12. Once(wire'[o]) /\ \A i \in 1..Len(wire'[o]) : FitsNext(o, wire'[o][i])
  <2>1. wire[o] \in Seq(Frames)
    BY <1>2, <1>3
  <2> HIDE DEF pong, h, o
  <2> QED
    BY <1>4, <1>5, <1>7, <1>8, <1>9, <2>1, OnWireAppend
<1> HIDE DEF pong, h, o
<1> QED
  BY <1>2, <1>6, <1>8, <1>10, <1>11, <1>12 DEF WireIsKept

\* So every step keeps what is known of the frames.
LEMMA WireKept ==
  ASSUME ConnInv, Onward, WireStep
  PROVE  WireIsKept /\ OnTheWire'
<1>1. WireIsKept
  BY StaysKeeps, PutsKeeps, TakesAnswerKeeps, TakesRequestKeeps DEF WireStep
<1> QED
  BY <1>1 DEF WireIsKept, OnTheWire, Fits, FitsNext, Sent, SentNext
-----------------------------------------------------------------------------
(* Handlers, futures and locks.                                            *)

SameJob(g, h) == g.req = h.req /\ g.id = h.id
Taken(e) == [req |-> Head(wire[e]).req, id |-> Head(wire[e]).id, stage |-> "running"]
HandlerStep ==
  /\ handlers' \in [Ends -> SUBSET Jobs]
  /\ \A e \in Ends : \A g \in handlers'[e] :
       \/ \E h \in handlers[e] : SameJob(g, h)
       \/ g = Taken(e) /\ TakesRequest(e)

\* What becomes of a handler that has its answer.
Later(h) == {[h EXCEPT !.stage = k] : k \in {"response", "error", "draining"}}

\* Every step is one of these for the handlers.
LEMMA HandlerSteps ==
  ASSUME ConnInv, ConnNext
  PROVE  HandlerStep
<1>1. handlers \in [Ends -> SUBSET Jobs]
  BY DEF ConnInv, WireTypes
<1>2. ASSUME NEW e \in Ends, NEW S \in SUBSET Jobs, handlers' = [handlers EXCEPT ![e] = S],
             \A g \in S : \/ \E h \in handlers[e] : SameJob(g, h)
                          \/ g = Taken(e) /\ TakesRequest(e)
      PROVE  HandlerStep
  <2>1. ASSUME NEW d \in Ends, NEW g \in handlers'[d], d # e PROVE \E h \in handlers[d] : SameJob(g, h)
    <3>1. g \in handlers[d] /\ SameJob(g, g)
      BY <1>1, <1>2, <2>1 DEF SameJob
    <3> QED
      BY <3>1
  <2> QED
    BY <1>1, <1>2, <2>1 DEF HandlerStep
<1>3. ASSUME NEW e \in Ends, NEW S \in SUBSET handlers[e], handlers' = [handlers EXCEPT ![e] = S]
      PROVE  HandlerStep
  <2>1. \A g \in S : g \in handlers[e] /\ SameJob(g, g)
    BY DEF SameJob
  <2>2. S \in SUBSET Jobs
    BY <1>1
  <2> QED
    BY <1>2, <1>3, <2>1, <2>2
<1>4. ASSUME UNCHANGED handlers PROVE HandlerStep
  BY <1>1, <1>4 DEF HandlerStep, SameJob
<1>5. ASSUME NEW e \in Ends, Drained(e) \/ DrainFails(e) PROVE HandlerStep
  <2>1. handlers' = [handlers EXCEPT ![e] = handlers[e] \ Answering(e)]
    BY <1>5 DEF Drained, DrainFails
  <2>2. handlers[e] \ Answering(e) \in SUBSET handlers[e]
    OBVIOUS
  <2> QED
    BY <1>3, <2>1, <2>2
<1>6. ASSUME NEW e \in Ends, ReadRequest(e) PROVE HandlerStep
  <2>1. TakesRequest(e) /\ handlers' = [handlers EXCEPT ![e] = handlers[e] \union {Taken(e)}]
    BY <1>6 DEF ReadRequest, Reading, TakesRequest, IsAnswer, Taken
  <2>2. Taken(e) \in Jobs
    BY <2>1, HeadIs DEF TakesRequest, Taken, Jobs, Frames
  <2>3. handlers[e] \union {Taken(e)} \in SUBSET Jobs
    BY <1>1, <2>2
  <2>4. \A g \in handlers[e] : SameJob(g, g)
    BY DEF SameJob
  <2> QED
    BY <1>2, <2>1, <2>3, <2>4
<1>7. ASSUME NEW e \in Ends, NEW h \in handlers[e],
             NEW T \in SUBSET Later(h),
             handlers' = [handlers EXCEPT ![e] = (handlers[e] \ {h}) \union T]
      PROVE  HandlerStep
  <2>1. h \in Jobs
    BY <1>1
  <2>2. \A g \in T : g \in Jobs /\ SameJob(g, h)
    BY <2>1 DEF Jobs, SameJob, Later
  <2>3. (handlers[e] \ {h}) \union T \in SUBSET Jobs
    BY <1>1, <2>2
  <2>4. \A g \in handlers[e] : SameJob(g, g)
    BY DEF SameJob
  <2> QED
    BY <1>2, <1>7, <2>2, <2>3, <2>4
<1>8. ASSUME NEW e \in Ends, NEW h \in handlers[e], NEW f, Answered(e, h, f) PROVE HandlerStep
  <2>1. CASE Refused(e)
    <3>1. handlers' = [handlers EXCEPT ![e] = handlers[e] \ {h}]
      BY <1>8, <2>1 DEF Answered, Refused, Written
    <3>2. handlers[e] \ {h} \in SUBSET handlers[e]
      OBVIOUS
    <3> QED
      BY <1>3, <3>1, <3>2
  <2>2. CASE Written(e, f)
    <3> DEFINE T == IF lock'[e] = f THEN {[h EXCEPT !.stage = "draining"]} ELSE {}
    <3>1. handlers' = [handlers EXCEPT ![e] = (handlers[e] \ {h}) \union T]
      BY <1>8, <2>2 DEF Answered, Refused, Written
    <3>2. T \in SUBSET Later(h)
      BY DEF Later
    <3> HIDE DEF T
    <3> QED
      BY <1>7, <3>1, <3>2
  <2> QED
    BY <1>8, <2>1, <2>2 DEF Answered
<1>9. ASSUME NEW e \in Ends, NEW h \in handlers[e], Handled(e, h) PROVE HandlerStep
  <2>1. PICK kind \in {"response", "error"} :
          \/ Answered(e, h, Frame(kind, h.id, h.req))
          \/ handlers' = [handlers EXCEPT ![e] = (@ \ {h}) \union {[h EXCEPT !.stage = kind]}]
    BY <1>9 DEF Handled
  <2>2. CASE Answered(e, h, Frame(kind, h.id, h.req))
    BY <1>8, <2>2
  <2>3. CASE handlers' = [handlers EXCEPT ![e] = (handlers[e] \ {h}) \union {[h EXCEPT !.stage = kind]}]
    <3>1. {[h EXCEPT !.stage = kind]} \in SUBSET Later(h)
      BY DEF Later
    <3> QED
      BY <1>7, <2>3, <3>1
  <2> QED
    BY <2>1, <2>2, <2>3
<1>10. ASSUME NEW e \in Ends, NEW h \in handlers[e], Reply(e, h) PROVE HandlerStep
  BY <1>8, <1>10 DEF Reply
<1>11. ASSUME NEW e \in Ends, NEW h \in handlers[e], CancelHandler(e, h) PROVE HandlerStep
  <2>1. handlers' = [handlers EXCEPT ![e] = handlers[e] \ {h}] /\ handlers[e] \ {h} \in SUBSET handlers[e]
    BY <1>11 DEF CancelHandler
  <2> QED
    BY <1>3, <2>1
<1>12. ASSUME NEW r \in Requests,
              \/ Send(r) \/ SendRejected(r) \/ Permitted(r) \/ WriteQueued(r)
              \/ Expire(r) \/ Return(r) \/ CancelRequest(r)
       PROVE  UNCHANGED handlers
  BY <1>12 DEF Send, SendRejected, Permitted, WriteQueued, Expire, Return, CancelRequest
<1>13. ASSUME NEW e \in Ends,
              \/ ReadAnswer(e) \/ ReadPing(e) \/ CloseBegin(e) \/ FailAll(e) \/ CloseEnd(e) \/ Cut
       PROVE  UNCHANGED handlers
  BY <1>13 DEF ReadAnswer, ReadPing, CloseBegin, FailAll, CloseEnd, Cut
<1> QED
  BY <1>4, <1>5, <1>6, <1>9, <1>10, <1>11, <1>12, <1>13, Two DEF ConnNext, Ends

\* They keep what is known of the handlers.
LEMMA HandlersKept ==
  ASSUME ConnInv, Onward, WireStep, HandlerStep
  PROVE  InHandlers'
<1> SUFFICES ASSUME NEW e \in Ends, NEW g \in handlers'[e]
             PROVE  Origin[g.req] = Other(e) /\ g.id = id'[g.req] /\ served'[g.req] = 1
  BY DEF InHandlers
<1>1. g \in Jobs /\ g.req \in Requests /\ g.id # 0
  BY ConnectionAssumption DEF HandlerStep, Jobs, Ids
<1>2. CASE \E h \in handlers[e] : SameJob(g, h)
  <2>1. Origin[g.req] = Other(e) /\ g.id = id[g.req] /\ served[g.req] = 1
    BY <1>2 DEF SameJob, ConnInv, InHandlers
  <2> QED
    BY <1>1, <2>1, WireKept DEF Onward, WireIsKept
<1>3. CASE g = Taken(e) /\ TakesRequest(e)
  <2>1. Fits(e, Head(wire[e])) /\ ~IsAnswer(Head(wire[e]))
    BY <1>3, HeadIs DEF TakesRequest, ConnInv, OnTheWire
  <2>2. g.req = Head(wire[e]).req /\ g.id = Head(wire[e]).id
    BY <1>3 DEF Taken
  <2>3. served'[g.req] = 1
    BY <1>3, <2>1, <2>2, OthersFit DEF TakesRequest
  <2> QED
    BY <1>1, <2>1, <2>2, <2>3 DEF Fits, Onward
<1> QED
  BY <1>2, <1>3 DEF HandlerStep

\* A request that is taken was written.
LEMMA ServedWasSent ==
  ASSUME ConnInv, Onward, WireStep, NEW r \in Requests, served'[r] = 1
  PROVE  SentNext(r)
<1>1. CASE served[r] = 1
  BY <1>1 DEF ConnInv, Futures, Onward
<1>2. ASSUME NEW e \in Ends, TakesRequest(e) \/ Pongs(e), served[r] # 1 PROVE SentNext(r)
  <2>1. /\ wire[e] # <<>> /\ ~IsAnswer(Head(wire[e]))
        /\ served' = [served EXCEPT ![Head(wire[e]).req] = @ + 1]
    BY <1>2 DEF TakesRequest, Pongs
  <2>2. Fits(e, Head(wire[e]))
    BY <2>1, HeadIs DEF ConnInv, OnTheWire
  <2>3. r = Head(wire[e]).req
    BY <1>2, <2>1 DEF ConnInv, WireTypes
  <2> QED
    BY <2>1, <2>2, <2>3 DEF Fits, Onward
<1>3. CASE served' = served
  BY <1>1, <1>3
<1> QED
  BY <1>1, <1>2, <1>3 DEF WireStep, Stays, Puts, TakesAnswer

\* A future that is set has what its request was promised.
LEMMA FuturesKept ==
  ASSUME ConnInv, Onward, WireStep, CallerStep
  PROVE  Futures'
<1> SUFFICES ASSUME NEW q \in Requests
             PROVE  /\ future'[q] \in {"none", "failed", q}
                    /\ future'[q] = q => served'[q] = 1
                    /\ served'[q] = 1 => SentNext(q)
  BY DEF Futures, Sent, SentNext
<1>1. served'[q] = 1 => SentNext(q)
  BY ServedWasSent
<1>2. q \notin {"none", "failed", NoReq} /\ (served[q] = 1 => served'[q] = 1)
  BY ConnectionAssumption, WireKept DEF WireIsKept
<1>3. future[q] \in {"none", "failed", q} /\ (future[q] = q => served[q] = 1)
      /\ future \in [Requests -> Results]
  BY DEF ConnInv, Futures, CallerInv, CallerTypes
<1>4. CASE future'[q] = future[q]
  BY <1>1, <1>2, <1>3, <1>4
<1>5. CASE future'[q] = "failed"
  BY <1>1, <1>2, <1>5
<1>6. ASSUME NEW e \in Ends, NEW i \in Ids, NEW r \in Requests, NEW o \in {"failed", r},
             o = r => served[r] = 1, pending[e][i] \in {r, NoReq}, Settles(e, i, o)
      PROVE  \/ future'[q] \in {future[q], "failed"}
             \/ future'[q] = q /\ served[q] = 1
  <2>1. future' = future \/ (pending[e][i] = r /\ future' = [future EXCEPT ![r] = o])
    BY <1>6 DEF Settles, Resolve
  <2> QED
    BY <1>3, <1>6, <2>1
<1>7. ASSUME NEW e \in Ends, Flushes(e) PROVE future'[q] \in {future[q], "failed"}
  BY <1>7 DEF Flushes
<1>8. CASE UNCHANGED future
  BY <1>4, <1>8
<1> QED
  BY <1>1, <1>2, <1>4, <1>5, <1>6, <1>7, <1>8
     DEF CallerStep, callerVars, table, WaitsForPermit, Begin, Advance, EndsEarly, EndsWith

\* What a step may do to the write locks.
LockStep ==
  /\ lock' \in [Ends -> Frames \union {NoFrame}]
  /\ \A e \in Ends :
       \/ lock'[e] = NoFrame
       \/ Origin[lock'[e].req] # e
       \/ stage'[lock'[e].req] = "draining"

\* A step that leaves the locks alone, or releases them, and ends no request that drains.
LEMMA LocksReleased ==
  ASSUME ConnInv, lock' \in [Ends -> Frames \union {NoFrame}],
         \A e \in Ends :
           \/ lock'[e] = NoFrame
           \/ /\ lock'[e] = lock[e]
              /\ \A r \in Requests : Origin[r] = e /\ stage[r] = "draining" => stage'[r] = "draining"
  PROVE  LockStep
<1> SUFFICES ASSUME NEW e \in Ends, lock'[e] # NoFrame, Origin[lock'[e].req] = e
             PROVE  stage'[lock'[e].req] = "draining"
  BY DEF LockStep
<1>1. lock[e] # NoFrame /\ lock[e] \in Frames /\ lock'[e] = lock[e]
  BY DEF ConnInv, WireTypes
<1>2. stage[lock[e].req] = "draining"
  BY <1>1 DEF ConnInv, LocksAreHeld, Locked, Asking
<1> QED
  BY <1>1, <1>2 DEF Frames

\* A request that is not draining changes its stage, and perhaps takes the lock.
LEMMA LockTaken ==
  ASSUME ConnInv, NEW r \in Requests, NEW s, stage[r] # "draining",
         stage' = [stage EXCEPT ![r] = s],
         \/ lock' = lock
         \/ \E f \in Frames : f.req = r /\ lock' = [lock EXCEPT ![Origin[r]] = f] /\ s = "draining"
  PROVE  LockStep
<1> USE DEF ConnInv, WireTypes
<1>1. CASE lock' = lock
  BY <1>1, LocksReleased DEF CallerInv, CallerTypes
<1>2. ASSUME NEW f \in Frames, f.req = r, lock' = [lock EXCEPT ![Origin[r]] = f], s = "draining"
      PROVE  LockStep
  <2>1. lock' \in [Ends -> Frames \union {NoFrame}] /\ Origin[r] \in Ends
    BY <1>2, ConnectionAssumption
  <2>2. ASSUME NEW e \in Ends, lock'[e] # NoFrame, Origin[lock'[e].req] = e
        PROVE  stage'[lock'[e].req] = "draining"
    <3>1. CASE e = Origin[r]
      BY <1>2, <2>1, <3>1 DEF CallerInv, CallerTypes
    <3>2. CASE e # Origin[r]
      <4>1. lock'[e] = lock[e] /\ lock[e] \in Frames /\ lock[e].req \in Requests
        BY <1>2, <2>2, <3>2 DEF Frames
      <4>2. stage[lock[e].req] = "draining"
        BY <2>2, <4>1 DEF LocksAreHeld, Locked, Asking
      <4> QED
        BY <4>1, <4>2
    <3> QED
      BY <3>1, <3>2
  <2> QED
    BY <2>1, <2>2 DEF LockStep
<1> QED
  BY <1>1, <1>2

\* A request's frame that finds no room holds the lock for that request.
LEMMA WrittenLocks ==
  ASSUME ConnInv, NEW r \in Requests, NEW kind \in {"ping", "request"}, NEW i \in Ids,
         stage[r] # "draining", Written(Origin[r], Frame(kind, i, r)),
         stage' = [stage EXCEPT ![r] =
                    IF lock'[Origin[r]] = Frame(kind, i, r) THEN "draining" ELSE "waiting"]
  PROVE  LockStep
<1> DEFINE f == Frame(kind, i, r)
           e == Origin[r]
<1>1. f \in Frames /\ f.req = r /\ e \in Ends
  BY ConnectionAssumption DEF Frame, Frames
<1>2. lock' = lock \/ lock' = [lock EXCEPT ![e] = f]
  BY DEF Written
<1>3. lock' = [lock EXCEPT ![e] = f] => lock'[e] = f
  BY <1>1 DEF ConnInv, WireTypes
<1> HIDE DEF f, e
<1> QED
  BY <1>1, <1>2, <1>3, LockTaken DEF f, e

\* The same, for a request that goes on.
LEMMA ProceedLocks ==
  ASSUME ConnInv, NEW r \in Requests, stage[r] \in {"idle", "permit"}, Proceed(r)
  PROVE  LockStep
<1> DEFINE kind == IF r \in Pings THEN "ping" ELSE "request"
           e == Origin[r]
<1>1. CASE lock' = lock /\ \E s : stage' = [stage EXCEPT ![r] = s]
  BY <1>1, LockTaken
<1>2. CASE /\ Written(e, Frame(kind, nextId[e], r))
           /\ stage' = [stage EXCEPT ![r] =
                          IF lock'[e] = Frame(kind, nextId[e], r) THEN "draining" ELSE "waiting"]
  <2>1. nextId[e] \in Ids /\ kind \in {"ping", "request"}
    BY ConnectionAssumption DEF ConnInv, CallerInv, CallerTypes
  <2> HIDE DEF kind
  <2> QED
    BY <1>2, <2>1, WrittenLocks
<1> QED
  BY <1>1, <1>2 DEF Proceed, Refused

\* The frame of an answer takes the lock of the end that answers.
LEMMA AnswerLocks ==
  ASSUME ConnInv, NEW e \in Ends, NEW f \in Frames, Origin[f.req] # e, stage' = stage,
         lock' = lock \/ lock' = [lock EXCEPT ![e] = f]
  PROVE  LockStep
<1> USE DEF ConnInv, WireTypes
<1>1. CASE lock' = lock
  BY <1>1, LocksReleased
<1>2. CASE lock' = [lock EXCEPT ![e] = f]
  <2>1. ASSUME NEW d \in Ends, lock'[d] # NoFrame, Origin[lock'[d].req] = d
        PROVE  stage'[lock'[d].req] = "draining"
    <3>1. d # e /\ lock'[d] = lock[d]
      BY <1>2, <2>1
    <3> QED
      BY <2>1, <3>1 DEF LocksAreHeld, Locked, Asking
  <2> QED
    BY <1>2, <2>1 DEF LockStep
<1> QED
  BY <1>1, <1>2

\* The same, for the answer of a handler.
LEMMA AnsweredLocks ==
  ASSUME ConnInv, NEW e \in Ends, NEW h \in handlers[e], NEW kind \in {"response", "error"},
         Answered(e, h, Frame(kind, h.id, h.req)), stage' = stage
  PROVE  LockStep
<1>1. h \in Jobs /\ Origin[h.req] = Other(e) /\ Other(e) # e
  BY Two DEF ConnInv, WireTypes, InHandlers
<1>2. Frame(kind, h.id, h.req) \in Frames /\ Frame(kind, h.id, h.req).req = h.req
  BY <1>1 DEF Frame, Frames, Jobs
<1>3. lock' = lock \/ lock' = [lock EXCEPT ![e] = Frame(kind, h.id, h.req)]
  BY DEF Answered, Written, Refused
<1> QED
  BY <1>1, <1>2, <1>3, AnswerLocks

\* A request that gives up while it drains releases its lock.
LEMMA GivesUpLocks ==
  ASSUME ConnInv, NEW r \in Requests, GivesUp(r)
  PROVE  LockStep
<1> USE DEF ConnInv, WireTypes
<1>1. Origin[r] \in Ends
  BY ConnectionAssumption
<1>2. lock' \in [Ends -> Frames \union {NoFrame}]
  BY DEF GivesUp
<1>3. ASSUME NEW e \in Ends, lock'[e] # NoFrame
      PROVE  /\ lock'[e] = lock[e]
             /\ \A q \in Requests : Origin[q] = e /\ stage[q] = "draining" => stage'[q] = "draining"
  <2>1. lock'[e] = lock[e] /\ ~(stage[r] = "draining" /\ e = Origin[r])
    BY <1>1, <1>3 DEF GivesUp
  <2>2. \A q \in Requests \ {r} : stage'[q] = stage[q]
    BY DEF GivesUp, CallerInv, CallerTypes
  <2> QED
    BY <2>1, <2>2
<1> QED
  BY <1>2, <1>3, LocksReleased

\* Every step is one of these for the locks.
LEMMA LockSteps ==
  ASSUME ConnInv, ConnNext
  PROVE  LockStep
<1> DEFINE LT == lock' \in [Ends -> Frames \union {NoFrame}]
<1>0. lock \in [Ends -> Frames \union {NoFrame}]
  BY DEF ConnInv, WireTypes
<1>1. ASSUME UNCHANGED <<stage, lock>> PROVE LockStep
  BY <1>0, <1>1, LocksReleased
<1>2. ASSUME NEW r \in Requests, Send(r) PROVE LockStep
  <2>1. stage[r] = "idle"
    BY <1>2 DEF Send, May
  <2>2. CASE Proceed(r)
    BY <2>1, <2>2, ProceedLocks
  <2>3. CASE stage' = [stage EXCEPT ![r] = "permit"] /\ UNCHANGED lock
    BY <2>1, <2>3, LockTaken
  <2> QED
    BY <1>2, <2>2, <2>3 DEF Send
<1>3. ASSUME NEW r \in Requests, Permitted(r) PROVE LockStep
  BY <1>3, ProceedLocks DEF Permitted
<1>4. ASSUME NEW r \in Requests, WriteQueued(r) PROVE LockStep
  <2> DEFINE kind == IF r \in Pings THEN "ping" ELSE "request"
             e == Origin[r]
  <2>0. stage[r] = "queued"
    BY <1>4 DEF WriteQueued
  <2>1. CASE Refused(e) /\ stage' = [stage EXCEPT ![r] = "ended"]
    BY <2>0, <2>1, LockTaken DEF Refused
  <2>2. CASE /\ Written(e, Frame(kind, id[r], r))
             /\ stage' = [stage EXCEPT ![r] =
                            IF lock'[e] = Frame(kind, id[r], r) THEN "draining" ELSE "waiting"]
    <3>1. kind \in {"ping", "request"} /\ id[r] \in Ids
      BY <2>0 DEF ConnInv, CallerInv, CallerTypes, IdsAreOwned, Begins
    <3> HIDE DEF kind
    <3> QED
      BY <2>0, <2>2, <3>1, WrittenLocks
  <2> QED
    BY <1>4, <2>1, <2>2 DEF WriteQueued
<1>5. ASSUME NEW r \in Requests, SendRejected(r) \/ Return(r) PROVE LockStep
  <2>1. stage[r] # "draining" /\ stage' = [stage EXCEPT ![r] = "ended"] /\ lock' = lock
    BY <1>5 DEF SendRejected, May, Return
  <2> QED
    BY <2>1, LockTaken
<1>6. ASSUME NEW r \in Requests, CancelRequest(r) PROVE LockStep
  BY <1>6, GivesUpLocks DEF CancelRequest
<1>7. ASSUME NEW e \in Ends, Drained(e) \/ DrainFails(e) PROVE LockStep
  <2>1. lock' = [lock EXCEPT ![e] = NoFrame]
    BY <1>7 DEF Drained, DrainFails
  <2>2. LT
    BY <1>0, <2>1
  <2>3. ASSUME NEW d \in Ends, lock'[d] # NoFrame
        PROVE  /\ lock'[d] = lock[d]
               /\ \A q \in Requests : Origin[q] = d /\ stage[q] = "draining" => stage'[q] = "draining"
    <3>1. d # e /\ lock'[d] = lock[d]
      BY <1>0, <2>1, <2>3
    <3>2. stage' = stage \/ (Asking(e) /\ \E s : stage' = [stage EXCEPT ![lock[e].req] = s])
      BY <1>7 DEF Drained, DrainFails
    <3> QED
      BY <3>1, <3>2 DEF Asking, ConnInv, CallerInv, CallerTypes
  <2> QED
    BY <2>2, <2>3, LocksReleased
<1>8. ASSUME NEW e \in Ends, ReadPing(e) PROVE LockStep
  <2> DEFINE f == Head(wire[e])
             pong == Frame("response", f.id, f.req)
  <2>1. wire[e] # <<>> /\ ~IsAnswer(f)
    BY <1>8 DEF ReadPing, Reading, IsAnswer
  <2>2. f \in Frames /\ Origin[f.req] # e
    BY <2>1, HeadIs, Two DEF ConnInv, OnTheWire, Fits
  <2>3. pong \in Frames /\ pong.req = f.req
    BY <2>2 DEF Frame, Frames
  <2>4. stage' = stage /\ (lock' = lock \/ lock' = [lock EXCEPT ![e] = pong])
    BY <1>8 DEF ReadPing
  <2> HIDE DEF f, pong
  <2> QED
    BY <2>2, <2>3, <2>4, AnswerLocks
<1>9. ASSUME NEW e \in Ends, NEW h \in handlers[e], Handled(e, h) PROVE LockStep
  BY <1>1, <1>9, AnsweredLocks DEF Handled
<1>10. ASSUME NEW e \in Ends, NEW h \in handlers[e], Reply(e, h) PROVE LockStep
  BY <1>10, AnsweredLocks DEF Reply
<1>11. ASSUME NEW e \in Ends, NEW h \in handlers[e], CancelHandler(e, h) PROVE LockStep
  <2>1. CASE lock' = lock /\ stage' = stage
    BY <1>1, <2>1
  <2>2. CASE lock' = [lock EXCEPT ![e] = NoFrame] /\ stage' = stage
    <3>1. LT /\ \A d \in Ends : lock'[d] \in {NoFrame, lock[d]}
      BY <1>0, <2>2
    <3> QED
      BY <2>2, <3>1, LocksReleased
  <2>3. ASSUME NEW r \in Requests, GivesUp(r) PROVE LockStep
    BY <2>3, GivesUpLocks
  <2> QED
    BY <1>11, <2>1, <2>2, <2>3 DEF CancelHandler
<1>12. ASSUME NEW r \in Requests, Expire(r) PROVE LockStep
  BY <1>1, <1>12 DEF Expire
<1>13. ASSUME NEW e \in Ends,
              \/ ReadAnswer(e) \/ ReadRequest(e) \/ CloseBegin(e) \/ FailAll(e) \/ CloseEnd(e) \/ Cut
       PROVE  LockStep
  BY <1>1, <1>13 DEF ReadAnswer, ReadRequest, CloseBegin, FailAll, CloseEnd, Cut
<1> HIDE DEF LT
<1> QED
  BY <1>2, <1>3, <1>4, <1>5, <1>6, <1>7, <1>8, <1>9, <1>10, <1>11, <1>12, <1>13, Two
     DEF ConnNext, Ends
-----------------------------------------------------------------------------
(* The invariant.                                                          *)

\* The invariant holds of the initial states.
LEMMA ConnInit_Inv == ConnInit => ConnInv
<1> SUFFICES ASSUME ConnInit PROVE ConnInv
  OBVIOUS
<1>1. 1 \in Ids /\ MaxId \in Nat \ {0} /\ NoReq \notin Requests
  BY ConnectionAssumption DEF Ids
<1>2. CallerTypes
  BY <1>1 DEF ConnInit, CallerTypes, Results, NoPending
<1>3. Active = {}
  BY DEF ConnInit, Active
<1>4. ASSUME NEW e \in Ends PROVE Counted(e)
  <2>1. Cardinality(Begun(e)) \in Nat
    BY BegunIsFinite
  <2>2. nextId[e] = 1 /\ \A r \in Requests : id[r] = 0
    BY DEF ConnInit
  <2> QED
    BY <1>1, <2>1, <2>2 DEF Counted
<1>5. IdsAreOwned /\ WaitersArePending
  BY <1>1 DEF ConnInit, IdsAreOwned, WaitersArePending, NoPending, Begins
<1>6. WireTypes
  BY EmptySeq DEF ConnInit, WireTypes
<1>7. OnTheWire
  <2>1. \A e \in Ends : Len(wire[e]) = 0
    BY EmptySeq DEF ConnInit
  <2> QED
    BY <2>1 DEF OnTheWire, Once
<1>8. InHandlers /\ Futures /\ LocksAreHeld
  BY ConnectionAssumption DEF ConnInit, InHandlers, Futures, LocksAreHeld, Locked
<1> QED
  BY <1>2, <1>3, <1>4, <1>5, <1>6, <1>7, <1>8 DEF ConnInv, CallerInv

\* The state of an end, and the ends that can write.
LEMMA StatesKept ==
  ASSUME ConnInv, ConnNext
  PROVE  conn' \in [Ends -> {"running", "closing", "shutting", "closed"}] /\ open' \in SUBSET Ends
<1> USE DEF ConnInv, WireTypes
<1>1. ASSUME NEW r \in Requests,
              \/ Send(r) \/ SendRejected(r) \/ Permitted(r) \/ WriteQueued(r)
              \/ Expire(r) \/ Return(r) \/ CancelRequest(r)
       PROVE  UNCHANGED <<conn, open>>
  BY <1>1 DEF Send, SendRejected, Permitted, WriteQueued, Expire, Return, CancelRequest
<1>2. ASSUME NEW e \in Ends,
             \/ Drained(e) \/ DrainFails(e) \/ ReadAnswer(e) \/ ReadRequest(e) \/ ReadPing(e)
             \/ \E h \in handlers[e] : Handled(e, h) \/ Reply(e, h) \/ CancelHandler(e, h)
      PROVE  UNCHANGED <<conn, open>>
  BY <1>2 DEF Drained, DrainFails, ReadAnswer, ReadRequest, ReadPing, Handled, Reply, CancelHandler
<1>3. ASSUME NEW e \in Ends, CloseBegin(e) \/ FailAll(e) \/ CloseEnd(e)
      PROVE  /\ \E s \in {"closing", "shutting", "closed"} : conn' = [conn EXCEPT ![e] = s]
             /\ open' \subseteq open
  BY <1>3 DEF CloseBegin, FailAll, CloseEnd
<1>4. CASE Cut
  BY <1>4 DEF Cut
<1> QED
  BY <1>1, <1>2, <1>3, <1>4 DEF ConnNext

\* Every step keeps it.
LEMMA ConnNext_Inv ==
  ASSUME ConnInv, [ConnNext]_connVars
  PROVE  ConnInv'
<1>1. CASE ConnNext
  <2>1. CallerInv' /\ CallerStep /\ Onward
    BY <1>1, CallerKept, CallerSteps, GoesOnward DEF ConnInv
  <2>2. WireStep /\ HandlerStep /\ LockStep
    BY <1>1, WireSteps, HandlerSteps, LockSteps
  <2>3. OnTheWire' /\ InHandlers' /\ Futures' /\ WireIsKept
    BY <2>1, <2>2, WireKept, HandlersKept, FuturesKept
  <2>4. LocksAreHeld'
    BY <2>2 DEF LockStep, LocksAreHeld, Locked, Asking
  <2>5. WireTypes'
    BY <1>1, <2>2, <2>3, StatesKept DEF WireTypes, WireIsKept, HandlerStep, LockStep
  <2> QED
    BY <2>1, <2>3, <2>4, <2>5 DEF ConnInv
<1>2. CASE UNCHANGED connVars
  <2>1. CallerInv'
    <3>1. CallerStep
      BY <1>2 DEF CallerStep, callerVars, connVars, table
    <3> QED
      BY <3>1, CallerTypesKept, MixKept, CountedKept, IdsKept, WaitersKept DEF CallerInv, ConnInv
  <2>2. WireTypes' /\ InHandlers' /\ Futures' /\ LocksAreHeld'
    BY <1>2 DEF ConnInv, WireTypes, InHandlers, Futures, LocksAreHeld, connVars, table,
                Sent, Locked, Asking
  <2>3. OnTheWire'
    BY <1>2 DEF ConnInv, OnTheWire, Fits, Sent, connVars, table
  <2> QED
    BY <2>1, <2>2, <2>3 DEF ConnInv
<1> QED
  BY <1>1, <1>2

\* So it always holds.
LEMMA ConnInvariant == ConnSpec => []ConnInv
<1>1. ConnInit => ConnInv
  BY ConnInit_Inv
<1>2. ConnInv /\ [ConnNext]_connVars => ConnInv'
  BY ConnNext_Inv
<1> QED
  BY <1>1, <1>2, PTL DEF ConnSpec

\* A request whose future is open is in the table of pending requests under its id, for
\* any number of requests, of permits and of handlers (allocate, discard, fail_all).
THEOREM WaitersStayPending == ConnSpec => []WaitersArePending
<1>1. ConnInv => WaitersArePending
  BY DEF ConnInv, CallerInv
<1> QED
  BY <1>1, ConnInvariant, PTL
-----------------------------------------------------------------------------
(* The permits of the handlers.                                            *)

HandlersBounded ==
  \A e \in Ends : IsFiniteSet(handlers[e]) /\ Cardinality(handlers[e]) <= MaxInbound

\* A step starts a handler within its permits, or replaces one, or ends some.
LEMMA OneHandler ==
  ASSUME NEW S, NEW T, NEW N \in Nat, IsFiniteSet(S), Cardinality(S) <= N,
         \/ T \subseteq S
         \/ Cardinality(S) < N /\ \E x : T = S \union {x}
         \/ \E h \in S : \E x : T = (S \ {h}) \union {x}
  PROVE  IsFiniteSet(T) /\ Cardinality(T) <= N
<1>0. Cardinality(S) \in Nat
  BY FS_CardinalityType
<1>1. CASE T \subseteq S
  <2>1. IsFiniteSet(T) /\ Cardinality(T) <= Cardinality(S) /\ Cardinality(T) \in Nat
    BY <1>1, FS_Subset, FS_CardinalityType
  <2> QED
    BY <1>0, <2>1
<1>2. ASSUME NEW x, T = S \union {x}, Cardinality(S) < N PROVE IsFiniteSet(T) /\ Cardinality(T) <= N
  BY <1>0, <1>2, FS_AddElement
<1>3. ASSUME NEW h \in S, NEW x, T = (S \ {h}) \union {x} PROVE IsFiniteSet(T) /\ Cardinality(T) <= N
  <2>1. IsFiniteSet(S \ {h}) /\ Cardinality(S \ {h}) = Cardinality(S) - 1
    BY FS_RemoveElement
  <2>2. Cardinality(S \ {h}) \in Nat
    BY <2>1, FS_CardinalityType
  <2>3. IsFiniteSet(T) /\ Cardinality(T) <= Cardinality(S \ {h}) + 1
    <3>1. /\ IsFiniteSet((S \ {h}) \union {x})
          /\ Cardinality((S \ {h}) \union {x}) =
               IF x \in S \ {h} THEN Cardinality(S \ {h}) ELSE Cardinality(S \ {h}) + 1
      BY <2>1, FS_AddElement
    <3> QED
      BY <1>3, <2>2, <3>1
  <2>4. Cardinality(T) \in Nat
    BY <2>3, FS_CardinalityType
  <2> QED
    BY <1>0, <2>1, <2>3, <2>4
<1> QED
  BY <1>1, <1>2, <1>3

\* No step lets more handlers run than there are permits.
LEMMA HandlersNext ==
  ASSUME ConnInv, HandlersBounded, [ConnNext]_connVars
  PROVE  HandlersBounded'
<1> DEFINE Bound(e) ==
             \/ handlers'[e] \subseteq handlers[e]
             \/ Cardinality(handlers[e]) < MaxInbound /\ \E x : handlers'[e] = handlers[e] \union {x}
             \/ \E h \in handlers[e] : \E x : handlers'[e] = (handlers[e] \ {h}) \union {x}
<1>0. handlers \in [Ends -> SUBSET Jobs] /\ MaxInbound \in Nat
  BY ConnectionAssumption DEF ConnInv, WireTypes
<1>1. ASSUME \A e \in Ends : Bound(e) PROVE HandlersBounded'
  BY <1>0, <1>1, OneHandler DEF HandlersBounded
<1>2. ASSUME NEW e \in Ends, \E S : handlers' = [handlers EXCEPT ![e] = S], Bound(e)
      PROVE  HandlersBounded'
  <2>1. \A d \in Ends : d # e => handlers'[d] = handlers[d]
    BY <1>0, <1>2
  <2> QED
    BY <1>1, <1>2, <2>1
<1>3. ASSUME UNCHANGED handlers PROVE HandlersBounded'
  BY <1>3 DEF HandlersBounded
<1>4. ASSUME NEW e \in Ends, Drained(e) \/ DrainFails(e) PROVE HandlersBounded'
  <2>1. handlers' = [handlers EXCEPT ![e] = handlers[e] \ Answering(e)]
    BY <1>4 DEF Drained, DrainFails
  <2> QED
    BY <1>0, <1>2, <2>1
<1>5. ASSUME NEW e \in Ends, ReadRequest(e) PROVE HandlersBounded'
  <2>1. /\ handlers' = [handlers EXCEPT ![e] = handlers[e] \union {Taken(e)}]
        /\ Cardinality(handlers[e]) < MaxInbound
    BY <1>5 DEF ReadRequest, Taken
  <2>2. handlers'[e] = handlers[e] \union {Taken(e)}
    BY <1>0, <2>1
  <2> HIDE DEF Bound
  <2>3. Bound(e)
    BY <2>1, <2>2 DEF Bound
  <2> QED
    BY <1>2, <2>1, <2>3
<1>6. ASSUME NEW e \in Ends, NEW h \in handlers[e], NEW f, Answered(e, h, f) PROVE HandlersBounded'
  <2>1. CASE handlers' = [handlers EXCEPT ![e] = handlers[e] \ {h}]
    BY <1>0, <1>2, <2>1
  <2>2. CASE handlers' = [handlers EXCEPT ![e] = (handlers[e] \ {h}) \union {[h EXCEPT !.stage = "draining"]}]
    <3>1. handlers'[e] = (handlers[e] \ {h}) \union {[h EXCEPT !.stage = "draining"]}
      BY <1>0, <2>2
    <3>2. Bound(e)
      BY <3>1
    <3> HIDE DEF Bound
    <3> QED
      BY <1>2, <2>2, <3>2
  <2> QED
    BY <1>6, <2>1, <2>2 DEF Answered
<1>7. ASSUME NEW e \in Ends, NEW h \in handlers[e], Handled(e, h) PROVE HandlersBounded'
  <2>1. CASE \E kind \in {"response", "error"} : Answered(e, h, Frame(kind, h.id, h.req))
    BY <1>6, <2>1
  <2>2. ASSUME NEW kind,
               handlers' = [handlers EXCEPT ![e] = (handlers[e] \ {h}) \union {[h EXCEPT !.stage = kind]}]
        PROVE  HandlersBounded'
    <3>1. handlers'[e] = (handlers[e] \ {h}) \union {[h EXCEPT !.stage = kind]}
      BY <1>0, <2>2
    <3>2. Bound(e)
      BY <3>1
    <3> HIDE DEF Bound
    <3> QED
      BY <1>2, <2>2, <3>2
  <2> QED
    BY <1>7, <2>1, <2>2 DEF Handled
<1>8. ASSUME NEW e \in Ends, NEW h \in handlers[e], CancelHandler(e, h) PROVE HandlersBounded'
  <2>1. handlers' = [handlers EXCEPT ![e] = handlers[e] \ {h}]
    BY <1>8 DEF CancelHandler
  <2> QED
    BY <1>0, <1>2, <2>1
<1>9. ASSUME NEW r \in Requests,
              \/ Send(r) \/ SendRejected(r) \/ Permitted(r) \/ WriteQueued(r)
              \/ Expire(r) \/ Return(r) \/ CancelRequest(r)
      PROVE  UNCHANGED handlers
  BY <1>9 DEF Send, SendRejected, Permitted, WriteQueued, Expire, Return, CancelRequest
<1>10. ASSUME NEW e \in Ends,
              \/ ReadAnswer(e) \/ ReadPing(e) \/ CloseBegin(e) \/ FailAll(e) \/ CloseEnd(e) \/ Cut
       PROVE  UNCHANGED handlers
  BY <1>10 DEF ReadAnswer, ReadPing, CloseBegin, FailAll, CloseEnd, Cut
<1>11. ASSUME NEW e \in Ends, NEW h \in handlers[e], Reply(e, h) PROVE HandlersBounded'
  BY <1>6, <1>11 DEF Reply
<1>12. CASE UNCHANGED connVars
  BY <1>3, <1>12 DEF connVars
<1> HIDE DEF Bound
<1> QED
  BY <1>3, <1>4, <1>5, <1>7, <1>8, <1>9, <1>10, <1>11, <1>12, Two DEF ConnNext, Ends

\* The state of both ends is what it should be, and no end handles more requests at a
\* time than it has permits (_inbound_sem), for any limits.
THEOREM ConnTypes == ConnSpec => []ConnTypeOK
<1>1. ConnInit => HandlersBounded
  <2> SUFFICES ASSUME ConnInit, NEW e \in Ends
               PROVE  IsFiniteSet(handlers[e]) /\ Cardinality(handlers[e]) <= MaxInbound
    BY DEF HandlersBounded
  <2>1. handlers[e] = {} /\ MaxInbound \in Nat
    BY ConnectionAssumption DEF ConnInit
  <2> QED
    BY <2>1, FS_EmptySet
<1>2. ConnInv /\ HandlersBounded /\ [ConnNext]_connVars => HandlersBounded'
  BY HandlersNext
<1>3. ConnInv /\ HandlersBounded => ConnTypeOK
  BY DEF ConnInv, CallerInv, CallerTypes, WireTypes, HandlersBounded, ConnTypeOK, Results
<1> QED
  BY <1>1, <1>2, <1>3, ConnInvariant, PTL DEF ConnSpec
-----------------------------------------------------------------------------
(* The refinement.                                                         *)

Seen(r) == IF stage[r] \in {"idle", "ended"} THEN stage[r] ELSE "open"
Shown == [r \in Requests |-> Seen(r)]

\* The step of the promise that a step of the callers is.
LEMMA CallerStepPromised ==
  ASSUME ConnInv, CallerStep, served' = served
  PROVE  [Promised!AbsNext]_(Promised!absVars)
<1> USE DEF ConnInv, CallerInv, CallerTypes
<1>1. ASSUME NEW r \in Requests, NEW s, stage' = [stage EXCEPT ![r] = s]
      PROVE  Shown' = [Shown EXCEPT ![r] = IF s \in {"idle", "ended"} THEN s ELSE "open"]
  BY <1>1 DEF Shown, Seen
<1>2. ASSUME NEW r \in Requests, NEW s, stage[r] = "idle", s \notin {"idle", "ended"},
             stage' = [stage EXCEPT ![r] = s], result' = result
      PROVE  Promised!Ask(r)
  <2>1. Shown' = [Shown EXCEPT ![r] = "open"] /\ Shown[r] = "idle"
    BY <1>1, <1>2 DEF Shown, Seen
  <2> QED
    BY <1>2, <2>1 DEF Promised!Ask, Shown, Seen
<1>3. ASSUME NEW r \in Requests, NEW s, stage[r] \notin {"idle", "ended"}, s \notin {"idle", "ended"},
             stage' = [stage EXCEPT ![r] = s], result' = result
      PROVE  UNCHANGED Promised!absVars
  <2>1. Shown' = Shown
    BY <1>3 DEF Shown, Seen
  <2> QED
    BY <1>3, <2>1 DEF Promised!absVars, Shown, Seen
<1>4. ASSUME NEW r \in Requests, NEW outcome \in {"failed", r}, stage[r] # "ended",
             outcome = r => served[r] = 1,
             stage' = [stage EXCEPT ![r] = "ended"], result' = [result EXCEPT ![r] = outcome]
      PROVE  Promised!End(r)
  <2>1. Shown' = [Shown EXCEPT ![r] = "ended"] /\ Shown[r] # "ended"
    BY <1>1, <1>4 DEF Shown, Seen
  <2> QED
    BY <1>4, <2>1 DEF Promised!End, Shown, Seen
<1>5. ASSUME UNCHANGED <<stage, result>> PROVE UNCHANGED Promised!absVars
  BY <1>5 DEF Promised!absVars
<1>6. ASSUME NEW r \in Requests, WaitsForPermit(r) PROVE Promised!Ask(r)
  BY <1>2, <1>6 DEF WaitsForPermit
<1>7. ASSUME NEW r \in Requests, Begin(r) PROVE Promised!Ask(r) \/ UNCHANGED Promised!absVars
  <2>1. PICK s \in Begins : stage' = [stage EXCEPT ![r] = s]
    BY <1>7 DEF Begin
  <2>2. s \notin {"idle", "ended"} /\ result' = result /\ stage[r] \in {"idle", "permit"}
    BY <1>7 DEF Begin, Begins
  <2>3. CASE stage[r] = "idle"
    BY <1>2, <2>1, <2>2, <2>3
  <2>4. CASE stage[r] = "permit"
    BY <1>3, <2>1, <2>2, <2>4
  <2> QED
    BY <2>2, <2>3, <2>4
<1>8. ASSUME NEW r \in Requests, Advance(r) PROVE UNCHANGED Promised!absVars
  <2>1. PICK s \in {"draining", "waiting"} : stage' = [stage EXCEPT ![r] = s]
    BY <1>8 DEF Advance
  <2>2. s \notin {"idle", "ended"} /\ result' = result /\ stage[r] \notin {"idle", "ended"}
    BY <1>8 DEF Advance
  <2> QED
    BY <1>3, <2>1, <2>2
<1>9. ASSUME NEW r \in Requests, EndsEarly(r) \/ EndsWith(r, "failed") PROVE Promised!End(r)
  <2>1. "failed" # r
    BY ConnectionAssumption
  <2> QED
    BY <1>4, <1>9, <2>1 DEF EndsEarly, EndsWith
<1>10. ASSUME NEW r \in Requests, future[r] # "none", EndsWith(r, future[r]) PROVE Promised!End(r)
  <2>1. future[r] \in {"failed", r} /\ (future[r] = r => served[r] = 1)
    BY <1>10 DEF Futures
  <2> DEFINE o == future[r]
  <2>2. /\ stage[r] # "ended"
        /\ stage' = [stage EXCEPT ![r] = "ended"]
        /\ result' = [result EXCEPT ![r] = o]
    BY <1>10 DEF EndsWith
  <2> HIDE DEF o
  <2> QED
    BY <1>4, <2>1, <2>2 DEF o
<1>11. CASE UNCHANGED <<stage, result>>
  BY <1>5, <1>11
<1> QED
  BY <1>6, <1>7, <1>8, <1>9, <1>10, <1>11
     DEF CallerStep, callerVars, Settles, Flushes, Promised!AbsNext

\* Whoever takes a request does nothing to its caller.
LEMMA ServesAlone ==
  ASSUME ConnNext
  PROVE  served' = served \/ UNCHANGED <<stage, result>>
<1>1. ASSUME NEW r \in Requests,
              \/ Send(r) \/ SendRejected(r) \/ Permitted(r) \/ WriteQueued(r)
              \/ Expire(r) \/ Return(r) \/ CancelRequest(r)
      PROVE  served' = served
  BY <1>1 DEF Send, SendRejected, Permitted, WriteQueued, Expire, Return, CancelRequest
<1>2. ASSUME NEW e \in Ends,
             \/ Drained(e) \/ DrainFails(e) \/ ReadAnswer(e) \/ CloseBegin(e) \/ FailAll(e)
             \/ CloseEnd(e) \/ \E h \in handlers[e] : CancelHandler(e, h)
      PROVE  served' = served
  BY <1>2 DEF Drained, DrainFails, ReadAnswer, CloseBegin, FailAll, CloseEnd, CancelHandler
<1>3. ASSUME NEW e \in Ends,
             \/ ReadRequest(e) \/ ReadPing(e) \/ Cut
             \/ \E h \in handlers[e] : Handled(e, h) \/ Reply(e, h)
      PROVE  UNCHANGED <<stage, result>>
  BY <1>3 DEF ReadRequest, ReadPing, Cut, Handled, Reply
<1> QED
  BY <1>1, <1>2, <1>3, Two DEF ConnNext, Ends

\* Taking a request from the wire serves it, for the first time.
LEMMA ServeIs ==
  ASSUME ConnInv, NEW e \in Ends, TakesRequest(e) \/ Pongs(e), UNCHANGED <<stage, result>>
  PROVE  \E r \in Requests : Promised!Serve(r)
<1> DEFINE q == Head(wire[e]).req
<1>1. /\ wire[e] # <<>> /\ ~IsAnswer(Head(wire[e]))
      /\ served' = [served EXCEPT ![q] = @ + 1]
  BY DEF TakesRequest, Pongs
<1>2. q \in Requests /\ served[q] = 0 /\ Sent(q)
  BY <1>1, HeadIs DEF ConnInv, OnTheWire, Fits, Frames
<1> HIDE DEF q
<1>3. served' = [served EXCEPT ![q] = 1]
  BY <1>1, <1>2 DEF ConnInv, WireTypes
<1>4. Shown[q] # "idle" /\ Shown' = Shown
  BY <1>2 DEF Shown, Seen, Sent
<1>5. Promised!Serve(q)
  BY <1>2, <1>3, <1>4 DEF Promised!Serve, Shown, Seen
<1> QED
  BY <1>2, <1>5

\* Both ends keep the promise, for any number of requests that make others, any limits,
\* and every cut, close, cancellation and timer: no request is handled twice or ends
\* twice, and no caller gets the answer to another one (send_request, _handle_request,
\* complete, fail_all).
THEOREM PromiseKept == ConnSpec => RequestPromise
<1>1. ConnInit => Promised!AbsInit
  BY DEF ConnInit, Promised!AbsInit
<1>2. ConnInv /\ [ConnNext]_connVars => [Promised!AbsNext]_(Promised!absVars)
  <2> SUFFICES ASSUME ConnInv, [ConnNext]_connVars
               PROVE  Promised!AbsNext \/ UNCHANGED Promised!absVars
    OBVIOUS
  <2>1. CASE UNCHANGED connVars
    BY <2>1 DEF connVars, Promised!absVars
  <2>2. CASE ConnNext /\ served' = served
    BY <2>2, CallerSteps, CallerStepPromised
  <2>3. CASE ConnNext /\ served' # served
    <3>1. UNCHANGED <<stage, result>>
      BY <2>3, ServesAlone
    <3>2. PICK e \in Ends : TakesRequest(e) \/ Pongs(e)
      BY <2>3, WireSteps DEF WireStep, Stays, Puts, TakesAnswer
    <3> QED
      BY <3>1, <3>2, ServeIs DEF Promised!AbsNext
  <2> QED
    BY <2>1, <2>2, <2>3
<1> QED
  BY <1>1, <1>2, ConnInvariant, PTL DEF ConnSpec, RequestPromise, Promised!Promise
=============================================================================
