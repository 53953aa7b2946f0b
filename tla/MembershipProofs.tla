-------------------------- MODULE MembershipProofs --------------------------
(***************************************************************************)
(* Proofs about Membership, for every set of silos, number of votes and    *)
(* miss limit.  The argument: etags are versions, so a copy whose etag is  *)
(* still that of a row holds that row's contents (Matching), and a write   *)
(* that passes the etag test therefore loses nothing.                      *)
(***************************************************************************)
EXTENDS Membership, FiniteSetTheorems, TLAPS

\* A write of one record component of a copy keeps its type.
LEMMA CopyTyped ==
  ASSUME copy \in [Silos -> [Kinds -> RowCopy]], NEW s \in Silos, NEW k \in Kinds
  PROVE /\ copy[s][k] \in RowCopy
        /\ copy[s][k].status \in Statuses
        /\ copy[s][k].votes \subseteq Silos
        /\ copy[s][k].etag \in Nat
BY DEF RowCopy

\* What the steps that read, drop or keep copies leave is a copy of each row.
LEMMA CopyStepTyped ==
  ASSUME TypeOK, NEW s \in Silos, NEW k \in Kinds, NEW t \in Silos
  PROVE /\ Read(s, k, t) => copy' \in [Silos -> [Kinds -> RowCopy]]
        /\ Drop(s, k) => copy' \in [Silos -> [Kinds -> RowCopy]]
        /\ DropAll(s) => copy' \in [Silos -> [Kinds -> RowCopy]]
<1>1. Row(t) \in RowCopy
  BY DEF Row, RowCopy, TypeOK
<1>2. Blank \in RowCopy
  BY DEF Blank, RowCopy, Statuses
<1>3. copy \in [Silos -> [Kinds -> RowCopy]]
  BY DEF TypeOK
<1>4. [j \in Kinds |-> Blank] \in [Kinds -> RowCopy]
  BY <1>2
<1> QED
  BY <1>1, <1>2, <1>3, <1>4 DEF Read, Drop, DropAll

\* The type of the table.
TableTyped ==
  /\ version \in Nat
  /\ status \in [Silos -> Statuses]
  /\ etag \in [Silos -> Nat]
  /\ votes \in [Silos -> SUBSET Silos]
  /\ fresh \in [Silos -> SUBSET Silos]

\* The provider's primitives keep the table well typed.
LEMMA UpdateTyped ==
  ASSUME TableTyped, NEW t \in Silos, NEW row \in RowCopy, TryUpdate(t, row),
         fresh' \in [Silos -> SUBSET Silos]
  PROVE TableTyped'
<1>1. row.status \in Statuses /\ row.votes \in SUBSET Silos
  BY DEF RowCopy
<1>2. status' \in [Silos -> Statuses]
  BY <1>1 DEF TableTyped, TryUpdate
<1>3. votes' \in [Silos -> SUBSET Silos]
  BY <1>1 DEF TableTyped, TryUpdate
<1>4. version' \in Nat /\ etag' \in [Silos -> Nat]
  BY DEF TableTyped, TryUpdate
<1> QED
  BY <1>2, <1>3, <1>4 DEF TableTyped

\* The writes of the provider keep the table typed.
LEMMA TableStepTyped ==
  ASSUME TableTyped, NEW t \in Silos, NEW s \in Silos, NEW e \in Nat
  PROVE /\ TryCreate(t) => TableTyped'
        /\ TryAddSuspicion(t, s, e) => TableTyped'
        /\ TryDelete(t, e) => TableTyped'
<1>1. TryCreate(t) => TableTyped'
  BY DEF TableTyped, TryCreate, Statuses
<1>2. TryAddSuspicion(t, s, e) => TableTyped'
  BY DEF TableTyped, TryAddSuspicion
<1>3. TryDelete(t, e) => TableTyped'
  BY DEF TableTyped, TryDelete, Statuses
<1> QED
  BY <1>1, <1>2, <1>3

\* The type of what a silo's tasks keep.
TasksTyped ==
  /\ lost \in [Silos -> SUBSET Silos]
  /\ miss \in [Silos -> [Silos -> Nat]]
  /\ vpc \in [Silos -> {"idle", "read", "ask", "add", "declare"}]
  /\ vpeer \in [Silos -> Silos]
  /\ tries \in [Silos -> 0..(MaxStaleRetry - 1)]
  /\ bpc \in [Silos -> {"idle", "write"}]
  /\ looping \in [Silos -> BOOLEAN]
  /\ copy \in [Silos -> [Kinds -> RowCopy]]

\* The end of a vote, and of all tasks, keeps them well typed.
LEMMA EndTyped ==
  ASSUME TypeOK, NEW s \in Silos, NEW c \in BOOLEAN
  PROVE /\ EndVote(s, c) /\ UNCHANGED <<bpc, looping>> /\ lost' \in [Silos -> SUBSET Silos]
             => TasksTyped'
        /\ VoteRetry(s) /\ UNCHANGED <<lost, bpc, looping>> => TasksTyped'
        /\ EndTasks(s) => TasksTyped'
<1>1. "vote" \in Kinds
  BY DEF Kinds
<1>2. 0 \in 0..(MaxStaleRetry - 1)
  BY DEF MaxStaleRetry
<1>3. ASSUME NEW b \in BOOLEAN, EndVote(s, b)
      PROVE /\ miss' \in [Silos -> [Silos -> Nat]]
            /\ vpc' \in [Silos -> {"idle", "read", "ask", "add", "declare"}]
            /\ vpeer' \in [Silos -> Silos]
            /\ tries' \in [Silos -> 0..(MaxStaleRetry - 1)]
            /\ copy' \in [Silos -> [Kinds -> RowCopy]]
  <2>1. copy' \in [Silos -> [Kinds -> RowCopy]]
    BY <1>1, <1>3, CopyStepTyped DEF EndVote
  <2>2. miss' \in [Silos -> [Silos -> Nat]]
    BY <1>3 DEF EndVote, TypeOK
  <2> QED
    BY <1>2, <1>3, <2>1, <2>2 DEF EndVote, TypeOK
<1>4. EndVote(s, c) /\ UNCHANGED <<bpc, looping>> /\ lost' \in [Silos -> SUBSET Silos]
        => TasksTyped'
  BY <1>3 DEF TasksTyped, TypeOK
<1>5. VoteRetry(s) /\ UNCHANGED <<lost, bpc, looping>> => TasksTyped'
  <2> SUFFICES ASSUME VoteRetry(s), UNCHANGED <<lost, bpc, looping>> PROVE TasksTyped'
    OBVIOUS
  <2>1. CASE tries[s] + 1 < MaxStaleRetry
    <3>1. copy' \in [Silos -> [Kinds -> RowCopy]]
      BY <1>1, <2>1, CopyStepTyped DEF VoteRetry
    <3>2. tries' \in [Silos -> 0..(MaxStaleRetry - 1)]
      <4>1. tries[s] + 1 \in 0..(MaxStaleRetry - 1)
        BY <2>1 DEF TypeOK, MaxStaleRetry
      <4>2. tries' = [tries EXCEPT ![s] = tries[s] + 1]
        BY <2>1 DEF VoteRetry
      <4> QED
        BY <4>1, <4>2 DEF TypeOK
    <3>3. vpc' = [vpc EXCEPT ![s] = "read"] /\ UNCHANGED <<miss, vpeer>>
      BY <2>1 DEF VoteRetry
    <3> QED
      BY <3>1, <3>2, <3>3 DEF TypeOK, TasksTyped
  <2>2. CASE ~(tries[s] + 1 < MaxStaleRetry)
    BY <1>3, <2>2 DEF VoteRetry, TypeOK, TasksTyped
  <2> QED
    BY <2>1, <2>2
<1>6. EndTasks(s) => TasksTyped'
  <2> SUFFICES ASSUME EndTasks(s) PROVE TasksTyped'
    OBVIOUS
  <2>1. copy' \in [Silos -> [Kinds -> RowCopy]]
    BY <1>1, CopyStepTyped DEF EndTasks
  <2> QED
    BY <1>2, <2>1 DEF EndTasks, TypeOK, TasksTyped
<1> QED
  BY <1>4, <1>5, <1>6

\* The type of a silo's own progress.
SiloTyped ==
  /\ spc \in [Silos -> {"new", "up", "read_status", "write_status", "drain",
                        "read_row", "delete_row", "gone", "crashed"}]
  /\ retries \in [Silos -> 0..(OccMaxRetries - 1)]

\* A retry of stop() keeps the silos typed.
LEMMA AgainTyped ==
  ASSUME SiloTyped, NEW s \in Silos
  PROVE /\ Again(s, "read_status", "drain") => SiloTyped'
        /\ Again(s, "read_row", "gone") => SiloTyped'
<1>1. ASSUME retries[s] + 1 < OccMaxRetries, retries' = [retries EXCEPT ![s] = @ + 1]
      PROVE retries' \in [Silos -> 0..(OccMaxRetries - 1)]
  <2>1. retries[s] + 1 \in 0..(OccMaxRetries - 1)
    BY <1>1 DEF SiloTyped, OccMaxRetries
  <2> QED
    BY <1>1, <2>1 DEF SiloTyped
<1>2. Again(s, "read_status", "drain") => SiloTyped'
  BY <1>1 DEF Again, SiloTyped
<1>3. Again(s, "read_row", "gone") => SiloTyped'
  BY <1>1 DEF Again, SiloTyped
<1> QED
  BY <1>2, <1>3

\* TypeOK by its three parts.
LEMMA TypeParts == TypeOK <=> TableTyped /\ SiloTyped /\ TasksTyped
BY DEF TypeOK, TableTyped, SiloTyped, TasksTyped

\* Every step keeps every variable in its type.
LEMMA TypeStep == TypeOK /\ [Next]_vars => TypeOK'
<1> SUFFICES ASSUME TypeOK, [Next]_vars PROVE TypeOK'
  OBVIOUS
<1>k. "vote" \in Kinds /\ "beat" \in Kinds /\ "stop" \in Kinds
  BY DEF Kinds
<1>n. 0 \in Nat
  OBVIOUS
<1>t. TableTyped /\ SiloTyped /\ TasksTyped
  BY TypeParts
<1>q. /\ UNCHANGED table => TableTyped'
      /\ UNCHANGED <<spc, retries>> => SiloTyped'
      /\ UNCHANGED <<probe, bpc, looping, copy>> => TasksTyped'
  BY <1>t DEF table, probe, TableTyped, SiloTyped, TasksTyped
<1>s. TableTyped' /\ SiloTyped' /\ TasksTyped' => TypeOK'
  BY TypeParts, PTL
<1>c. ASSUME copy' \in [Silos -> [Kinds -> RowCopy]], UNCHANGED <<probe, looping>>,
             bpc' \in [Silos -> {"idle", "write"}]
      PROVE TasksTyped'
  BY <1>t, <1>c DEF probe, TasksTyped
<1>1. CASE UNCHANGED vars
  BY <1>1, <1>q, <1>s DEF vars
<1>2. ASSUME NEW s \in Silos, SiloStep(s) PROVE TypeOK'
  <2> USE <1>2
  <2>1. CASE Register(s)
    <3>1. TableTyped'
      BY <2>1, <1>t, <1>n, TableStepTyped DEF Register
    <3>2. SiloTyped' /\ TasksTyped'
      BY <2>1, <1>t DEF Register, SiloTyped, TasksTyped, probe
    <3> QED
      BY <3>1, <3>2, <1>s
  <2>2. CASE StopRequest(s)
    <3>1. SiloTyped'
      BY <2>2, <1>t DEF StopRequest, SiloTyped, OccMaxRetries
    <3> QED
      BY <2>2, <3>1, <1>q, <1>s DEF StopRequest
  <2>3. CASE SelfTerminate(s)
    <3>1. SiloTyped'
      BY <2>3, <1>t DEF SelfTerminate, SiloTyped, OccMaxRetries
    <3>2. TasksTyped'
      BY <2>3, <1>t DEF SelfTerminate, TasksTyped, probe
    <3> QED
      BY <2>3, <3>1, <3>2, <1>q, <1>s DEF SelfTerminate
  <2>4. CASE ReadStatus(s)
    <3>1. SiloTyped'
      BY <2>4, <1>t DEF ReadStatus, SiloTyped
    <3>2. copy' \in [Silos -> [Kinds -> RowCopy]]
      BY <2>4, <1>t, <1>k, CopyStepTyped DEF ReadStatus, TasksTyped
    <3>3. TasksTyped'
      BY <2>4, <3>2, <1>c, <1>t DEF ReadStatus, TasksTyped
    <3> QED
      BY <2>4, <3>1, <3>3, <1>q, <1>s DEF ReadStatus
  <2>5. CASE WriteStatus(s)
    <3>1. SiloTyped'
      BY <2>5, <1>t, AgainTyped DEF WriteStatus, SiloTyped
    <3>2. TasksTyped'
      BY <2>5, <1>c, <1>t, <1>k, CopyStepTyped DEF WriteStatus, TasksTyped
    <3>3. [copy[s]["stop"] EXCEPT !.status = "shutting_down"] \in RowCopy
      <4>1. copy[s]["stop"] \in RowCopy
        BY <1>t, <1>k, CopyTyped DEF TasksTyped
      <4> QED
        BY <4>1 DEF RowCopy, Statuses
    <3>4. TableTyped'
      <4>1. CASE TryUpdate(s, [copy[s]["stop"] EXCEPT !.status = "shutting_down"])
                   /\ fresh' = [fresh EXCEPT ![s] = @ \intersect copy[s]["stop"].votes]
        BY <4>1, <3>3, <1>t, UpdateTyped DEF TableTyped
      <4> QED
        BY <2>5, <4>1, <1>q DEF WriteStatus
    <3> QED
      BY <3>1, <3>2, <3>4, <1>s
  <2>6. CASE StopAgent(s)
    <3>1. SiloTyped'
      BY <2>6, <1>t DEF StopAgent, SiloTyped, OccMaxRetries
    <3> QED
      BY <2>6, <3>1, <1>q, <1>s, EndTyped DEF StopAgent
  <2>7. CASE ReadRow(s)
    <3>1. SiloTyped'
      BY <2>7, <1>t DEF ReadRow, SiloTyped
    <3>2. copy' \in [Silos -> [Kinds -> RowCopy]]
      BY <2>7, <1>t, <1>k, CopyStepTyped DEF ReadRow, TasksTyped
    <3>3. TasksTyped'
      BY <2>7, <3>2, <1>c, <1>t DEF ReadRow, TasksTyped
    <3> QED
      BY <2>7, <3>1, <3>3, <1>q, <1>s DEF ReadRow
  <2>8. CASE DeleteRow(s)
    <3>1. SiloTyped'
      BY <2>8, <1>t, AgainTyped DEF DeleteRow, SiloTyped
    <3>2. TasksTyped'
      BY <2>8, <1>c, <1>t, <1>k, CopyStepTyped DEF DeleteRow, TasksTyped
    <3>3. copy[s]["stop"] \in RowCopy /\ copy[s]["stop"].etag \in Nat
      BY <1>t, <1>k, CopyTyped DEF TasksTyped
    <3>4. TableTyped'
      BY <2>8, <3>3, <1>t, <1>q, TableStepTyped DEF DeleteRow
    <3> QED
      BY <3>1, <3>2, <3>4, <1>s
  <2>9. CASE StopWithoutTable(s)
    <3>1. SiloTyped'
      BY <2>9, <1>t DEF StopWithoutTable, SiloTyped
    <3>2. TasksTyped'
      BY <2>9, <1>c, <1>t, <1>k, CopyStepTyped DEF StopWithoutTable, TasksTyped
    <3> QED
      BY <2>9, <3>1, <3>2, <1>q, <1>s DEF StopWithoutTable
  <2>10. CASE Crash(s)
    <3>1. SiloTyped'
      BY <2>10, <1>t DEF Crash, SiloTyped, OccMaxRetries
    <3> QED
      BY <2>10, <3>1, <1>q, <1>s, EndTyped DEF Crash
  <2>11. CASE BeatRead(s)
    <3>1. TasksTyped'
      BY <2>11, <1>c, <1>t, <1>k, CopyStepTyped DEF BeatRead, TasksTyped
    <3> QED
      BY <2>11, <3>1, <1>q, <1>s DEF BeatRead
  <2>12. CASE BeatWrite(s)
    <3>1. TasksTyped'
      BY <2>12, <1>c, <1>t, <1>k, CopyStepTyped DEF BeatWrite, TasksTyped
    <3>2. copy[s]["beat"] \in RowCopy
      BY <1>t, <1>k, CopyTyped DEF TasksTyped
    <3>3. TableTyped'
      <4>1. CASE TryUpdate(s, copy[s]["beat"])
                   /\ fresh' = [fresh EXCEPT ![s] = @ \intersect copy[s]["beat"].votes]
        BY <4>1, <3>2, <1>t, UpdateTyped DEF TableTyped
      <4> QED
        BY <2>12, <4>1, <1>q DEF BeatWrite
    <3> QED
      BY <2>12, <3>1, <3>3, <1>q, <1>s DEF BeatWrite
  <2> QED
    BY <1>2, <2>1, <2>2, <2>3, <2>4, <2>5, <2>6, <2>7, <2>8, <2>9, <2>10, <2>11, <2>12
    DEF SiloStep
<1>3. ASSUME NEW s \in Silos, VoteStep(s) PROVE TypeOK'
  <2>0. /\ copy[s]["vote"] \in RowCopy /\ copy[s]["vote"].etag \in Nat
        /\ vpeer[s] \in Silos
    BY <1>t, <1>k, CopyTyped DEF TasksTyped
  <2>r. VoteRefused(s) /\ UNCHANGED <<lost, bpc, looping>> => TasksTyped'
    BY <1>t, EndTyped DEF VoteRefused, TasksTyped
  <2>1. CASE CycleStart(s)
    <3>1. TasksTyped'
      BY <2>1, <1>t DEF CycleStart, TasksTyped
    <3> QED
      BY <2>1, <3>1, <1>q, <1>s DEF CycleStart
  <2>2. CASE VoteRead(s)
    <3>1. CASE EndVote(s, TRUE) \/ EndVote(s, FALSE)
      <4>1. TasksTyped'
        BY <2>2, <3>1, <1>t, EndTyped DEF VoteRead, TasksTyped
      <4> QED
        BY <2>2, <4>1, <1>q, <1>s DEF VoteRead
    <3>2. CASE /\ Read(s, "vote", vpeer[s])
               /\ vpc' = [vpc EXCEPT ![s] = IF IsDeciding(s, vpeer[s]) THEN "ask" ELSE "add"]
               /\ UNCHANGED <<miss, vpeer, tries>>
      <4>1. copy' \in [Silos -> [Kinds -> RowCopy]]
        BY <3>2, <2>0, <1>k, CopyStepTyped
      <4>2. UNCHANGED <<lost, bpc, looping>>
        BY <2>2 DEF VoteRead
      <4>3. TasksTyped'
        BY <3>2, <4>1, <4>2, <1>t DEF TasksTyped
      <4> QED
        BY <2>2, <4>3, <1>q, <1>s DEF VoteRead
    <3> QED
      BY <2>2, <3>1, <3>2 DEF VoteRead
  <2>3. CASE VoteAsk(s)
    <3>1. TasksTyped'
      BY <2>3, <1>t DEF VoteAsk, TasksTyped
    <3> QED
      BY <2>3, <3>1, <1>q, <1>s DEF VoteAsk
  <2>4. CASE VoteAdd(s)
    <3>1. TasksTyped'
      BY <2>4, <2>r, <1>t, EndTyped DEF VoteAdd, TasksTyped
    <3>2. TableTyped'
      BY <2>4, <2>0, <1>t, <1>q, TableStepTyped DEF VoteAdd, VoteRefused
    <3> QED
      BY <2>4, <3>1, <3>2, <1>q, <1>s DEF VoteAdd
  <2>5. CASE VoteDeclare(s)
    <3>1. TasksTyped'
      BY <2>5, <2>r, <1>t, EndTyped DEF VoteDeclare, TasksTyped
    <3>2. TableTyped'
      <4> DEFINE row == [copy[s]["vote"] EXCEPT !.status = "dead", !.votes = @ \union {s}]
      <4>1. row \in RowCopy
        BY <2>0 DEF RowCopy, Statuses
      <4>2. CASE TryUpdate(vpeer[s], row) /\ fresh' = [fresh EXCEPT ![vpeer[s]] =
                     (@ \intersect copy[s]["vote"].votes) \union {s}]
        <5>1. fresh' \in [Silos -> SUBSET Silos]
          BY <4>2, <2>0, <1>t DEF TableTyped
        <5> QED
          BY <4>1, <4>2, <5>1, <2>0, <1>t, UpdateTyped
      <4> QED
        BY <2>5, <4>2, <1>q DEF VoteDeclare, VoteRefused
    <3> QED
      BY <2>5, <3>1, <3>2, <1>q, <1>s DEF VoteDeclare
  <2>6. CASE VoteUnavailable(s)
    <3>0. lost' \in [Silos -> SUBSET Silos]
      BY <2>6, <1>t DEF VoteUnavailable, TasksTyped
    <3>1. TasksTyped'
      BY <2>6, <3>0, <1>t, EndTyped DEF VoteUnavailable, TasksTyped
    <3> QED
      BY <2>6, <3>1, <1>q, <1>s DEF VoteUnavailable
  <2> QED
    BY <1>3, <2>1, <2>2, <2>3, <2>4, <2>5, <2>6 DEF VoteStep
<1>4. ASSUME NEW s \in Silos, NEW t \in Silos, PeerStep(s, t) PROVE TypeOK'
  <2>1. CASE ProbeMiss(s, t)
    <3>1. /\ miss' \in [Silos -> [Silos -> Nat]]
          /\ vpc' \in [Silos -> {"idle", "read", "ask", "add", "declare"}]
          /\ vpeer' \in [Silos -> Silos]
          /\ tries' \in [Silos -> 0..(MaxStaleRetry - 1)]
      <4>1. CASE miss[s][t] + 1 < MissLimit
        <5>1. miss' = [miss EXCEPT ![s][t] = @ + 1] /\ UNCHANGED <<vpc, vpeer, tries>>
          BY <2>1, <4>1 DEF ProbeMiss
        <5> QED
          BY <5>1, <1>t DEF TasksTyped
      <4>2. CASE ~(miss[s][t] + 1 < MissLimit)
        <5>1. /\ miss' = [miss EXCEPT ![s][t] = MissLimit - 1]
              /\ vpc' = [vpc EXCEPT ![s] = "read"]
              /\ vpeer' = [vpeer EXCEPT ![s] = t]
              /\ tries' = [tries EXCEPT ![s] = 0]
          BY <2>1, <4>2 DEF ProbeMiss
        <5>2. 0 \in 0..(MaxStaleRetry - 1) /\ MissLimit - 1 \in Nat
          BY MembershipAssumption DEF MaxStaleRetry
        <5> QED
          BY <5>1, <5>2, <1>t DEF TasksTyped
      <4> QED
        BY <4>1, <4>2
    <3>3. lost' \in [Silos -> SUBSET Silos] /\ UNCHANGED <<bpc, looping, copy>>
      BY <2>1, <1>t DEF ProbeMiss, TasksTyped
    <3>4. TasksTyped'
      BY <3>1, <3>3, <1>t DEF TasksTyped
    <3> QED
      BY <2>1, <3>4, <1>q, <1>s DEF ProbeMiss
  <2>2. CASE PeerDisconnect(s, t)
    <3>1. TasksTyped'
      BY <2>2, <1>t DEF PeerDisconnect, TasksTyped
    <3> QED
      BY <2>2, <3>1, <1>q, <1>s DEF PeerDisconnect
  <2>3. CASE Expire(s, t)
    <3>1. TableTyped'
      BY <2>3, <1>t DEF Expire, TableTyped
    <3> QED
      BY <2>3, <3>1, <1>q, <1>s DEF Expire
  <2> QED
    BY <1>4, <2>1, <2>2, <2>3 DEF PeerStep
<1> QED
  BY <1>1, <1>2, <1>3, <1>4 DEF Next

\* Every variable of the membership protocol stays in its type, and no write
\* loop of the failure detector or of stop() exceeds its number of attempts.
THEOREM MembershipTypeCorrect == Spec => []TypeOK
<1>1. Init => TypeOK
  BY DEF Init, TypeOK, RowCopy, Statuses, Kinds, MaxStaleRetry, OccMaxRetries
<1> QED
  BY <1>1, TypeStep, PTL DEF Spec

-----------------------------------------------------------------------------
(* Etags and copies.                                                       *)

\* Etags do not exceed the version, rows that exist have different ones, and a
\* copy with the etag of a row that exists is a copy of that row.
Etags ==
  /\ \A t \in Silos : etag[t] <= version /\ (status[t] # "absent" => etag[t] > 0)
  /\ \A t, u \in Silos : status[t] # "absent" /\ status[u] # "absent" /\ etag[t] = etag[u]
       => t = u
  /\ \A s \in Silos, k \in Kinds : copy[s][k].etag <= version

Matches(c, t) ==
  status[t] # "absent" /\ c.etag = etag[t] => c.status = status[t] /\ c.votes = votes[t]

Matching == \A s, t \in Silos, k \in Kinds : Matches(copy[s][k], t)

\* The copies a step may leave: each is the old one, none, or a row read now.
CopiesKept == \A s \in Silos, k \in Kinds : copy'[s][k] \in {copy[s][k], Blank}
CopiesRead == \A s \in Silos, k \in Kinds :
  copy'[s][k] \in {copy[s][k], Blank} \union {Row(t) : t \in {u \in Silos : status[u] # "absent"}}

\* Dropping or keeping copies only drops or keeps them; reading one is the rest.
LEMMA CopySteps ==
  ASSUME TypeOK, NEW s \in Silos, NEW k \in Kinds, NEW t \in Silos
  PROVE /\ UNCHANGED copy => CopiesKept
        /\ Drop(s, k) => CopiesKept
        /\ DropAll(s) => CopiesKept
        /\ status[t] # "absent" /\ Read(s, k, t) => CopiesRead
        /\ CopiesKept => CopiesRead
<1>1. copy \in [Silos -> [Kinds -> RowCopy]]
  BY DEF TypeOK
<1>2. UNCHANGED copy => CopiesKept
  BY DEF CopiesKept
<1>3. Drop(s, k) => CopiesKept
  BY <1>1 DEF Drop, CopiesKept
<1>4. DropAll(s) => CopiesKept
  BY <1>1 DEF DropAll, CopiesKept
<1>5. status[t] # "absent" /\ Read(s, k, t) => CopiesRead
  BY <1>1 DEF Read, CopiesRead
<1>6. CopiesKept => CopiesRead
  BY DEF CopiesKept, CopiesRead
<1> QED
  BY <1>2, <1>3, <1>4, <1>5, <1>6

\* A step that writes no row preserves both, whatever it reads.
LEMMA QuietTable ==
  ASSUME TypeOK, Etags, Matching, CopiesRead, UNCHANGED <<version, status, etag, votes>>
  PROVE Etags' /\ Matching'
<1>1. ASSUME NEW s \in Silos, NEW k \in Kinds
      PROVE /\ copy'[s][k].etag <= version
            /\ \A t \in Silos : Matches(copy'[s][k], t)
  <2>1. CASE copy'[s][k] = copy[s][k]
    BY <2>1 DEF Etags, Matching
  <2>2. CASE copy'[s][k] = Blank
    BY <2>2 DEF Blank, Etags, Matches, TypeOK
  <2>3. ASSUME NEW u \in Silos, status[u] # "absent", copy'[s][k] = Row(u)
        PROVE /\ copy'[s][k].etag <= version
              /\ \A t \in Silos : Matches(copy'[s][k], t)
    <3>1. /\ copy'[s][k].etag = etag[u] /\ copy'[s][k].status = status[u]
          /\ copy'[s][k].votes = votes[u]
      BY <2>3 DEF Row
    <3>2. ASSUME NEW t \in Silos, status[t] # "absent", etag[u] = etag[t], t # u
          PROVE FALSE
      BY <2>3, <3>2 DEF Etags
    <3> QED
      BY <3>1, <3>2 DEF Etags, Matches
  <2> QED
    BY <2>1, <2>2, <2>3 DEF CopiesRead
<1>2. Etags'
  BY <1>1 DEF Etags
<1>3. Matching'
  BY <1>1 DEF Matching, Matches
<1> QED
  BY <1>2, <1>3

\* A step that writes the row of t gives it an etag no copy has.
RowWritten(t) ==
  /\ version' = version + 1
  /\ \A u \in Silos \ {t} : status'[u] = status[u] /\ votes'[u] = votes[u]
  /\ etag' = [etag EXCEPT ![t] = version + 1]

\* One that removes it leaves the other rows alone.
RowRemoved(t) ==
  /\ version' = version + 1
  /\ \A u \in Silos \ {t} : status'[u] = status[u] /\ votes'[u] = votes[u]
  /\ etag' = etag
  /\ status'[t] = "absent"

\* A row that is written or removed leaves every copy with a current etag exact.
LEMMA WrittenTable ==
  ASSUME TypeOK, Etags, Matching, CopiesKept, NEW t \in Silos, RowWritten(t) \/ RowRemoved(t)
  PROVE Etags' /\ Matching'
<1>0. /\ version \in Nat /\ version' = version + 1
      /\ \A u \in Silos : etag[u] \in Nat /\ etag[u] <= version
      /\ \A s \in Silos, k \in Kinds : copy[s][k].etag \in Nat /\ copy[s][k].etag <= version
  BY CopyTyped DEF TypeOK, Etags, RowWritten, RowRemoved
<1>1. \A u \in Silos \ {t} : etag'[u] = etag[u] /\ status'[u] = status[u] /\ votes'[u] = votes[u]
  BY DEF RowWritten, RowRemoved, TypeOK
<1>2. etag'[t] = version + 1 \/ (etag'[t] = etag[t] /\ status'[t] = "absent")
  BY DEF RowWritten, RowRemoved, TypeOK
<1>3. \A s \in Silos, k \in Kinds :
        /\ copy'[s][k].etag \in Nat /\ copy'[s][k].etag <= version
        /\ copy'[s][k].etag = 0 \/ copy'[s][k] = copy[s][k]
  BY <1>0 DEF CopiesKept, Blank
<1>4. Etags'
  <2>1. ASSUME NEW u \in Silos
        PROVE etag'[u] <= version' /\ (status'[u] # "absent" => etag'[u] > 0)
    BY <1>0, <1>1, <1>2 DEF Etags
  <2>2. ASSUME NEW u \in Silos, NEW v \in Silos, status'[u] # "absent", status'[v] # "absent",
               etag'[u] = etag'[v]
        PROVE u = v
    <3>1. CASE u # t /\ v # t
      BY <3>1, <2>2, <1>1 DEF Etags
    <3>2. CASE u = t \/ v = t
      BY <3>2, <2>2, <1>0, <1>1, <1>2
    <3> QED
      BY <3>1, <3>2
  <2>3. \A s \in Silos, k \in Kinds : copy'[s][k].etag <= version'
    BY <1>0, <1>3
  <2> QED
    BY <2>1, <2>2, <2>3 DEF Etags
<1>5. Matching'
  <2>1. ASSUME NEW s \in Silos, NEW u \in Silos, NEW k \in Kinds,
               status'[u] # "absent", copy'[s][k].etag = etag'[u]
        PROVE copy'[s][k].status = status'[u] /\ copy'[s][k].votes = votes'[u]
    <3>1. u # t
      BY <2>1, <1>0, <1>2, <1>3
    <3>2. status[u] # "absent" /\ etag'[u] = etag[u]
      BY <2>1, <3>1, <1>1
    <3>3. copy'[s][k] = copy[s][k]
      BY <2>1, <3>2, <1>0, <1>3 DEF Etags
    <3> QED
      BY <2>1, <3>1, <3>2, <3>3, <1>1 DEF Matching, Matches
  <2> QED
    BY <2>1 DEF Matching, Matches
<1> QED
  BY <1>4, <1>5

\* The provider's primitives write or remove one row.
LEMMA Primitives ==
  ASSUME TypeOK, NEW t \in Silos
  PROVE /\ \A row : TryUpdate(t, row) => RowWritten(t)
        /\ TryCreate(t) => RowWritten(t)
        /\ \A s, e : TryAddSuspicion(t, s, e) => RowWritten(t)
        /\ \A e : TryDelete(t, e) => RowRemoved(t)
<1> USE DEF TypeOK
<1>1. \A row : TryUpdate(t, row) => RowWritten(t)
  BY DEF TryUpdate, RowWritten
<1>2. TryCreate(t) => RowWritten(t)
  BY DEF TryCreate, RowWritten
<1>3. \A s, e : TryAddSuspicion(t, s, e) => RowWritten(t)
  BY DEF TryAddSuspicion, RowWritten
<1>4. \A e : TryDelete(t, e) => RowRemoved(t)
  BY DEF TryDelete, RowRemoved
<1> QED
  BY <1>1, <1>2, <1>3, <1>4

-----------------------------------------------------------------------------
(* The kinds of steps, and the quorum.                                     *)

\* The unexpired votes are votes.
FreshVotes == \A t \in Silos : fresh[t] \subseteq votes[t]

\* A silo about to declare has read enough votes.
Deciding ==
  \A s \in Silos : vpc[s] \in {"ask", "declare"} =>
    Cardinality(copy[s]["vote"].votes \union {s}) >= NumVotes

QuorumInv == TypeOK /\ Etags /\ Matching /\ FreshVotes /\ Deciding /\ DeadHasQuorum

\* A step that leaves the rows alone (votes may expire).
QuietStep ==
  /\ UNCHANGED <<version, status, etag, votes>>
  /\ CopiesRead
  /\ \A t \in Silos : fresh'[t] \subseteq fresh[t]

\* A step that writes the row of t: the votes of a row that existed are kept,
\* DEAD or SHUTTING_DOWN does not become ACTIVE, DEAD is undone only by the
\* silo's own stop(), and a row that becomes DEAD has the votes.
WriteStep(t) ==
  /\ RowWritten(t)
  /\ CopiesKept
  /\ \A u \in Silos \ {t} : fresh'[u] = fresh[u]
  /\ fresh'[t] \subseteq votes'[t]
  /\ status[t] # "absent" => votes[t] \subseteq votes'[t]
  /\ status[t] \in {"dead", "shutting_down"} => status'[t] # "active"
  /\ status[t] = "dead" /\ spc[t] \notin {"read_status", "write_status"} => status'[t] = "dead"
  /\ status'[t] = "dead" => status[t] = "dead" \/ Cardinality(votes'[t]) >= NumVotes

\* A step that removes the row of t.
RemoveStep(t) ==
  /\ RowRemoved(t)
  /\ CopiesKept
  /\ \A u \in Silos \ {t} : fresh'[u] = fresh[u]
  /\ fresh'[t] = {}

\* Every step is of one of these kinds.
LEMMA StepKinds ==
  ASSUME QuorumInv, [Next]_vars
  PROVE QuietStep \/ \E t \in Silos : WriteStep(t) \/ RemoveStep(t)
<1>k. "vote" \in Kinds /\ "beat" \in Kinds /\ "stop" \in Kinds
  BY DEF Kinds
<1>i. TypeOK /\ Matching /\ FreshVotes /\ Deciding
  BY DEF QuorumInv
<1>t. /\ fresh \in [Silos -> SUBSET Silos] /\ votes \in [Silos -> SUBSET Silos]
      /\ status \in [Silos -> Statuses] /\ vpeer \in [Silos -> Silos]
  BY <1>i DEF TypeOK
<1>q. UNCHANGED table /\ CopiesRead => QuietStep
  BY DEF table, QuietStep
<1>u. UNCHANGED copy => CopiesRead
  BY DEF CopiesRead
<1>1. CASE UNCHANGED vars
  BY <1>1, <1>q, <1>u DEF vars
<1>2. ASSUME NEW s \in Silos, SiloStep(s)
      PROVE QuietStep \/ \E t \in Silos : WriteStep(t) \/ RemoveStep(t)
  <2>d. \A k \in Kinds : Drop(s, k) => CopiesKept /\ CopiesRead
    BY <1>i, CopySteps
  <2>1. CASE Register(s)
    <3>1. RowWritten(s) /\ CopiesKept
      BY <2>1, <1>i, <1>k, Primitives, CopySteps DEF Register
    <3>2. /\ status[s] = "absent" /\ status'[s] = "active"
          /\ fresh' = [fresh EXCEPT ![s] = {}]
      BY <2>1, <1>t DEF Register, TryCreate
    <3>3. WriteStep(s)
      BY <3>1, <3>2, <1>t DEF WriteStep
    <3> QED
      BY <3>3
  <2>2. CASE StopRequest(s)
    BY <2>2, <1>q, <1>u DEF StopRequest
  <2>3. CASE SelfTerminate(s)
    BY <2>3, <1>q, <1>u DEF SelfTerminate
  <2>4. CASE ReadStatus(s)
    BY <2>4, <1>q, <1>u, <1>i, <1>k, CopySteps DEF ReadStatus
  <2>5. CASE WriteStatus(s)
    <3> DEFINE row == [copy[s]["stop"] EXCEPT !.status = "shutting_down"]
    <3>1. CopiesKept /\ CopiesRead
      BY <2>5, <2>d, <1>k DEF WriteStatus
    <3>2. CASE UNCHANGED table
      BY <3>1, <3>2, <1>q
    <3>3. CASE TryUpdate(s, row)
                 /\ fresh' = [fresh EXCEPT ![s] = @ \intersect copy[s]["stop"].votes]
      <4>1. /\ row.etag = copy[s]["stop"].etag /\ row.votes = copy[s]["stop"].votes
            /\ row.status = "shutting_down"
        <5>1. copy[s]["stop"] \in RowCopy
          BY <1>i, <1>k, CopyTyped DEF TypeOK
        <5> QED
          BY <5>1 DEF RowCopy
      <4>2. /\ votes'[s] = votes[s] /\ status'[s] = "shutting_down"
            /\ copy[s]["stop"].votes = votes[s]
        <5>1. /\ status[s] # "absent" /\ etag[s] = row.etag
              /\ status' = [status EXCEPT ![s] = row.status]
              /\ votes' = [votes EXCEPT ![s] = row.votes]
          BY <3>3 DEF TryUpdate
        <5>2. Matches(copy[s]["stop"], s)
          BY <1>i, <1>k DEF Matching
        <5> HIDE DEF row
        <5> QED
          BY <4>1, <5>1, <5>2, <1>t DEF Matches
      <4>3. RowWritten(s)
        BY <3>3, <1>i, Primitives
      <4>4. spc[s] = "write_status"
        BY <2>5 DEF WriteStatus
      <4>5. WriteStep(s)
        BY <3>1, <3>3, <4>2, <4>3, <4>4, <1>t DEF WriteStep
      <4> QED
        BY <4>5
    <3> QED
      BY <2>5, <3>2, <3>3 DEF WriteStatus
  <2>6. CASE StopAgent(s)
    BY <2>6, <1>q, <1>i, <1>k, CopySteps DEF StopAgent, EndTasks
  <2>7. CASE ReadRow(s)
    BY <2>7, <1>q, <1>u, <1>i, <1>k, CopySteps DEF ReadRow
  <2>8. CASE DeleteRow(s)
    <3>1. CopiesKept /\ CopiesRead
      BY <2>8, <2>d, <1>k DEF DeleteRow
    <3>2. CASE UNCHANGED table
      BY <3>1, <3>2, <1>q
    <3>3. CASE TryDelete(s, copy[s]["stop"].etag)
      <4>1. RowRemoved(s)
        BY <3>3, <1>i, Primitives
      <4>2. fresh' = [fresh EXCEPT ![s] = {}]
        BY <3>3 DEF TryDelete
      <4>3. RemoveStep(s)
        BY <3>1, <4>1, <4>2, <1>t DEF RemoveStep
      <4> QED
        BY <4>3
    <3> QED
      BY <2>8, <3>2, <3>3 DEF DeleteRow
  <2>9. CASE StopWithoutTable(s)
    BY <2>9, <2>d, <1>q, <1>k DEF StopWithoutTable
  <2>10. CASE Crash(s)
    BY <2>10, <1>q, <1>i, <1>k, CopySteps DEF Crash, EndTasks
  <2>11. CASE BeatRead(s)
    BY <2>11, <1>q, <1>i, <1>k, CopySteps DEF BeatRead
  <2>12. CASE BeatWrite(s)
    <3>1. CopiesKept /\ CopiesRead
      BY <2>12, <2>d, <1>k DEF BeatWrite
    <3>2. CASE UNCHANGED table
      BY <3>1, <3>2, <1>q
    <3>3. CASE TryUpdate(s, copy[s]["beat"])
                 /\ fresh' = [fresh EXCEPT ![s] = @ \intersect copy[s]["beat"].votes]
      <4>1. /\ votes'[s] = votes[s] /\ status'[s] = status[s]
            /\ copy[s]["beat"].votes = votes[s]
        <5>1. /\ status[s] # "absent" /\ etag[s] = copy[s]["beat"].etag
              /\ status' = [status EXCEPT ![s] = copy[s]["beat"].status]
              /\ votes' = [votes EXCEPT ![s] = copy[s]["beat"].votes]
          BY <3>3 DEF TryUpdate
        <5>2. Matches(copy[s]["beat"], s)
          BY <1>i, <1>k DEF Matching
        <5> QED
          BY <5>1, <5>2, <1>t DEF Matches
      <4>2. RowWritten(s)
        BY <3>3, <1>i, Primitives
      <4>3. WriteStep(s)
        BY <3>1, <3>3, <4>1, <4>2, <1>t DEF WriteStep
      <4> QED
        BY <4>3
    <3> QED
      BY <2>12, <3>2, <3>3 DEF BeatWrite
  <2> QED
    BY <1>2, <2>1, <2>2, <2>3, <2>4, <2>5, <2>6, <2>7, <2>8, <2>9, <2>10, <2>11, <2>12
    DEF SiloStep
<1>3. ASSUME NEW s \in Silos, VoteStep(s)
      PROVE QuietStep \/ \E t \in Silos : WriteStep(t) \/ RemoveStep(t)
  <2>0. vpeer[s] \in Silos
    BY <1>t
  <2>e. \A c \in BOOLEAN : EndVote(s, c) => CopiesKept /\ CopiesRead
    BY <1>i, <1>k, CopySteps DEF EndVote
  <2>r. VoteRefused(s) => QuietStep
    BY <2>e, <1>q, <1>i, <1>k, CopySteps DEF VoteRefused, VoteRetry
  <2>1. CASE CycleStart(s)
    BY <2>1, <1>q, <1>u DEF CycleStart
  <2>2. CASE VoteRead(s)
    <3>1. CopiesRead
      BY <2>2, <2>0, <2>e, <1>i, <1>k, CopySteps DEF VoteRead
    <3> QED
      BY <2>2, <3>1, <1>q DEF VoteRead
  <2>3. CASE VoteAsk(s)
    BY <2>3, <1>q, <1>u DEF VoteAsk
  <2>4. CASE VoteAdd(s)
    <3>1. CASE TryAddSuspicion(vpeer[s], s, copy[s]["vote"].etag) /\ EndVote(s, FALSE)
      <4> DEFINE t == vpeer[s]
      <4>1. RowWritten(t) /\ CopiesKept
        BY <3>1, <2>0, <2>e, <1>i, Primitives
      <4>2. /\ votes' = [votes EXCEPT ![t] = @ \union {s}]
            /\ fresh' = [fresh EXCEPT ![t] = @ \union {s}]
            /\ status' = status
        BY <3>1 DEF TryAddSuspicion
      <4>3. /\ votes'[t] = votes[t] \union {s} /\ fresh'[t] = fresh[t] \union {s}
            /\ \A u \in Silos \ {t} : fresh'[u] = fresh[u]
        BY <4>2, <2>0, <1>t
      <4>4. fresh[t] \subseteq votes[t]
        BY <2>0, <1>i DEF FreshVotes
      <4>5. WriteStep(t)
        BY <4>1, <4>2, <4>3, <4>4 DEF WriteStep
      <4> QED
        BY <4>5, <2>0
    <3> QED
      BY <2>4, <3>1, <2>r DEF VoteAdd
  <2>5. CASE VoteDeclare(s)
    <3> DEFINE t == vpeer[s]
               row == copy[s]["vote"]
               new == [row EXCEPT !.status = "dead", !.votes = @ \union {s}]
    <3>1. CASE TryUpdate(t, new) /\ EndVote(s, FALSE)
                 /\ fresh' = [fresh EXCEPT ![t] = (@ \intersect row.votes) \union {s}]
      <4>1. /\ new.etag = row.etag /\ new.votes = row.votes \union {s}
            /\ new.status = "dead"
        <5>1. row \in RowCopy
          BY <1>i, <1>k, CopyTyped DEF TypeOK
        <5> QED
          BY <5>1 DEF RowCopy
      <4>2. /\ votes'[t] = row.votes \union {s} /\ status'[t] = "dead" /\ row.votes = votes[t]
        <5>1. /\ status[t] # "absent" /\ etag[t] = new.etag
              /\ status' = [status EXCEPT ![t] = new.status]
              /\ votes' = [votes EXCEPT ![t] = new.votes]
          BY <3>1 DEF TryUpdate
        <5>2. Matches(row, t)
          BY <2>0, <1>i, <1>k DEF Matching
        <5> HIDE DEF new
        <5> QED
          BY <4>1, <5>1, <5>2, <2>0, <1>t DEF Matches
      <4>3. RowWritten(t) /\ CopiesKept
        BY <3>1, <2>0, <2>e, <1>i, Primitives
      <4>4. Cardinality(row.votes \union {s}) >= NumVotes
        BY <2>5, <1>i DEF VoteDeclare, Deciding
      <4>5. /\ fresh'[t] \subseteq votes'[t]
            /\ \A u \in Silos \ {t} : fresh'[u] = fresh[u]
        BY <3>1, <4>2, <2>0, <1>t
      <4>6. WriteStep(t)
        BY <4>2, <4>3, <4>4, <4>5 DEF WriteStep
      <4> QED
        BY <4>6, <2>0
    <3> QED
      BY <2>5, <3>1, <2>r DEF VoteDeclare
  <2>6. CASE VoteUnavailable(s)
    BY <2>6, <2>e, <1>q DEF VoteUnavailable
  <2> QED
    BY <1>3, <2>1, <2>2, <2>3, <2>4, <2>5, <2>6 DEF VoteStep
<1>4. ASSUME NEW s \in Silos, NEW t \in Silos, PeerStep(s, t) PROVE QuietStep
  <2>1. CASE ProbeMiss(s, t)
    BY <2>1, <1>q, <1>u DEF ProbeMiss
  <2>2. CASE PeerDisconnect(s, t)
    BY <2>2, <1>q, <1>u DEF PeerDisconnect
  <2>3. CASE Expire(s, t)
    BY <2>3, <1>u, <1>t DEF Expire, QuietStep
  <2> QED
    BY <1>4, <2>1, <2>2, <2>3 DEF PeerStep
<1> QED
  BY <1>1, <1>2, <1>3, <1>4 DEF Next

\* Sets of silos are finite, and more votes are not fewer.
LEMMA MoreVotes ==
  ASSUME NEW A \in SUBSET Silos, NEW B \in SUBSET Silos, A \subseteq B,
         Cardinality(A) >= NumVotes
  PROVE Cardinality(B) >= NumVotes
<1>1. IsFiniteSet(B)
  BY FS_Subset, MembershipAssumption
<1>2. IsFiniteSet(A) /\ Cardinality(A) <= Cardinality(B)
  BY <1>1, FS_Subset
<1>3. Cardinality(A) \in Nat /\ Cardinality(B) \in Nat
  BY <1>1, <1>2, FS_CardinalityType
<1> QED
  BY <1>2, <1>3, MembershipAssumption

\* Only the step that reads a deciding row makes a silo a decider, and until it
\* declares nothing touches its copy.
LEMMA DecidingStep ==
  ASSUME QuorumInv, [Next]_vars
  PROVE Deciding'
<1>k. "vote" \in Kinds /\ "beat" # "vote" /\ "stop" # "vote" /\ "beat" \in Kinds /\ "stop" \in Kinds
  BY DEF Kinds
<1>i. Deciding /\ FreshVotes
  BY DEF QuorumInv
<1>t. /\ copy \in [Silos -> [Kinds -> RowCopy]]
      /\ vpc \in [Silos -> {"idle", "read", "ask", "add", "declare"}]
      /\ vpeer \in [Silos -> Silos]
      /\ votes \in [Silos -> SUBSET Silos] /\ fresh \in [Silos -> SUBSET Silos]
  BY DEF QuorumInv, TypeOK
\* The silos whose probe loop the step leaves alone.
<1> DEFINE Same(u) == vpc'[u] = vpc[u] /\ copy'[u]["vote"] = copy[u]["vote"]
           Out(u) == vpc'[u] \notin {"ask", "declare"}
<1>s. (\A u \in Silos : Same(u) \/ Out(u)) => Deciding'
  BY <1>i DEF Deciding
<1>1. CASE UNCHANGED vars
  BY <1>1, <1>s DEF vars, probe
<1>2. ASSUME NEW s \in Silos, SiloStep(s) PROVE Deciding'
  <2>1. CASE \/ Register(s) \/ StopRequest(s) \/ SelfTerminate(s)
    BY <2>1, <1>s DEF Register, StopRequest, SelfTerminate, probe
  <2>2. CASE \/ ReadStatus(s) \/ WriteStatus(s) \/ ReadRow(s) \/ DeleteRow(s)
             \/ StopWithoutTable(s) \/ BeatRead(s) \/ BeatWrite(s)
    <3>1. UNCHANGED vpc
      BY <2>2 DEF ReadStatus, WriteStatus, ReadRow, DeleteRow, StopWithoutTable, BeatRead,
                  BeatWrite, probe
    <3>2. UNCHANGED copy \/ \E k \in {"beat", "stop"} : Read(s, k, s) \/ Drop(s, k)
      BY <2>2 DEF ReadStatus, WriteStatus, ReadRow, DeleteRow, StopWithoutTable, BeatRead,
                  BeatWrite
    <3>3. \A u \in Silos : copy'[u]["vote"] = copy[u]["vote"]
      <4>1. ASSUME NEW k \in {"beat", "stop"}, Read(s, k, s) \/ Drop(s, k)
            PROVE \A u \in Silos : copy'[u]["vote"] = copy[u]["vote"]
        <5>1. PICK c : copy' = [copy EXCEPT ![s][k] = c]
          BY <4>1 DEF Read, Drop
        <5>2. k # "vote" /\ k \in Kinds
          BY <1>k
        <5> QED
          BY <5>1, <5>2, <1>k, <1>t
      <4> QED
        BY <3>2, <4>1
    <3> QED
      BY <3>1, <3>3, <1>s
  <2>3. CASE StopAgent(s) \/ Crash(s)
    <3>1. vpc' = [vpc EXCEPT ![s] = "idle"] /\ DropAll(s)
      BY <2>3 DEF StopAgent, Crash, EndTasks
    <3>2. \A u \in Silos : Same(u) \/ Out(u)
      BY <3>1, <1>t DEF DropAll
    <3> QED
      BY <3>2, <1>s
  <2> QED
    BY <1>2, <2>1, <2>2, <2>3 DEF SiloStep
<1>3. ASSUME NEW s \in Silos, VoteStep(s) PROVE Deciding'
  <2>e. ASSUME NEW c \in BOOLEAN, EndVote(s, c) PROVE Deciding'
    <3>1. vpc' = [vpc EXCEPT ![s] = "idle"] /\ Drop(s, "vote")
      BY <2>e DEF EndVote
    <3>2. \A u \in Silos : Same(u) \/ Out(u)
      BY <3>1, <1>t DEF Drop
    <3> QED
      BY <3>2, <1>s
  <2>r. VoteRefused(s) => Deciding'
    <3>1. ASSUME vpc' = [vpc EXCEPT ![s] = "read"], Drop(s, "vote") PROVE Deciding'
      <4>1. \A u \in Silos : Same(u) \/ Out(u)
        BY <3>1, <1>t DEF Drop
      <4> QED
        BY <4>1, <1>s
    <3> QED
      BY <3>1, <2>e DEF VoteRefused, VoteRetry
  <2>1. CASE CycleStart(s)
    BY <2>1, <1>s DEF CycleStart
  <2>2. CASE VoteRead(s)
    <3> DEFINE t == vpeer[s]
    <3>1. CASE EndVote(s, TRUE) \/ EndVote(s, FALSE)
      BY <3>1, <2>e
    <3>2. CASE /\ Read(s, "vote", t)
               /\ vpc' = [vpc EXCEPT ![s] = IF IsDeciding(s, t) THEN "ask" ELSE "add"]
      <4>1. \A u \in Silos \ {s} : Same(u)
        BY <3>2, <1>t DEF Read
      <4>2. copy'[s]["vote"].votes = votes[t] /\ t \in Silos
        BY <3>2, <1>k, <1>t DEF Read, Row
      <4>3. vpc'[s] \in {"ask", "declare"} => IsDeciding(s, t)
        BY <3>2, <1>t
      <4>4. IsDeciding(s, t) => Cardinality(votes[t] \union {s}) >= NumVotes
        <5>1. /\ fresh[t] \union {s} \in SUBSET Silos /\ votes[t] \union {s} \in SUBSET Silos
              /\ fresh[t] \union {s} \subseteq votes[t] \union {s}
          BY <4>2, <1>i, <1>t DEF FreshVotes
        <5> QED
          BY <5>1, MoreVotes DEF IsDeciding
      <4> QED
        BY <4>1, <4>2, <4>3, <4>4, <1>i DEF Deciding
    <3> QED
      BY <2>2, <3>1, <3>2 DEF VoteRead
  <2>3. CASE VoteAsk(s)
    <3>1. /\ vpc[s] = "ask" /\ copy' = copy
          /\ \A u \in Silos \ {s} : vpc'[u] = vpc[u]
      BY <2>3, <1>t DEF VoteAsk
    <3> QED
      BY <3>1, <1>i DEF Deciding
  <2>4. CASE VoteAdd(s)
    BY <2>4, <2>e, <2>r DEF VoteAdd
  <2>5. CASE VoteDeclare(s)
    BY <2>5, <2>e, <2>r DEF VoteDeclare
  <2>6. CASE VoteUnavailable(s)
    BY <2>6, <2>e DEF VoteUnavailable
  <2> QED
    BY <1>3, <2>1, <2>2, <2>3, <2>4, <2>5, <2>6 DEF VoteStep
<1>4. ASSUME NEW s \in Silos, NEW t \in Silos, PeerStep(s, t) PROVE Deciding'
  <2>1. CASE ProbeMiss(s, t)
    <3>1. copy' = copy /\ (vpc' = vpc \/ vpc' = [vpc EXCEPT ![s] = "read"])
      BY <2>1 DEF ProbeMiss
    <3>2. \A u \in Silos : Same(u) \/ Out(u)
      BY <3>1, <1>t
    <3> QED
      BY <3>2, <1>s
  <2>2. CASE PeerDisconnect(s, t)
    BY <2>2, <1>s DEF PeerDisconnect
  <2>3. CASE Expire(s, t)
    BY <2>3, <1>s DEF Expire, probe
  <2> QED
    BY <1>4, <2>1, <2>2, <2>3 DEF PeerStep
<1> QED
  BY <1>1, <1>2, <1>3, <1>4 DEF Next

\* Every step keeps the invariant.
LEMMA QuorumStep == QuorumInv /\ [Next]_vars => QuorumInv'
<1> SUFFICES ASSUME QuorumInv, [Next]_vars PROVE QuorumInv'
  OBVIOUS
<1>i. TypeOK /\ Etags /\ Matching /\ FreshVotes /\ DeadHasQuorum
  BY DEF QuorumInv
<1>t. /\ TypeOK' /\ Deciding'
  BY <1>i, TypeStep, DecidingStep
<1>1. CASE QuietStep
  <2>1. Etags' /\ Matching'
    BY <1>1, <1>i, QuietTable DEF QuietStep
  <2>2. FreshVotes' /\ DeadHasQuorum'
    BY <1>1, <1>i DEF QuietStep, FreshVotes, DeadHasQuorum
  <2> QED
    BY <2>1, <2>2, <1>t DEF QuorumInv
<1>2. ASSUME NEW t \in Silos, WriteStep(t) PROVE QuorumInv'
  <2>1. Etags' /\ Matching'
    BY <1>2, <1>i, WrittenTable DEF WriteStep
  <2>2. \A u \in Silos \ {t} :
          status'[u] = status[u] /\ votes'[u] = votes[u] /\ fresh'[u] = fresh[u]
    BY <1>2 DEF WriteStep, RowWritten
  <2>3. FreshVotes'
    BY <1>2, <2>2, <1>i DEF WriteStep, FreshVotes
  <2>4. status'[t] = "dead" => Cardinality(votes'[t]) >= NumVotes
    <3>1. CASE status[t] = "dead"
      <4>1. votes[t] \subseteq votes'[t] /\ Cardinality(votes[t]) >= NumVotes
        BY <1>2, <3>1, <1>i DEF WriteStep, DeadHasQuorum
      <4>2. votes[t] \in SUBSET Silos /\ votes'[t] \in SUBSET Silos
        BY <1>i, <1>t DEF TypeOK
      <4> QED
        BY <4>1, <4>2, MoreVotes
    <3> QED
      BY <1>2, <3>1 DEF WriteStep
  <2>5. DeadHasQuorum'
    BY <2>2, <2>4, <1>i DEF DeadHasQuorum
  <2> QED
    BY <2>1, <2>3, <2>5, <1>t DEF QuorumInv
<1>3. ASSUME NEW t \in Silos, RemoveStep(t) PROVE QuorumInv'
  <2>1. Etags' /\ Matching'
    BY <1>3, <1>i, WrittenTable DEF RemoveStep
  <2>2. FreshVotes' /\ DeadHasQuorum'
    BY <1>3, <1>i DEF RemoveStep, RowRemoved, FreshVotes, DeadHasQuorum
  <2> QED
    BY <2>1, <2>2, <1>t DEF QuorumInv
<1> QED
  BY <1>1, <1>2, <1>3, StepKinds

\* It holds of the initial states.
LEMMA QuorumInit == Init => QuorumInv
<1> SUFFICES ASSUME Init PROVE QuorumInv
  OBVIOUS
<1>1. TypeOK
  BY DEF Init, TypeOK, RowCopy, Statuses, Kinds, MaxStaleRetry, OccMaxRetries
<1>2. Etags /\ Matching
  BY DEF Init, Etags, Matching, Matches
<1>3. FreshVotes /\ Deciding /\ DeadHasQuorum
  BY DEF Init, FreshVotes, Deciding, DeadHasQuorum
<1> QED
  BY <1>1, <1>2, <1>3 DEF QuorumInv

\* However votes, heartbeats, stops, retries and crashes interleave, a row is
\* DEAD only with the votes of NumVotes distinct silos in it.
THEOREM DeclaredByQuorum == Spec => []DeadHasQuorum
<1>1. QuorumInv => DeadHasQuorum
  BY DEF QuorumInv
<1> QED
  BY <1>1, QuorumInit, QuorumStep, PTL DEF Spec

\* No write of the table loses a vote of a row that stays.
THEOREM VotesAreKept == Spec => VotesKept
<1>1. ASSUME QuorumInv, [Next]_vars
      PROVE \A t \in Silos : (status[t] # "absent" /\ status'[t] # "absent") =>
              votes[t] \subseteq votes'[t]
  <2>1. CASE QuietStep
    BY <2>1 DEF QuietStep
  <2>2. ASSUME NEW u \in Silos, WriteStep(u) \/ RemoveStep(u)
        PROVE \A t \in Silos : (status[t] # "absent" /\ status'[t] # "absent") =>
                votes[t] \subseteq votes'[t]
    BY <2>2 DEF WriteStep, RemoveStep, RowWritten, RowRemoved
  <2> QED
    BY <1>1, <2>1, <2>2, StepKinds
<1> QED
  BY <1>1, QuorumInit, QuorumStep, PTL DEF Spec, VotesKept

\* A row that left ACTIVE does not return to it, and DEAD is undone only by
\* the declared silo's own shutdown.
THEOREM DeadStaysDown == Spec => NeverResurrected
<1> DEFINE Down(t) ==
      /\ status[t] \in {"dead", "shutting_down"} => status'[t] # "active"
      /\ status[t] = "dead" /\ spc[t] \notin {"read_status", "write_status"} =>
           status'[t] \in {"dead", "absent"}
<1>1. ASSUME QuorumInv, [Next]_vars
      PROVE \A t \in Silos : Down(t)
  <2>1. CASE QuietStep
    BY <2>1 DEF QuietStep
  <2>2. ASSUME NEW u \in Silos, WriteStep(u) \/ RemoveStep(u)
        PROVE \A t \in Silos : Down(t)
    BY <2>2 DEF WriteStep, RemoveStep, RowWritten, RowRemoved
  <2> QED
    BY <1>1, <2>1, <2>2, StepKinds
<1> QED
  BY <1>1, QuorumInit, QuorumStep, PTL DEF Spec, NeverResurrected
=============================================================================
