----------------------------- MODULE Membership -----------------------------
(***************************************************************************)
(* The membership table and the silos that write it: registration, the     *)
(* i_am_alive heartbeat, the probe loop with its death votes, shutdown     *)
(* (cluster/failure_detector.py, cluster/membership_agent.py, server/      *)
(* silo.py over the optimistic-concurrency primitives of providers/        *)
(* membership.py as server/providers/yaml_membership.py implements them).  *)
(*                                                                         *)
(* A table operation is atomic (the provider holds the file lock for the   *)
(* whole of it); what a task does between two of them is not, so each      *)
(* read-modify-write is a read step, which keeps a copy of the row, and a  *)
(* later write step guarded by the copy's etag.  An etag hashes the row    *)
(* with the table version of its write and is represented by that version. *)
(* The suspicion list of a row is abstracted to the set of its voters and  *)
(* the subset whose vote has not expired; clocks are taken to agree.       *)
(* A silo that restarts has a new epoch and so is another element of       *)
(* Silos.  Snapshot broadcasts, which write no row, are left out.          *)
(***************************************************************************)
EXTENDS Naturals, FiniteSets

CONSTANTS
  Silos,         \* silo ids (host, port, epoch)
  Mortal,        \* the silos that may crash or be told to stop
  NumVotes,      \* num_votes_for_death_declaration
  MissLimit,     \* num_missed_probes_limit
  VotesExpire,   \* TRUE iff death_vote_expiration may elapse
  TableFails,    \* TRUE iff the table may be unavailable
  Flaky,         \* the silos a probe may miss while they run
  Beaters,       \* the silos whose heartbeats are modelled
  MaxVersion,    \* bound on the table version
  BeatVersion    \* bound on the table version a heartbeat may produce

\* _MAX_STALE_RETRY and _OCC_MAX_RETRIES
MaxStaleRetry == 3
OccMaxRetries == 5

ASSUME MembershipAssumption ==
  /\ IsFiniteSet(Silos)
  /\ Mortal \subseteq Silos
  /\ NumVotes \in Nat \ {0}
  /\ MissLimit \in Nat \ {0}
  /\ MaxVersion \in Nat
  /\ BeatVersion \in Nat
  /\ Flaky \subseteq Silos
  /\ Beaters \subseteq Silos
  /\ {VotesExpire, TableFails} \subseteq BOOLEAN

VARIABLES
  version,  \* the table version
  status,   \* the status of each row ("absent": no row)
  etag,     \* the etag of each row
  votes,    \* the silos that have a vote in the row's suspicion list
  fresh,    \* those whose vote has not expired
  spc,      \* the silo's own progress: start, run, stop
  retries,  \* attempts the current write loop of stop() has used
  lost,     \* the peers whose failed probe the probe cycle has still to handle
  miss,     \* miss_count of each peer
  vpc,      \* where the probe loop is in _vote_or_declare
  vpeer,    \* the peer voted on
  tries,    \* stale attempts used by _vote_or_declare
  bpc,      \* where the i_am_alive loop is
  looping,  \* the agent's _running: its loops take another iteration
  copy      \* the row each task last read

table == <<version, status, etag, votes, fresh>>
probe == <<lost, miss, vpc, vpeer, tries>>
vars == <<table, spc, retries, probe, bpc, looping, copy>>

Kinds == {"vote", "beat", "stop"}
Statuses == {"absent", "active", "shutting_down", "dead"}
RowCopy == [status : Statuses, votes : SUBSET Silos, etag : Nat]

Row(t) == [status |-> status[t], votes |-> votes[t], etag |-> etag[t]]

Init ==
  /\ version = 0
  /\ status = [s \in Silos |-> "absent"]
  /\ etag = [s \in Silos |-> 0]
  /\ votes = [s \in Silos |-> {}]
  /\ fresh = [s \in Silos |-> {}]
  /\ spc = [s \in Silos |-> "new"]
  /\ retries = [s \in Silos |-> 0]
  /\ lost = [s \in Silos |-> {}]
  /\ miss = [s \in Silos |-> [t \in Silos |-> 0]]
  /\ vpc = [s \in Silos |-> "idle"]
  /\ vpeer = [s \in Silos |-> s]
  /\ tries = [s \in Silos |-> 0]
  /\ bpc = [s \in Silos |-> "idle"]
  /\ looping = [s \in Silos |-> FALSE]
  /\ copy = [s \in Silos |-> [k \in Kinds |-> [status |-> "absent", votes |-> {}, etag |-> 0]]]

\* The silo's process runs (and answers probes), and its agent's loops run.
Running(s) == spc[s] \in {"up", "read_status", "write_status", "drain", "read_row", "delete_row"}
AgentRuns(s) == spc[s] \in {"up", "read_status", "write_status", "drain"}

-----------------------------------------------------------------------------
(* The provider's primitives.                                              *)

\* try_update_silo on an existing row: the caller's row replaces the current
\* one if the etags agree.  The timestamps of the votes travel with them.
TryUpdate(t, row) ==
  /\ version < MaxVersion
  /\ status[t] # "absent"
  /\ etag[t] = row.etag
  /\ version' = version + 1
  /\ status' = [status EXCEPT ![t] = row.status]
  /\ etag' = [etag EXCEPT ![t] = version + 1]
  /\ votes' = [votes EXCEPT ![t] = row.votes]

\* try_update_silo with no etag: create the row.
TryCreate(t) ==
  /\ version < MaxVersion
  /\ status[t] = "absent"
  /\ version' = version + 1
  /\ status' = [status EXCEPT ![t] = "active"]
  /\ etag' = [etag EXCEPT ![t] = version + 1]
  /\ votes' = [votes EXCEPT ![t] = {}]
  /\ fresh' = [fresh EXCEPT ![t] = {}]

\* try_add_suspicion: append one vote to the row the table holds.
TryAddSuspicion(t, voter, expected) ==
  /\ version < MaxVersion
  /\ status[t] # "absent"
  /\ etag[t] = expected
  /\ version' = version + 1
  /\ etag' = [etag EXCEPT ![t] = version + 1]
  /\ votes' = [votes EXCEPT ![t] = @ \union {voter}]
  /\ fresh' = [fresh EXCEPT ![t] = @ \union {voter}]
  /\ UNCHANGED status

\* try_delete_silo: remove the row.
TryDelete(t, expected) ==
  /\ version < MaxVersion
  /\ status[t] # "absent"
  /\ etag[t] = expected
  /\ version' = version + 1
  /\ status' = [status EXCEPT ![t] = "absent"]
  /\ votes' = [votes EXCEPT ![t] = {}]
  /\ fresh' = [fresh EXCEPT ![t] = {}]
  /\ UNCHANGED etag

\* A write with this expectation is refused: TableStaleError.
Stale(t, expected) == status[t] # "absent" /\ etag[t] # expected

\* Reading a row: the task keeps a copy.
Read(s, k, t) == copy' = [copy EXCEPT ![s][k] = Row(t)]

\* A task that is done with its copy, or cancelled, drops it.
Blank == [status |-> "absent", votes |-> {}, etag |-> 0]
Drop(s, k) == copy' = [copy EXCEPT ![s][k] = Blank]
DropAll(s) == copy' = [copy EXCEPT ![s] = [k \in Kinds |-> Blank]]

-----------------------------------------------------------------------------
(* The silo: registration, self-termination, shutdown, crash.              *)

Register(s) ==
  /\ spc[s] = "new"
  /\ TryCreate(s)
  /\ spc' = [spc EXCEPT ![s] = "up"]
  /\ looping' = [looping EXCEPT ![s] = TRUE]
  /\ UNCHANGED <<retries, probe, bpc, copy>>

\* A signal or an operator asks the silo to stop.
StopRequest(s) ==
  /\ s \in Mortal
  /\ spc[s] = "up"
  /\ spc' = [spc EXCEPT ![s] = "read_status"]
  /\ retries' = [retries EXCEPT ![s] = 0]
  /\ UNCHANGED <<table, probe, bpc, looping, copy>>

OwnRowIsDead(s) == status[s] = "dead"

\* Mutant of SelfTerminate: the silo ignores its own row.
SelfTerminate_Never(s) == FALSE /\ UNCHANGED vars

\* The table poll or the probe cycle reads the table and finds the silo's own
\* row DEAD: the agent's loops end and the silo stops, unless it is stopping.
SelfTerminate(s) ==
  /\ AgentRuns(s)
  /\ looping[s]
  /\ OwnRowIsDead(s)
  /\ looping' = [looping EXCEPT ![s] = FALSE]
  /\ IF spc[s] = "up"
     THEN /\ spc' = [spc EXCEPT ![s] = "read_status"]
          /\ retries' = [retries EXCEPT ![s] = 0]
     ELSE UNCHANGED <<spc, retries>>
  /\ UNCHANGED <<table, probe, bpc, copy>>

\* stop() reads its row to set SHUTTING_DOWN; a missing row ends the attempt.
ReadStatus(s) ==
  /\ spc[s] = "read_status"
  /\ IF status[s] = "absent"
     THEN spc' = [spc EXCEPT ![s] = "drain"] /\ UNCHANGED copy
     ELSE spc' = [spc EXCEPT ![s] = "write_status"] /\ Read(s, "stop", s)
  /\ UNCHANGED <<table, retries, probe, bpc, looping>>

\* A stale write of stop(): read again, or give up after _OCC_MAX_RETRIES.
Again(s, reread, done) ==
  IF retries[s] + 1 < OccMaxRetries
  THEN /\ retries' = [retries EXCEPT ![s] = @ + 1]
       /\ spc' = [spc EXCEPT ![s] = reread]
  ELSE /\ spc' = [spc EXCEPT ![s] = done]
       /\ UNCHANGED retries

\* The write of SHUTTING_DOWN over whatever status was read, DEAD included;
\* a stale one is tried again, _OCC_MAX_RETRIES times, and then given up.
WriteStatus(s) ==
  /\ spc[s] = "write_status"
  /\ \/ /\ TryUpdate(s, [copy[s]["stop"] EXCEPT !.status = "shutting_down"])
        /\ fresh' = [fresh EXCEPT ![s] = @ \intersect copy[s]["stop"].votes]
        /\ spc' = [spc EXCEPT ![s] = "drain"]
        /\ UNCHANGED retries
     \/ /\ Stale(s, copy[s]["stop"].etag)
        /\ Again(s, "read_status", "drain")
        /\ UNCHANGED table
  /\ Drop(s, "stop")
  /\ UNCHANGED <<probe, bpc, looping>>

\* The agent's tasks end where they are and their local state goes with them.
EndTasks(s) ==
  /\ looping' = [looping EXCEPT ![s] = FALSE]
  /\ lost' = [lost EXCEPT ![s] = {}]
  /\ miss' = [miss EXCEPT ![s] = [t \in Silos |-> 0]]
  /\ vpc' = [vpc EXCEPT ![s] = "idle"]
  /\ vpeer' = [vpeer EXCEPT ![s] = s]
  /\ tries' = [tries EXCEPT ![s] = 0]
  /\ bpc' = [bpc EXCEPT ![s] = "idle"]
  /\ DropAll(s)

\* lifecycle.stop() stops the agent: its loops are cancelled where they are.
StopAgent(s) ==
  /\ spc[s] = "drain"
  /\ spc' = [spc EXCEPT ![s] = "read_row"]
  /\ retries' = [retries EXCEPT ![s] = 0]
  /\ EndTasks(s)
  /\ UNCHANGED table

\* The row is read to be deleted; if it is gone there is nothing to do.
ReadRow(s) ==
  /\ spc[s] = "read_row"
  /\ IF status[s] = "absent"
     THEN spc' = [spc EXCEPT ![s] = "gone"] /\ UNCHANGED copy
     ELSE spc' = [spc EXCEPT ![s] = "delete_row"] /\ Read(s, "stop", s)
  /\ UNCHANGED <<table, retries, probe, bpc, looping>>

DeleteRow(s) ==
  /\ spc[s] = "delete_row"
  /\ \/ /\ TryDelete(s, copy[s]["stop"].etag)
        /\ spc' = [spc EXCEPT ![s] = "gone"]
        /\ UNCHANGED retries
     \/ /\ Stale(s, copy[s]["stop"].etag)
        /\ Again(s, "read_row", "gone")
        /\ UNCHANGED table
  /\ Drop(s, "stop")
  /\ UNCHANGED <<probe, bpc, looping>>

\* The table cannot be read or written: _safe_transition_status and
\* _safe_unregister_from_membership log it and go on.
StopWithoutTable(s) ==
  /\ TableFails
  /\ \/ /\ spc[s] \in {"read_status", "write_status"}
        /\ spc' = [spc EXCEPT ![s] = "drain"]
     \/ /\ spc[s] \in {"read_row", "delete_row"}
        /\ spc' = [spc EXCEPT ![s] = "gone"]
  /\ Drop(s, "stop")
  /\ UNCHANGED <<table, retries, probe, bpc, looping>>

\* The process dies; its row stays.
Crash(s) ==
  /\ s \in Mortal
  /\ Running(s)
  /\ spc' = [spc EXCEPT ![s] = "crashed"]
  /\ retries' = [retries EXCEPT ![s] = 0]
  /\ EndTasks(s)
  /\ UNCHANGED table

-----------------------------------------------------------------------------
(* The i_am_alive loop.                                                    *)

BeatRead(s) ==
  /\ AgentRuns(s)
  /\ looping[s]
  /\ s \in Beaters
  /\ bpc[s] = "idle"
  /\ status[s] # "absent"
  /\ version < BeatVersion
  /\ Read(s, "beat", s)
  /\ bpc' = [bpc EXCEPT ![s] = "write"]
  /\ UNCHANGED <<table, spc, retries, probe, looping>>

\* Mutant of BeatWrite: the heartbeat ignores the etag of the row it read.
BeatWrite_NoEtag(s) ==
  /\ AgentRuns(s)
  /\ bpc[s] = "write"
  /\ bpc' = [bpc EXCEPT ![s] = "idle"]
  /\ TryUpdate(s, [copy[s]["beat"] EXCEPT !.etag = etag[s]])
  /\ fresh' = [fresh EXCEPT ![s] = @ \intersect copy[s]["beat"].votes]
  /\ Drop(s, "beat")
  /\ UNCHANGED <<spc, retries, probe, looping>>

\* The row is written back with new timestamps, or the write is stale or the
\* table unavailable and the beat is skipped.
BeatWrite(s) ==
  /\ AgentRuns(s)
  /\ bpc[s] = "write"
  /\ bpc' = [bpc EXCEPT ![s] = "idle"]
  /\ \/ /\ TryUpdate(s, copy[s]["beat"])
        /\ fresh' = [fresh EXCEPT ![s] = @ \intersect copy[s]["beat"].votes]
     \/ /\ Stale(s, copy[s]["beat"].etag) \/ TableFails
        /\ UNCHANGED table
  /\ Drop(s, "beat")
  /\ UNCHANGED <<spc, retries, probe, looping>>

-----------------------------------------------------------------------------
(* The probe loop and the death vote.                                      *)

\* A probe cycle reads the table, pings the active peers together and then
\* handles the results one by one; small clusters probe every peer.  Handling
\* an answer touches nothing but that peer's own count, so the answers are
\* handled in this step.
CycleStart(s) ==
  LET peers == {t \in Silos \ {s} : status[t] = "active"} IN
  /\ AgentRuns(s)
  /\ looping[s]
  /\ ~OwnRowIsDead(s)
  /\ vpc[s] = "idle"
  /\ lost[s] = {}
  /\ \E l \in SUBSET peers :
       /\ \A t \in peers : IF Running(t) THEN t \in l => t \in Flaky ELSE t \in l
       /\ lost' = [lost EXCEPT ![s] = l]
       /\ miss' = [miss EXCEPT ![s] = [t \in Silos |-> IF t \in peers \ l THEN 0 ELSE @[t]]]
  /\ UNCHANGED <<table, spc, retries, vpc, vpeer, tries, bpc, looping, copy>>

\* on_probe_result for a peer that did not answer: at the limit of misses in a row the
\* silo turns to vote.  From MissLimit - 1 on every further miss leads to a vote,
\* so the model's count stops there.
ProbeMiss(s, t) ==
  /\ AgentRuns(s)
  /\ vpc[s] = "idle"
  /\ t \in lost[s]
  /\ lost' = [lost EXCEPT ![s] = @ \ {t}]
  /\ IF miss[s][t] + 1 < MissLimit
     THEN /\ miss' = [miss EXCEPT ![s][t] = @ + 1]
          /\ UNCHANGED <<vpc, vpeer, tries>>
     ELSE /\ miss' = [miss EXCEPT ![s][t] = MissLimit - 1]
          /\ vpc' = [vpc EXCEPT ![s] = "read"]
          /\ vpeer' = [vpeer EXCEPT ![s] = t]
          /\ tries' = [tries EXCEPT ![s] = 0]
  /\ UNCHANGED <<table, spc, retries, bpc, looping, copy>>

\* A lost connection counts as one miss, up to the limit.
PeerDisconnect(s, t) ==
  /\ AgentRuns(s)
  /\ s # t
  /\ t \in Flaky \/ ~Running(t)
  /\ miss[s][t] < MissLimit - 1
  /\ miss' = [miss EXCEPT ![s][t] = @ + 1]
  /\ UNCHANGED <<table, spc, retries, lost, vpc, vpeer, tries, bpc, looping, copy>>

\* The vote ends; cleared says whether the peer's misses are forgotten.
EndVote(s, cleared) ==
  /\ vpc' = [vpc EXCEPT ![s] = "idle"]
  /\ vpeer' = [vpeer EXCEPT ![s] = s]
  /\ tries' = [tries EXCEPT ![s] = 0]
  /\ miss' = IF cleared THEN [miss EXCEPT ![s][vpeer[s]] = 0] ELSE miss
  /\ Drop(s, "vote")

\* Mutant of IsDeciding: one vote too few decides.
IsDeciding_OffByOne(s, t) == Cardinality(fresh[t] \union {s}) + 1 >= NumVotes

\* Whether the vote of s would be the deciding one.
IsDeciding(s, t) == Cardinality(fresh[t] \union {s}) >= NumVotes

\* _attempt_vote reads the peer's row: it may be gone or DEAD already, or hold
\* a fresh vote of this silo; else the vote is the deciding one or it is not.
VoteRead(s) ==
  LET t == vpeer[s] IN
  /\ AgentRuns(s)
  /\ vpc[s] = "read"
  /\ \/ /\ status[t] = "absent"
        /\ EndVote(s, TRUE)
     \/ /\ status[t] = "dead" \/ (status[t] # "absent" /\ s \in fresh[t])
        /\ EndVote(s, FALSE)
     \/ /\ status[t] \notin {"absent", "dead"}
        /\ s \notin fresh[t]
        /\ Read(s, "vote", t)
        /\ vpc' = [vpc EXCEPT ![s] = IF IsDeciding(s, t) THEN "ask" ELSE "add"]
        /\ UNCHANGED <<miss, vpeer, tries>>
  /\ UNCHANGED <<table, spc, retries, lost, bpc, looping>>

\* Mutant of VoteAsk: an intermediary that reports no answer aborts the vote.
VoteAsk_SilenceAborts(s) ==
  LET t == vpeer[s] IN
  /\ AgentRuns(s)
  /\ vpc[s] = "ask"
  /\ vpc' = [vpc EXCEPT ![s] = IF \E m \in Silos \ {s, t} : status[m] = "active"
                               THEN "add" ELSE "declare"]
  /\ UNCHANGED <<table, spc, retries, lost, miss, vpeer, tries, bpc, looping, copy>>

\* The indirect probe before the deciding vote: another active silo may reach
\* the peer, and then only the suspicion is kept; all others failing, or there
\* being none, the silo goes on to declare.
VoteAsk(s) ==
  LET t == vpeer[s]
      reachable == Running(t) /\ \E m \in Silos \ {s, t} : status[m] = "active" /\ Running(m)
  IN
  /\ AgentRuns(s)
  /\ vpc[s] = "ask"
  /\ \/ reachable /\ vpc' = [vpc EXCEPT ![s] = "add"]
     \/ /\ t \in Flaky \/ ~reachable
        /\ vpc' = [vpc EXCEPT ![s] = "declare"]
  /\ UNCHANGED <<table, spc, retries, lost, miss, vpeer, tries, bpc, looping, copy>>

\* Mutant of VoteRetry: the attempts are not counted.
VoteRetry_Forever(s) ==
  /\ tries' = [tries EXCEPT ![s] = @ + 1]
  /\ vpc' = [vpc EXCEPT ![s] = "read"]
  /\ Drop(s, "vote")
  /\ UNCHANGED <<miss, vpeer>>

\* TableStaleError: another attempt, at most _MAX_STALE_RETRY in all.
VoteRetry(s) ==
  IF tries[s] + 1 < MaxStaleRetry
  THEN /\ tries' = [tries EXCEPT ![s] = @ + 1]
       /\ vpc' = [vpc EXCEPT ![s] = "read"]
       /\ Drop(s, "vote")
       /\ UNCHANGED <<miss, vpeer>>
  ELSE EndVote(s, FALSE)

\* The write of the vote met no row (SiloNotFoundError) or a newer one.
VoteRefused(s) ==
  LET t == vpeer[s] IN
  /\ \/ status[t] = "absent" /\ EndVote(s, TRUE)
     \/ Stale(t, copy[s]["vote"].etag) /\ VoteRetry(s)
  /\ UNCHANGED table

VoteAdd(s) ==
  /\ AgentRuns(s)
  /\ vpc[s] = "add"
  /\ \/ TryAddSuspicion(vpeer[s], s, copy[s]["vote"].etag) /\ EndVote(s, FALSE)
     \/ VoteRefused(s)
  /\ UNCHANGED <<spc, retries, lost, bpc, looping>>

\* The deciding write: status DEAD and the vote, over the row that was read.
VoteDeclare(s) ==
  LET t == vpeer[s]  row == copy[s]["vote"] IN
  /\ AgentRuns(s)
  /\ vpc[s] = "declare"
  /\ \/ /\ TryUpdate(t, [row EXCEPT !.status = "dead", !.votes = @ \union {s}])
        /\ fresh' = [fresh EXCEPT ![t] = (@ \intersect row.votes) \union {s}]
        /\ EndVote(s, FALSE)
     \/ VoteRefused(s)
  /\ UNCHANGED <<spc, retries, lost, bpc, looping>>

\* MembershipUnavailableError suspends the vote; any other MembershipError ends
\* the probe cycle as well.
VoteUnavailable(s) ==
  /\ TableFails
  /\ AgentRuns(s)
  /\ vpc[s] \in {"read", "ask", "add", "declare"}
  /\ EndVote(s, FALSE)
  /\ lost' \in {lost, [lost EXCEPT ![s] = {}]}
  /\ UNCHANGED <<table, spc, retries, bpc, looping>>

\* death_vote_expiration elapses for one vote.
Expire(t, v) ==
  /\ VotesExpire
  /\ v \in fresh[t]
  /\ fresh' = [fresh EXCEPT ![t] = @ \ {v}]
  /\ UNCHANGED <<version, status, etag, votes, spc, retries, probe, bpc, looping, copy>>

-----------------------------------------------------------------------------

SiloStep(s) ==
  \/ Register(s) \/ StopRequest(s) \/ SelfTerminate(s) \/ ReadStatus(s) \/ WriteStatus(s)
  \/ StopAgent(s) \/ ReadRow(s) \/ DeleteRow(s) \/ StopWithoutTable(s) \/ Crash(s)
  \/ BeatRead(s) \/ BeatWrite(s)

VoteStep(s) ==
  \/ CycleStart(s) \/ VoteRead(s) \/ VoteAsk(s) \/ VoteAdd(s) \/ VoteDeclare(s)
  \/ VoteUnavailable(s)

PeerStep(s, t) == ProbeMiss(s, t) \/ PeerDisconnect(s, t) \/ Expire(s, t)

Next ==
  \/ \E s \in Silos : SiloStep(s) \/ VoteStep(s)
  \/ \E s, t \in Silos : PeerStep(s, t)

Spec == Init /\ [][Next]_vars

\* The agent's loops keep running, the shutdown sequence goes on, and a probe
\* has an outcome.  Nothing makes a link fail, a vote expire or a silo stop.
Fairness ==
  \A s \in Silos :
    /\ WF_vars(Register(s)) /\ WF_vars(SelfTerminate(s))
    /\ WF_vars(ReadStatus(s)) /\ WF_vars(WriteStatus(s)) /\ WF_vars(StopAgent(s))
    /\ WF_vars(ReadRow(s)) /\ WF_vars(DeleteRow(s))
    /\ WF_vars(CycleStart(s)) /\ WF_vars(BeatWrite(s))
    /\ WF_vars(\E t \in Silos : ProbeMiss(s, t))
    /\ WF_vars(VoteRead(s)) /\ WF_vars(VoteAsk(s)) /\ WF_vars(VoteAdd(s))
    /\ WF_vars(VoteDeclare(s))

FairSpec == Spec /\ Fairness

-----------------------------------------------------------------------------
(* Properties.                                                             *)

\* Every variable has its type; the retry counts stay within their limits.
TypeOK ==
  /\ version \in Nat
  /\ status \in [Silos -> Statuses]
  /\ etag \in [Silos -> Nat]
  /\ votes \in [Silos -> SUBSET Silos]
  /\ fresh \in [Silos -> SUBSET Silos]
  /\ spc \in [Silos -> {"new", "up", "read_status", "write_status", "drain",
                        "read_row", "delete_row", "gone", "crashed"}]
  /\ retries \in [Silos -> 0..(OccMaxRetries - 1)]
  /\ lost \in [Silos -> SUBSET Silos]
  /\ miss \in [Silos -> [Silos -> Nat]]
  /\ vpc \in [Silos -> {"idle", "read", "ask", "add", "declare"}]
  /\ vpeer \in [Silos -> Silos]
  /\ tries \in [Silos -> 0..(MaxStaleRetry - 1)]
  /\ bpc \in [Silos -> {"idle", "write"}]
  /\ looping \in [Silos -> BOOLEAN]
  /\ copy \in [Silos -> [Kinds -> RowCopy]]

\* A row is DEAD only with the votes of at least NumVotes distinct silos in
\* it: no silo declares another dead on its own, and no concurrent heartbeat,
\* vote or retry makes the table forget who voted.
DeadHasQuorum ==
  \A t \in Silos : status[t] = "dead" => Cardinality(votes[t]) >= NumVotes

\* A vote cast on a row stays in it as long as the row exists: no
\* read-modify-write of another task overwrites it.
VotesKept ==
  [][\A t \in Silos : (status[t] # "absent" /\ status'[t] # "absent") =>
        votes[t] \subseteq votes'[t]]_vars

\* A row that was declared DEAD or is SHUTTING_DOWN never reads ACTIVE again,
\* and a row declared while its silo shuts down stays DEAD until it is
\* deleted: no heartbeat, vote or status write in flight undoes it.
NeverResurrected ==
  [][\A t \in Silos :
       /\ status[t] \in {"dead", "shutting_down"} => status'[t] # "active"
       /\ status[t] = "dead" /\ spc[t] \notin {"read_status", "write_status"} =>
            status'[t] \in {"dead", "absent"}]_vars

\* A silo whose row was declared DEAD while it runs stops.
DeadSiloStops ==
  \A s \in Silos : (spc[s] = "up" /\ status[s] = "dead") ~> spc[s] \in {"gone", "crashed"}

\* The row of a crashed silo does not stay ACTIVE.
CrashedIsDeclared ==
  \A t \in Silos : (spc[t] = "crashed" /\ status[t] = "active") ~> status[t] # "active"

=============================================================================
