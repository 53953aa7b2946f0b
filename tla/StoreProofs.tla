----------------------------- MODULE StoreProofs -----------------------------
(***************************************************************************)
(* Proofs about the providers of a silo: GrainState, for every set of      *)
(* copies, and MembershipTable, for every set of silos and rows; either    *)
(* store, and any number of writes and crashes; and MemoryStream, for any  *)
(* subscriptions and events.                                               *)
(***************************************************************************)
EXTENDS GrainState, MembershipTable, MemoryStream, TLAPS, SequenceTheorems

\* The type of the state of the copies and of the store.
StateTypeOK ==
  /\ keeper \in {"file", "postgres"}
  /\ saved \in [is : {"none", "torn", "row"}, etag : Nat, value : SUBSET Nat, row : Nat]
  /\ copy \in [Copies -> [is : {"on", "off"}, state : SUBSET Nat, etag : Nat, row : Nat]]
  /\ {change, stamps, births} \subseteq Nat

\* A copy that holds the stored etag of the stored row holds what is stored, and perhaps
\* changes of its own.
Current(c) == saved.is = "row" /\ copy[c].row = saved.row /\ copy[c].etag = saved.etag
CurrentCopies == \A c \in Copies : Current(c) => saved.value \subseteq copy[c].state

\* The next etag or row that a store gives out is new to every copy.
EtagsGrow ==
  /\ saved.row <= births
  /\ saved.is = "row" => saved.etag > 0
  /\ \A c \in Copies : copy[c].row <= births
  /\ keeper = "file" => saved.etag <= stamps /\ \A c \in Copies : copy[c].etag <= stamps
  /\ keeper = "postgres" /\ saved.is = "row" =>
       \A c \in Copies : copy[c].row = saved.row => copy[c].etag <= saved.etag

StateInv == StateTypeOK /\ CurrentCopies /\ EtagsGrow

\* The records that clear_state and a torn write leave.
LEMMA Cleared ==
  /\ [NotActive EXCEPT !.is = "on"] = [is |-> "on", state |-> {}, etag |-> 0, row |-> 0]
  /\ [Nothing EXCEPT !.is = "torn"] = [is |-> "torn", etag |-> 0, value |-> {}, row |-> 0]
BY DEF NotActive, Nothing

\* The invariant holds of the initial states.
LEMMA StateInitially == StateInit => StateInv
BY GrainStateAssumption
   DEF StateInit, StateInv, StateTypeOK, CurrentCopies, Current, EtagsGrow, Nothing, NotActive

\* A write of copy c, and what the answer leaves in it: the new etag, or nothing of it.
LEMMA WriteKeeps ==
  ASSUME StateInv, NEW c \in Copies, WriteState(c)
  PROVE  StateInv'
<1> DEFINE new == Written(copy[c].state)
<1>1. /\ saved' = new
      /\ stamps' = stamps + 1
      /\ births' = IF saved.is = "row" THEN births ELSE births + 1
      /\ keeper' = keeper /\ change' = change
      /\ Permits(copy[c].etag)
  BY DEF WriteState
<1>2. \/ copy' = [copy EXCEPT ![c].etag = new.etag, ![c].row = new.row]
      \/ copy' = copy
  BY <1>1 DEF WriteState
<1>3. /\ new.is = "row" /\ new.value = copy[c].state
      /\ new.row = IF saved.is = "row" THEN saved.row ELSE births + 1
      /\ new.etag = IF keeper = "file" THEN stamps + 1
                    ELSE IF saved.is = "row" THEN saved.etag + 1 ELSE 1
      /\ new \in [is : {"none", "torn", "row"}, etag : Nat, value : SUBSET Nat, row : Nat]
  BY DEF StateInv, StateTypeOK, Written
<1> HIDE DEF new
<1>4. copy' \in [Copies -> [is : {"on", "off"}, state : SUBSET Nat, etag : Nat, row : Nat]]
  BY <1>2, <1>3 DEF StateInv, StateTypeOK
<1>5. StateTypeOK'
  BY <1>1, <1>3, <1>4 DEF StateInv, StateTypeOK
<1>6. \A d \in Copies :
        \/ copy'[d] = copy[d] 
        \/ d = c /\ copy'[d].state = copy[c].state /\ copy'[d].etag = new.etag /\ copy'[d].row = new.row
  BY <1>2 DEF StateInv, StateTypeOK
<1>7. \A d \in Copies : copy[d].row = new.row => copy[d].etag < new.etag
  BY <1>3 DEF StateInv, StateTypeOK, EtagsGrow
<1>8. CurrentCopies'
  BY <1>1, <1>3, <1>6, <1>7 DEF StateInv, StateTypeOK, CurrentCopies, Current
<1>9. EtagsGrow'
  BY <1>1, <1>3, <1>6, <1>7 DEF StateInv, StateTypeOK, EtagsGrow
<1> QED
  BY <1>5, <1>8, <1>9 DEF StateInv

\* Every other step keeps the invariant: it reads the store, grows a state in memory, or
\* leaves no row behind.
LEMMA StateStep == StateInv /\ [StateNext]_stateVars => StateInv'
<1> SUFFICES ASSUME StateInv, [StateNext]_stateVars PROVE StateInv'
  OBVIOUS
<1> USE DEF StateInv, StateTypeOK, CurrentCopies, Current, EtagsGrow
<1>1. ASSUME NEW c \in Copies, FetchState(c) PROVE StateInv'
  BY <1>1 DEF FetchState, Fetched
<1>2. ASSUME NEW c \in Copies, ChangeState(c) PROVE StateInv'
  <2>1. copy'[c].state = copy[c].state \cup {change + 1}
    BY <1>2 DEF ChangeState
  <2> QED
    BY <1>2, <2>1 DEF ChangeState
<1>3. ASSUME NEW c \in Copies, ClearState(c) PROVE StateInv'
  <2>1. /\ saved' = Nothing
        /\ copy' = [copy EXCEPT ![c] = [is |-> "on", state |-> {}, etag |-> 0, row |-> 0]]
        /\ UNCHANGED <<keeper, change, stamps, births>>
    BY <1>3, Cleared DEF ClearState
  <2>2. StateTypeOK'
    BY <2>1 DEF Nothing
  <2>3. CurrentCopies' /\ EtagsGrow'
    BY <2>1 DEF Nothing
  <2> QED
    BY <2>2, <2>3
<1>4. ASSUME NEW c \in Copies, DropCopy(c) PROVE StateInv'
  <2>1. /\ copy' = [copy EXCEPT ![c] = [is |-> "off", state |-> {}, etag |-> 0, row |-> 0]]
        /\ UNCHANGED <<keeper, saved, change, stamps, births>>
    BY <1>4 DEF DropCopy, NotActive
  <2>2. StateTypeOK'
    BY <2>1
  <2>3. CurrentCopies'
    BY <2>1
  <2>4. EtagsGrow'
    BY <2>1
  <2> QED
    BY <2>2, <2>3, <2>4
<1>5. ASSUME NEW c \in Copies, TearState(c) PROVE StateInv'
  <2>1. /\ saved' = [is |-> "torn", etag |-> 0, value |-> {}, row |-> 0]
        /\ copy' = [d \in Copies |-> [is |-> "off", state |-> {}, etag |-> 0, row |-> 0]]
        /\ UNCHANGED <<keeper, change, stamps, births>>
    BY <1>5, Cleared DEF TearState, NotActive
  <2>2. StateTypeOK'
    BY <2>1
  <2>3. CurrentCopies' /\ EtagsGrow'
    BY <2>1
  <2> QED
    BY <2>2, <2>3
<1>6. CASE UNCHANGED stateVars
  BY <1>6 DEF stateVars
<1> QED
  BY <1>1, <1>2, <1>3, <1>4, <1>5, <1>6, WriteKeeps DEF StateNext

\* The invariant holds in every reachable state.
THEOREM StateInvariant == StateSpec => []StateInv
BY StateInitially, StateStep, PTL DEF StateSpec

\* No update of the stored state is lost (Permits of file_storage.py and
\* postgresql_storage.py): a write by a copy that has read the stored row keeps every
\* change in it, for all numbers of activations.
THEOREM UpdatesAreKept == StateSpec => NoLostUpdate
<1>1. ASSUME StateInv, [StateNext]_stateVars,
             NEW c \in Copies, WriteState(c), saved.is = "row", Informed(c)
      PROVE  saved.value \subseteq saved'.value
  <2>1. Current(c)
    BY <1>1 DEF WriteState, Permits, Informed, Current, StateInv, StateTypeOK
  <2>2. saved'.value = copy[c].state
    BY <1>1 DEF WriteState, Written
  <2> QED
    BY <1>1, <2>1, <2>2 DEF StateInv, CurrentCopies
<1>2. StateInv /\ [StateNext]_stateVars =>
        [\A c \in Copies :
           WriteState(c) /\ saved.is = "row" /\ Informed(c) => saved.value \subseteq saved'.value
        ]_stateVars
  BY <1>1
<1> QED
  BY <1>2, StateInvariant, PTL DEF StateSpec, NoLostUpdate
-----------------------------------------------------------------------------
(* The membership table.                                                   *)

Rows == [is : {"fresh", "here", "gone"}, etag : Nat, votes : SUBSET Procs]
RowTables == [RowIds -> Rows]
Tables == [version : Nat, rows : RowTables]
Begun == [version |-> 0, rows |-> [r \in RowIds |-> NewRow]]

\* The states of a provider.
Reading == [kind : {"read"}]
Provs ==
  {Resting} \cup [at : {"locking", "locked"}, op : Operations \cup Reading]
  \cup [at : {"leaving"}] \cup [at : {"written"}, file : Tables]
  \cup [at : {"selected"}, rows : RowTables]

TableTypeOK ==
  /\ store \in {"file", "postgres"}
  /\ table \in Tables
  /\ prov \in [Procs -> Provs]
  /\ seen \in [Procs -> Tables]
  /\ downs \in Nat
  /\ \A r \in RowIds : table.rows[r].etag <= table.version

\* One provider at a time is between taking and releasing the lock, and only a file is
\* locked.
Exclusive ==
  /\ \A p \in Procs : prov[p].at \in {"locked", "written", "leaving"} => p \in lock
  /\ \A p, q \in lock : p = q
  /\ store = "postgres" => \A p \in Procs : prov[p].at \in {"idle", "selected"}
  /\ store = "file" => \A p \in Procs : prov[p].at # "selected"

\* Table u comes after table t by one write: what stays keeps its votes, etags grow, and
\* a row whose etag stays is the same row.
RowFollows(a, b) ==
  /\ b.is = "here" => a.votes \subseteq b.votes
  /\ a.etag <= b.etag
  /\ b.is # "gone" /\ a.etag = b.etag => a = b
Follows(t, u) ==
  /\ u \in Tables
  /\ \A r \in RowIds : u.rows[r].etag <= u.version
  /\ u.version = t.version + 1
  /\ \A r \in RowIds : RowFollows(t.rows[r], u.rows[r])

\* The file about to be renamed follows the table.
WrittenFollows == \A p \in Procs : prov[p].at = "written" => Follows(table, prov[p].file)

\* Rows that were read are not newer than those in the table, and the same if their etag
\* is.
RowKnown(a, b) == a.etag <= b.etag /\ (b.is # "gone" /\ a.etag = b.etag => a = b)
Known(rows) == \A r \in RowIds : RowKnown(rows[r], table.rows[r])
ReadsKnown ==
  /\ Known(Begun.rows)
  /\ \A p \in Procs : Known(seen[p].rows)
  /\ \A p \in Procs : prov[p].at = "selected" => Known(prov[p].rows)

\* In a file all snapshots of a version are the same, and none is newer than the table.
OneSnapshot ==
  store = "file" =>
    /\ table.version = 0 => table = Begun
    /\ \A p \in Procs : seen[p].version <= table.version
    /\ \A p \in Procs : seen[p].version = table.version => seen[p] = table
    /\ \A p \in Procs : seen[p].version = 0 => seen[p] = Begun
    /\ \A p, q \in Procs : seen[p].version = seen[q].version => seen[p] = seen[q]

TableInv == TableTypeOK /\ Exclusive /\ WrittenFollows /\ ReadsKnown /\ OneSnapshot

\* The empty table is one, and a row of it is known to every later table.
LEMMA BegunFacts ==
  /\ Begun \in Tables
  /\ \A b \in Rows : b.etag >= 0
  /\ \A r \in RowIds : Begun.rows[r] = NewRow
BY DEF Begun, Tables, RowTables, Rows, NewRow

\* What a guarded operation makes of the table: the row it replaces is the row it read.
LEMMA ChangedFollows ==
  ASSUME TableInv, NEW p \in Procs, NEW op \in Operations,
         EtagMatches(table, op.row, seen[p].rows[op.row].etag)
  PROVE  Follows(table, Changed(table, p, op, seen[p].rows[op.row]))
<1> DEFINE read == seen[p].rows[op.row]
           old == table.rows[op.row]
           u == Changed(table, p, op, read)
<1>1. /\ op.row \in RowIds /\ op.kind \in {"update", "suspect", "delete"}
      /\ old \in Rows /\ read \in Rows
      /\ table.version \in Nat /\ table.rows \in RowTables
  BY DEF Operations, Kinds, TableInv, TableTypeOK, Tables, RowTables
<1>2. read = old
  BY <1>1 DEF EtagMatches, TableInv, ReadsKnown, Known, RowKnown
<1> DEFINE etag == IF store = "file" THEN table.version + 1 ELSE old.etag + 1
           new == CASE op.kind = "update" -> [is |-> "here", etag |-> etag, votes |-> read.votes]
                    [] op.kind = "suspect" -> [old EXCEPT !.etag = etag, !.votes = @ \cup {p}]
                    [] op.kind = "delete" -> [old EXCEPT !.is = "gone"]
<1>3. old.etag <= table.version
  BY <1>1 DEF TableInv, TableTypeOK
<1>4. etag \in Nat /\ etag > old.etag /\ etag <= table.version + 1
  BY <1>1, <1>3 DEF Rows
<1>5. new \in Rows /\ RowFollows(old, new) /\ new.etag <= table.version + 1
  <2> HIDE DEF etag, old, read, new
  <2>1. CASE op.kind = "update"
    <3>1. new = [is |-> "here", etag |-> etag, votes |-> read.votes]
      BY <2>1 DEF new
    <3> QED
      BY <3>1, <1>1, <1>2, <1>4 DEF Rows, RowFollows
  <2>2. CASE op.kind = "suspect"
    <3>1. new = [old EXCEPT !.etag = etag, !.votes = @ \cup {p}]
      BY <2>2 DEF new
    <3>2. new.is = old.is /\ new.etag = etag /\ new.votes = old.votes \cup {p} /\ new \in Rows
      BY <3>1, <1>1, <1>4 DEF Rows
    <3> QED
      BY <3>2, <1>1, <1>4 DEF Rows, RowFollows
  <2>3. CASE op.kind = "delete"
    <3>1. new = [old EXCEPT !.is = "gone"]
      BY <2>3 DEF new
    <3> QED
      BY <3>1, <1>1, <1>3 DEF Rows, RowFollows
  <2> QED
    BY <1>1, <2>1, <2>2, <2>3
<1>6. u = [version |-> table.version + 1, rows |-> [table.rows EXCEPT ![op.row] = new]]
  BY DEF Changed
<1> HIDE DEF new, u
<1>7. /\ u.version = table.version + 1
      /\ u \in Tables
      /\ \A r \in RowIds : u.rows[r] = IF r = op.row THEN new ELSE table.rows[r]
  BY <1>1, <1>5, <1>6 DEF Tables, RowTables
<1>8. \A r \in RowIds : table.rows[r].etag <= table.version /\ table.rows[r] \in Rows
  BY DEF TableInv, TableTypeOK, Tables, RowTables
<1>9. \A r \in RowIds : RowFollows(table.rows[r], u.rows[r]) /\ u.rows[r].etag <= u.version
  BY <1>1, <1>5, <1>7, <1>8 DEF RowFollows, Rows
<1>10. Follows(table, u)
  BY <1>7, <1>9 DEF Follows
<1> QED
  BY <1>10 DEF u

\* The invariant holds of the initial states.
LEMMA TableInitially == TableInit => TableInv
<1> SUFFICES ASSUME TableInit PROVE TableInv
  OBVIOUS
<1>1. table = Begun
  BY DEF TableInit, Begun
<1>2. \A p \in Procs : prov[p] = Resting /\ Resting.at = "idle" /\ seen[p] = Begun
  BY <1>1 DEF TableInit, Resting
<1>3. TableTypeOK
  <2>1. prov \in [Procs -> Provs]
    BY DEF TableInit, Provs
  <2>2. \A r \in RowIds : table.rows[r].etag = 0
    BY <1>1, BegunFacts DEF NewRow
  <2> QED
    BY <1>1, <2>1, <2>2, BegunFacts, TableAssumption DEF TableInit, TableTypeOK, Begun
<1>4. Exclusive /\ WrittenFollows /\ OneSnapshot
  BY <1>1, <1>2 DEF TableInit, Exclusive, WrittenFollows, OneSnapshot
<1>5. ReadsKnown
  BY <1>1, <1>2, BegunFacts DEF ReadsKnown, Known, RowKnown, NewRow
<1> QED
  BY <1>3, <1>4, <1>5 DEF TableInv

\* The table is replaced by one that follows it: what was read stays known, and in a file
\* nobody has read the new version.
LEMMA WriteStep ==
  ASSUME TableInv, Follows(table, table'), UNCHANGED <<store, seen>>,
         \A p \in Procs : prov'[p].at = "selected" => prov'[p] = prov[p],
         prov' \in [Procs -> Provs], downs' \in Nat
  PROVE  TableTypeOK' /\ ReadsKnown' /\ OneSnapshot'
<1>1. TableTypeOK'
  BY DEF TableInv, TableTypeOK, Follows
<1>2. ASSUME NEW rows \in RowTables, Known(rows)
      PROVE  \A r \in RowIds : RowKnown(rows[r], table'.rows[r])
  <2> TAKE r \in RowIds
  <2>1. /\ rows[r] \in Rows /\ table.rows[r] \in Rows /\ table'.rows[r] \in Rows
        /\ RowKnown(rows[r], table.rows[r]) /\ RowFollows(table.rows[r], table'.rows[r])
    BY <1>2 DEF Known, Follows, TableInv, TableTypeOK, Tables, RowTables
  <2> QED
    BY <2>1 DEF RowKnown, RowFollows, Rows
<1>3. ReadsKnown'
  <2>1. \A p \in Procs : seen[p].rows \in RowTables
    BY DEF TableInv, TableTypeOK, Tables
  <2>2. \A p \in Procs : prov[p].at = "selected" => prov[p].rows \in RowTables
    BY DEF TableInv, TableTypeOK, Provs, Resting
  <2>3. Begun.rows \in RowTables
    BY BegunFacts DEF Tables
  <2> QED
    BY <1>2, <2>1, <2>2, <2>3 DEF TableInv, ReadsKnown, Known
<1>4. OneSnapshot'
  BY DEF OneSnapshot, TableInv, TableTypeOK, Follows, Tables
<1> QED
  BY <1>1, <1>3, <1>4

\* A step of one provider that leaves the table and what was read alone.
LEMMA QuietStep ==
  ASSUME TableInv, UNCHANGED <<store, table, seen>>, downs' \in Nat,
         NEW p \in Procs, NEW state \in Provs, prov' = [prov EXCEPT ![p] = state],
         state.at = "selected" => Known(state.rows),
         state.at = "written" => Follows(table, state.file)
  PROVE  TableTypeOK' /\ ReadsKnown' /\ WrittenFollows' /\ OneSnapshot'
<1>1. \A q \in Procs : prov'[q] = IF q = p THEN state ELSE prov[q]
  BY DEF TableInv, TableTypeOK
<1> QED
  BY <1>1 DEF TableInv, TableTypeOK, ReadsKnown, Known, WrittenFollows, Follows, OneSnapshot

\* A provider leaves the lock, or a free lock is taken.
LEMMA LockStep ==
  ASSUME TableInv, UNCHANGED store, NEW p \in Procs, NEW state \in Provs,
         prov' = [prov EXCEPT ![p] = state],
         \/ lock' = lock \ {p} /\ state = Resting
         \/ lock = {} /\ lock' = {p} /\ store = "file" /\ state.at = "locked"
         \/ lock' = lock /\ p \in lock /\ store = "file" /\ state.at \in {"written", "leaving"}
         \/ lock' = lock /\ store = "postgres" /\ state.at = "selected"
         \/ lock' = lock /\ state = Resting
         \/ lock' = lock /\ store = "file" /\ state.at = "locking"
  PROVE  Exclusive'
BY DEF TableInv, TableTypeOK, Exclusive, Resting

\* Every step keeps it.
LEMMA TableStep == TableInv /\ [TableNext]_tableVars => TableInv'
<1> SUFFICES ASSUME TableInv, [TableNext]_tableVars PROVE TableInv'
  OBVIOUS
<1>0. \A p \in Procs : /\ prov[p] \in Provs /\ seen[p] \in Tables
                        /\ Resting \in Provs /\ Resting.at = "idle"
  BY DEF TableInv, TableTypeOK, Provs, Resting
<1>1. ASSUME NEW p \in Procs, FileBegin(p) PROVE TableInv'
  <2>1. PICK op \in Operations \cup Reading :
          prov' = [prov EXCEPT ![p] = [at |-> "locking", op |-> op]]
    BY <1>1 DEF FileBegin, Reading
  <2>2. [at |-> "locking", op |-> op] \in Provs
    BY DEF Provs
  <2>3. TableTypeOK' /\ ReadsKnown' /\ WrittenFollows' /\ OneSnapshot'
    BY <1>1, <2>1, <2>2, QuietStep DEF FileBegin, TableInv, TableTypeOK
  <2>4. Exclusive'
    BY <1>1, <2>1, <2>2, LockStep DEF FileBegin
  <2> QED
    BY <2>3, <2>4 DEF TableInv
<1>2. ASSUME NEW p \in Procs, Acquire(p) PROVE TableInv'
  <2>1. PICK op \in Operations \cup Reading : prov[p] = [at |-> "locking", op |-> op]
    BY <1>0, <1>2 DEF Acquire, Provs, Resting
  <2>2. prov' = [prov EXCEPT ![p] = [at |-> "locked", op |-> op]]
    BY <1>2, <2>1 DEF Acquire
  <2>3. [at |-> "locked", op |-> op] \in Provs
    BY DEF Provs
  <2>4. TableTypeOK' /\ ReadsKnown' /\ WrittenFollows' /\ OneSnapshot'
    BY <1>2, <2>2, <2>3, QuietStep DEF Acquire, TableInv, TableTypeOK
  <2>5. store = "file"
    BY <1>2, <2>1 DEF TableInv, TableTypeOK, Exclusive
  <2>6. Exclusive'
    BY <1>2, <2>2, <2>3, <2>5, LockStep DEF Acquire
  <2> QED
    BY <2>4, <2>6 DEF TableInv
<1>3. ASSUME NEW p \in Procs, LockTimeout(p) PROVE TableInv'
  <2>1. TableTypeOK' /\ ReadsKnown' /\ WrittenFollows' /\ OneSnapshot'
    BY <1>0, <1>3, QuietStep DEF LockTimeout, TableInv, TableTypeOK
  <2>2. Exclusive'
    BY <1>0, <1>3, LockStep DEF LockTimeout
  <2> QED
    BY <2>1, <2>2 DEF TableInv
<1>4. ASSUME NEW p \in Procs, Load(p) PROVE TableInv'
  <2>1. p \in lock /\ store = "file"
    BY <1>4 DEF Load, TableInv, TableTypeOK, Exclusive
  <2>2. PICK op \in Operations \cup Reading : prov[p] = [at |-> "locked", op |-> op]
    BY <1>0, <1>4 DEF Load, Provs, Resting
  <2>3. [at |-> "leaving"] \in Provs
    BY DEF Provs
  <2>4. CASE op.kind = "read"
    <3>1. /\ seen' = [seen EXCEPT ![p] = table]
          /\ prov' = [prov EXCEPT ![p] = [at |-> "leaving"]]
          /\ UNCHANGED <<store, table, lock, downs>>
      BY <1>4, <2>2, <2>4 DEF Load
    <3>2. \A q \in Procs : seen'[q] = IF q = p THEN table ELSE seen[q]
      BY <3>1 DEF TableInv, TableTypeOK
    <3>8. \A q \in Procs : prov'[q] = IF q = p THEN [at |-> "leaving"] ELSE prov[q]
      BY <3>1 DEF TableInv, TableTypeOK
    <3>3. TableTypeOK'
      BY <2>3, <3>1 DEF TableInv, TableTypeOK
    <3>4. ReadsKnown'
      BY <3>1, <3>2, <3>8
         DEF TableInv, TableTypeOK, Tables, RowTables, Rows, ReadsKnown, Known, RowKnown
    <3>5. WrittenFollows'
      BY <3>1, <3>8 DEF TableInv, WrittenFollows, Follows
    <3>6. OneSnapshot'
      BY <3>1, <3>2 DEF TableInv, TableTypeOK, Tables, OneSnapshot
    <3>7. Exclusive'
      BY <2>1, <2>3, <3>1, LockStep
    <3> QED
      BY <3>3, <3>4, <3>5, <3>6, <3>7 DEF TableInv
  <2>5. CASE op.kind # "read"
    <3> DEFINE read == seen[p].rows[op.row]
               file == Changed(table, p, op, read)
               state == IF EtagMatches(table, op.row, read.etag)
                        THEN [at |-> "written", file |-> file] ELSE [at |-> "leaving"]
    <3>1. op \in Operations
      BY <2>5 DEF Reading
    <3>2. prov' = [prov EXCEPT ![p] = state] /\ UNCHANGED <<store, table, lock, seen, downs>>
      BY <1>4, <2>2, <2>5 DEF Load
    <3>3. EtagMatches(table, op.row, read.etag) => Follows(table, file)
      BY <3>1, ChangedFollows
    <3> HIDE DEF file
    <3>4. state \in Provs /\ state.at \in {"written", "leaving"}
          /\ (state.at = "written" => Follows(table, state.file))
      BY <2>3, <3>3 DEF Follows, Provs
    <3> HIDE DEF state
    <3>5. TableTypeOK' /\ ReadsKnown' /\ WrittenFollows' /\ OneSnapshot'
      BY <3>2, <3>4, QuietStep DEF TableInv, TableTypeOK
    <3>6. Exclusive'
      BY <2>1, <3>2, <3>4, LockStep
    <3> QED
      BY <3>5, <3>6 DEF TableInv
  <2> QED
    BY <2>4, <2>5
<1>5. ASSUME NEW p \in Procs, Renamed(p) PROVE TableInv'
  <2>1. p \in lock /\ store = "file" /\ Follows(table, prov[p].file)
    BY <1>5 DEF Renamed, TableInv, TableTypeOK, Exclusive, WrittenFollows
  <2>2. [at |-> "leaving"] \in Provs
    BY DEF Provs
  <2>3. Exclusive'
    BY <1>5, <2>1, <2>2, LockStep DEF Renamed
  <2>4. CASE table' = table
    BY <1>5, <2>2, <2>3, <2>4, QuietStep DEF Renamed, TableInv, TableTypeOK
  <2>5. CASE table' = prov[p].file
    <3>1. \A q \in Procs : prov'[q] = IF q = p THEN [at |-> "leaving"] ELSE prov[q]
      BY <1>5 DEF Renamed, TableInv, TableTypeOK
    <3>2. TableTypeOK' /\ ReadsKnown' /\ OneSnapshot'
      BY <1>5, <2>1, <2>2, <2>5, <3>1, WriteStep DEF Renamed, TableInv, TableTypeOK
    <3>3. \A q \in Procs : prov'[q].at # "written"
      BY <2>1, <3>1 DEF TableInv, Exclusive
    <3> QED
      BY <2>3, <3>2, <3>3 DEF TableInv, WrittenFollows
  <2> QED
    BY <1>5, <2>4, <2>5 DEF Renamed
<1>6. ASSUME NEW p \in Procs, Release(p) PROVE TableInv'
  <2>1. TableTypeOK' /\ ReadsKnown' /\ WrittenFollows' /\ OneSnapshot'
    BY <1>0, <1>6, QuietStep DEF Release, TableInv, TableTypeOK
  <2>2. Exclusive'
    BY <1>0, <1>6, LockStep DEF Release
  <2> QED
    BY <2>1, <2>2 DEF TableInv
<1>7. ASSUME NEW p \in Procs, Transact(p) PROVE TableInv'
  <2>1. Follows(table, table') /\ UNCHANGED <<store, lock, prov, seen, downs>>
    BY <1>7, ChangedFollows DEF Transact
  <2>2. TableTypeOK' /\ ReadsKnown' /\ OneSnapshot'
    BY <2>1, WriteStep DEF TableInv, TableTypeOK
  <2>3. Exclusive' /\ WrittenFollows'
    BY <1>7, <2>1 DEF Transact, TableInv, Exclusive, WrittenFollows
  <2> QED
    BY <2>2, <2>3 DEF TableInv
<1>8. ASSUME NEW p \in Procs, SelectRows(p) PROVE TableInv'
  <2>1. [at |-> "selected", rows |-> table.rows] \in Provs
    BY DEF Provs, TableInv, TableTypeOK, Tables
  <2>2. Known(table.rows)
    BY DEF Known, RowKnown, TableInv, TableTypeOK, Tables, RowTables, Rows
  <2>3. TableTypeOK' /\ ReadsKnown' /\ WrittenFollows' /\ OneSnapshot'
    BY <1>8, <2>1, <2>2, QuietStep DEF SelectRows, TableInv, TableTypeOK
  <2>4. Exclusive'
    BY <1>8, <2>1, LockStep DEF SelectRows
  <2> QED
    BY <2>3, <2>4 DEF TableInv
<1>9. ASSUME NEW p \in Procs, SelectVersion(p) PROVE TableInv'
  <2>1. /\ prov[p].rows \in RowTables /\ Known(prov[p].rows)
        /\ store = "postgres"
    <3>1. prov[p] \in [at : {"selected"}, rows : RowTables]
      BY <1>0, <1>9 DEF SelectVersion, Provs, Resting
    <3>2. store \in {"file", "postgres"} /\ store # "file"
      BY <1>9 DEF SelectVersion, TableInv, TableTypeOK, Exclusive
    <3> QED
      BY <1>9, <3>1, <3>2 DEF SelectVersion, TableInv, ReadsKnown
  <2>2. \A q \in Procs : prov'[q] = IF q = p THEN Resting ELSE prov[q]
    BY <1>9 DEF SelectVersion, TableInv, TableTypeOK
  <2>6. \A q \in Procs :
          seen'[q] = IF q = p THEN [version |-> table.version, rows |-> prov[p].rows] ELSE seen[q]
    BY <1>9 DEF SelectVersion, TableInv, TableTypeOK
  <2>3. TableTypeOK'
    BY <1>0, <1>9, <2>1 DEF SelectVersion, TableInv, TableTypeOK, Tables
  <2>4. ReadsKnown' /\ WrittenFollows'
    BY <1>0, <1>9, <2>1, <2>2, <2>6
       DEF SelectVersion, TableInv, ReadsKnown, Known, WrittenFollows, Follows
  <2>5. Exclusive' /\ OneSnapshot'
    BY <1>0, <1>9, <2>1, <2>2 DEF SelectVersion, TableInv, Exclusive, OneSnapshot
  <2> QED
    BY <2>3, <2>4, <2>5 DEF TableInv
<1>10. ASSUME NEW p \in Procs, ProcCrash(p) PROVE TableInv'
  <2>1. /\ prov' = [prov EXCEPT ![p] = Resting]
        /\ seen' = [seen EXCEPT ![p] = Begun]
        /\ UNCHANGED <<store, table>> /\ downs' \in Nat
    BY <1>10 DEF ProcCrash, Begun, TableInv, TableTypeOK
  <2>2. \A q \in Procs : seen'[q] = IF q = p THEN Begun ELSE seen[q]
    BY <2>1 DEF TableInv, TableTypeOK
  <2>8. \A q \in Procs : prov'[q] = IF q = p THEN Resting ELSE prov[q]
    BY <2>1 DEF TableInv, TableTypeOK
  <2>3. TableTypeOK'
    BY <1>0, <2>1, BegunFacts DEF TableInv, TableTypeOK
  <2>5. ReadsKnown' /\ WrittenFollows'
    BY <1>0, <2>1, <2>2, <2>8 DEF TableInv, ReadsKnown, Known, WrittenFollows, Follows
  <2>6. OneSnapshot'
    BY <2>1, <2>2, <2>3, BegunFacts DEF TableInv, TableTypeOK, OneSnapshot, Tables, Begun
  <2>7. Exclusive'
    BY <1>0, <1>10, LockStep DEF ProcCrash
  <2> QED
    BY <2>3, <2>5, <2>6, <2>7 DEF TableInv
<1>11. CASE UNCHANGED tableVars
  BY <1>11 DEF tableVars, TableInv, TableTypeOK, Exclusive, WrittenFollows, Follows, ReadsKnown,
                Known, OneSnapshot
<1> QED
  BY <1>1, <1>2, <1>3, <1>4, <1>5, <1>6, <1>7, <1>8, <1>9, <1>10, <1>11 DEF TableNext

\* The invariant holds in every reachable state.
THEOREM TableInvariant == TableSpec => []TableInv
BY TableInitially, TableStep, PTL DEF TableSpec

\* A step leaves the table alone or replaces it by one that follows it.
LEMMA TableFollows ==
  ASSUME TableInv, [TableNext]_tableVars
  PROVE  table' = table \/ Follows(table, table')
<1>1. ASSUME NEW p \in Procs, Renamed(p) PROVE table' = table \/ Follows(table, table')
  BY <1>1 DEF Renamed, TableInv, WrittenFollows
<1>2. ASSUME NEW p \in Procs, Transact(p) PROVE Follows(table, table')
  BY <1>2, ChangedFollows DEF Transact
<1>3. ASSUME NEW p \in Procs, 
             \/ FileBegin(p) \/ Acquire(p) \/ LockTimeout(p) \/ Load(p) \/ Release(p)
             \/ SelectRows(p) \/ SelectVersion(p) \/ ProcCrash(p)
      PROVE  table' = table
  BY <1>3 DEF FileBegin, Acquire, LockTimeout, Load, Release, SelectRows, SelectVersion, ProcCrash
<1> QED
  BY <1>1, <1>2, <1>3 DEF TableNext, tableVars

\* A vote stays in the table as long as its row (try_update_silo, try_add_suspicion), for
\* every number of silos that write it and crash, in a file and in PostgreSQL.
THEOREM VotesAreNeverLost == TableSpec => VotesNeverLost
<1>1. ASSUME TableInv, [TableNext]_tableVars, NEW r \in RowIds, table'.rows[r].is = "here"
      PROVE  table.rows[r].votes \subseteq table'.rows[r].votes
  BY <1>1, TableFollows DEF Follows, RowFollows
<1>2. TableInv /\ [TableNext]_tableVars =>
        [\A r \in RowIds :
           table'.rows[r].is = "here" => table.rows[r].votes \subseteq table'.rows[r].votes
        ]_tableVars
  BY <1>1
<1> QED
  BY <1>2, TableInvariant, PTL DEF TableSpec, VotesNeverLost

\* All snapshots of one version of a file are the same (read_all, under the lock).
THEOREM FileSnapshotsAlwaysAgree == TableSpec => []FileSnapshotsAgree
<1>1. TableInv => FileSnapshotsAgree
  BY DEF TableInv, OneSnapshot, FileSnapshotsAgree, SnapshotsAgree
<1> QED
  BY <1>1, TableInvariant, PTL
-----------------------------------------------------------------------------
(* MemoryStream.                                                           *)

\* What is in a list of subscriptions, and that nothing is in it twice.
Members(q) == {q[i] : i \in 1..Len(q)}
Once(q) == \A i, j \in 1..Len(q) : q[i] = q[j] => i = j

StreamTypeOK ==
  /\ lists \in Seq(Seq(Subscribers))
  /\ live \in 0..Len(lists)
  /\ member \in [Subscribers -> {"new", "in", "out"}]
  /\ pub \in [Events -> [on : Nat, next : Nat \ {0}, done : BOOLEAN]]
  /\ got \in [Events -> Seq(Subscribers)]
  /\ due \in [Events -> SUBSET Subscribers]

\* A publication has delivered a beginning of its list, which only grows at its end, and
\* all that are due an event are in that list.
Delivers(q, e) ==
  /\ due[e] \subseteq Members(q)
  /\ \A i \in 1..Len(got[e]) : i <= Len(q) /\ got[e][i] = q[i]
PubOK(e) ==
  /\ pub[e].on <= Len(lists)
  /\ Len(got[e]) = pub[e].next - 1
  /\ pub[e].on = 0 => got[e] = <<>> /\ due[e] = {}
  /\ pub[e].on # 0 => Delivers(lists[pub[e].on], e)
  /\ pub[e].done => due[e] \subseteq Members(got[e])

\* Nobody is in a list twice or before it subscribes, and the stream's list has everyone.
ListsOK ==
  /\ \A k \in 1..Len(lists) : Once(lists[k]) /\ \A s \in Members(lists[k]) : member[s] # "new"
  /\ IF live = 0 THEN In = {} ELSE In \subseteq Members(lists[live])

StreamInv == StreamTypeOK /\ ListsOK /\ \A e \in Events : PubOK(e)

\* Taking a subscription out of a list leaves the others.
LEMMA Removed ==
  ASSUME NEW q \in Seq(Subscribers), Once(q), NEW s
  PROVE  /\ RemoveFirst(q, s) \in Seq(Subscribers)
         /\ Once(RemoveFirst(q, s))
         /\ Members(RemoveFirst(q, s)) = Members(q) \ {s}
<1> DEFINE n == Len(q)
           r == RemoveFirst(q, s)
<1>1. n \in Nat /\ \A i \in 1..n : q[i] \in Subscribers
  BY LenProperties
<1>2. CASE \A i \in 1..n : q[i] # s
  BY <1>2 DEF RemoveFirst, Members
<1>3. CASE \E i \in 1..n : q[i] = s
  <2>1. PICK i \in 1..n : q[i] = s
    BY <1>3
  <2> DEFINE I == {j \in 1..n : q[j] = s}
             a == SubSeq(q, 1, i - 1)
             b == SubSeq(q, i + 1, n)
  <2>2. I = {i}
    BY <2>1 DEF Once
  <2>3. Min(I) = i
    BY <1>1, <2>2 DEF Min
  <2>4. SelectInSeq(q, LAMBDA v : v = s) = i
    BY <2>2, <2>3 DEF SelectInSeq
  <2>5. r = a \o b
    BY <2>1, <2>4 DEF RemoveFirst, RemoveAt
  <2>6. /\ a \in Seq(Subscribers) /\ Len(a) = i - 1 /\ \A j \in 1..(i - 1) : a[j] = q[j]
    <3>1. i - 1 \in Int /\ \A j \in 1..(i - 1) : q[j] \in Subscribers
      BY <1>1
    <3>2. /\ a \in Seq(Subscribers)
          /\ Len(a) = IF 1 <= i - 1 THEN i - 1 - 1 + 1 ELSE 0
          /\ \A j \in 1..(i - 1 - 1 + 1) : a[j] = q[1 + j - 1]
      BY <3>1, SubSeqProperties
    <3> HIDE DEF a
    <3> QED
      BY <1>1, <3>2
  <2>7. /\ b \in Seq(Subscribers) /\ Len(b) = n - i /\ \A j \in 1..(n - i) : b[j] = q[i + j]
    <3>1. i + 1 \in Int /\ n \in Int /\ \A j \in (i + 1)..n : q[j] \in Subscribers
      BY <1>1
    <3>2. /\ b \in Seq(Subscribers)
          /\ Len(b) = IF i + 1 <= n THEN n - (i + 1) + 1 ELSE 0
          /\ \A j \in 1..(n - (i + 1) + 1) : b[j] = q[i + 1 + j - 1]
      BY <3>1, SubSeqProperties
    <3> HIDE DEF b
    <3> QED
      BY <1>1, <3>2
  <2> HIDE DEF a, b
  <2>8. /\ a \o b \in Seq(Subscribers)
        /\ Len(a \o b) = Len(a) + Len(b)
        /\ \A j \in 1..(Len(a) + Len(b)) : (a \o b)[j] = IF j <= Len(a) THEN a[j] ELSE b[j - Len(a)]
    BY <2>6, <2>7, ConcatProperties
  <2> HIDE DEF r
  <2>9. /\ r \in Seq(Subscribers) /\ Len(r) = n - 1
        /\ \A j \in 1..(n - 1) : r[j] = IF j < i THEN q[j] ELSE q[j + 1]
    <3>1. Len(a) + Len(b) = n - 1
      BY <1>1, <2>6, <2>7
    <3>2. ASSUME NEW j \in 1..(n - 1) PROVE r[j] = IF j < i THEN q[j] ELSE q[j + 1]
      <4>1. CASE j < i
        BY <1>1, <2>5, <2>6, <2>8, <3>1, <4>1
      <4>2. CASE ~(j < i)
        <5>1. r[j] = b[j - (i - 1)]
          BY <1>1, <2>5, <2>6, <2>8, <3>1, <4>2
        <5>2. j - (i - 1) \in 1..(n - i)
          BY <1>1, <4>2
        <5>3. b[j - (i - 1)] = q[i + (j - (i - 1))] /\ i + (j - (i - 1)) = j + 1
          BY <1>1, <2>7, <5>2
        <5> QED
          BY <4>2, <5>1, <5>3
      <4> QED
        BY <4>1, <4>2
    <3> QED
      BY <2>5, <2>8, <3>1, <3>2
  <2>10. Once(r)
    <3> SUFFICES ASSUME NEW j \in 1..(n - 1), NEW k \in 1..(n - 1), r[j] = r[k] PROVE j = k
      BY <2>9 DEF Once
    <3> DEFINE at(x) == IF x < i THEN x ELSE x + 1
    <3>1. at(j) \in 1..n /\ at(k) \in 1..n /\ q[at(j)] = q[at(k)]
      BY <1>1, <2>9
    <3>2. at(j) = at(k)
      BY <3>1 DEF Once
    <3> QED
      BY <1>1, <3>2
  <2>11. ASSUME NEW x PROVE x \in Members(r) <=> x \in Members(q) \ {s}
    <3>1. ASSUME NEW j \in 1..(n - 1), x = r[j] PROVE x \in Members(q) \ {s}
      <4> DEFINE k == IF j < i THEN j ELSE j + 1
      <4>1. k \in 1..n /\ k # i /\ x = q[k]
        BY <1>1, <2>9, <3>1
      <4>2. q[k] # s
        BY <2>1, <4>1 DEF Once
      <4> QED
        BY <4>1, <4>2 DEF Members
    <3>2. ASSUME NEW k \in 1..n, x = q[k], x # s PROVE x \in Members(r)
      <4> DEFINE j == IF k < i THEN k ELSE k - 1
      <4>1. k # i
        BY <2>1, <3>2
      <4>2. j \in 1..(n - 1) /\ r[j] = q[k]
        BY <1>1, <2>9, <4>1
      <4> QED
        BY <2>9, <3>2, <4>2 DEF Members
    <3> QED
      BY <2>9, <3>1, <3>2 DEF Members
  <2> QED
    BY <2>9, <2>10, <2>11 DEF r
<1> QED
  BY <1>2, <1>3

\* Lists that grow at their ends, or become more, leave publications as they are.
LEMMA PubsStay ==
  ASSUME StreamInv, UNCHANGED <<pub, got>>,
         Len(lists') >= Len(lists), Len(lists') \in Nat,
         \A k \in 1..Len(lists) : /\ Len(lists'[k]) >= Len(lists[k]) /\ Len(lists'[k]) \in Nat
                                  /\ \A i \in 1..Len(lists[k]) : lists'[k][i] = lists[k][i],
         \A e \in Events : due'[e] \subseteq due[e]
  PROVE  \A e \in Events : PubOK(e)'
<1> SUFFICES ASSUME NEW e \in Events PROVE PubOK(e)'
  OBVIOUS
<1>1. /\ PubOK(e) /\ due'[e] \subseteq due[e] /\ pub[e].on \in Nat
      /\ Len(lists) \in Nat /\ got[e] \in Seq(Subscribers)
  BY LenProperties DEF StreamInv, StreamTypeOK
<1>2. ASSUME pub[e].on # 0 PROVE Delivers(lists[pub[e].on], e)'
  <2> DEFINE k == pub[e].on
  <2>1. k \in 1..Len(lists) /\ Delivers(lists[k], e)
    BY <1>1, <1>2 DEF PubOK
  <2>2. Len(lists[k]) \in Nat /\ Len(got[e]) \in Nat
    BY <1>1, <2>1, LenProperties DEF StreamInv, StreamTypeOK
  <2> HIDE DEF k
  <2>6. /\ Len(lists'[k]) >= Len(lists[k]) /\ Len(lists'[k]) \in Nat
        /\ \A i \in 1..Len(lists[k]) : lists'[k][i] = lists[k][i]
    BY <2>1
  <2>3. Members(lists[k]) \subseteq Members(lists'[k])
    <3>1. \A i \in 1..Len(lists[k]) : i \in 1..Len(lists'[k])
      BY <2>2, <2>6
    <3> QED
      BY <2>6, <3>1 DEF Members
  <2>4. \A i \in 1..Len(got[e]) : i <= Len(lists'[k]) /\ got[e][i] = lists'[k][i]
    <3>1. \A i \in 1..Len(got[e]) : i \in 1..Len(lists[k])
      BY <2>1, <2>2 DEF Delivers
    <3>2. \A i \in 1..Len(lists[k]) : i <= Len(lists'[k])
      BY <2>2, <2>6
    <3> QED
      BY <2>1, <2>6, <3>1, <3>2 DEF Delivers
  <2>5. due'[e] \subseteq Members(lists'[k])
    BY <1>1, <2>1, <2>3 DEF Delivers
  <2> QED
    BY <2>4, <2>5 DEF Delivers, Members, k
<1> QED
  BY <1>1, <1>2 DEF PubOK, Members

\* A subscriber added to a list that is being walked is met at its end.
LEMMA SubscribeKeeps ==
  ASSUME StreamInv, NEW s \in Subscribers, Subscribe(s)
  PROVE  StreamInv'
<1>1. /\ Len(lists) \in Nat
      /\ \A k \in 1..Len(lists) : /\ lists[k] \in Seq(Subscribers) /\ Len(lists[k]) \in Nat
                                  /\ Once(lists[k]) /\ s \notin Members(lists[k])
      /\ live \in 0..Len(lists)
  BY LenProperties DEF StreamInv, StreamTypeOK, ListsOK, Subscribe
<1>2. /\ member' = [member EXCEPT ![s] = "in"]
      /\ UNCHANGED <<pub, got, due>>
      /\ In' = In \union {s}
  BY DEF Subscribe, In, StreamInv, StreamTypeOK
<1>3. CASE live = 0
  <2>1. lists' = Append(lists, <<s>>) /\ live' = Len(lists') /\ In = {}
    BY <1>3 DEF Subscribe, StreamInv, ListsOK
  <2>2. <<s>> \in Seq(Subscribers) /\ Len(<<s>>) = 1 /\ <<s>>[1] = s
    OBVIOUS
  <2>3. /\ lists' \in Seq(Seq(Subscribers)) /\ Len(lists') = Len(lists) + 1
        /\ \A k \in 1..Len(lists) : lists'[k] = lists[k]
        /\ lists'[Len(lists) + 1] = <<s>>
    BY <2>1, <2>2, AppendProperties DEF StreamInv, StreamTypeOK
  <2>4. Members(<<s>>) = {s} /\ Once(<<s>>)
    BY <2>2 DEF Members, Once
  <2>5. StreamTypeOK'
    BY <1>1, <1>2, <2>1, <2>3 DEF StreamInv, StreamTypeOK
  <2>6. ASSUME NEW k \in 1..Len(lists')
        PROVE  Once(lists'[k]) /\ \A t \in Members(lists'[k]) : member'[t] # "new"
    <3>4. member'[s] = "in" /\ \A t : t # s => member'[t] = member[t] \/ t \notin Subscribers
      BY <1>2 DEF StreamInv, StreamTypeOK
    <3>1. CASE k = Len(lists) + 1
      BY <2>3, <2>4, <3>1, <3>4
    <3>2. CASE k # Len(lists) + 1
      <4>1. k \in 1..Len(lists) /\ lists'[k] = lists[k]
        BY <1>1, <2>3, <3>2
      <4>2. \A t \in Members(lists[k]) : member[t] # "new" /\ t # s
        BY <1>1, <4>1 DEF StreamInv, ListsOK
      <4>3. Members(lists[k]) \subseteq Subscribers
        BY <1>1, <4>1, LenProperties DEF Members
      <4> QED
        BY <1>1, <3>4, <4>1, <4>2, <4>3
    <3> QED
      BY <3>1, <3>2
  <2>7. In' \subseteq Members(lists'[live']) /\ live' # 0
    BY <1>1, <1>2, <2>1, <2>3, <2>4
  <2>8. ListsOK'
    BY <2>6, <2>7 DEF ListsOK, Once, Members
  <2>9. \A e \in Events : PubOK(e)'
    BY <1>1, <1>2, <2>3, PubsStay
  <2> QED
    BY <2>5, <2>8, <2>9 DEF StreamInv
<1>4. CASE live # 0
  <2> DEFINE q == lists[live]
             r == Append(q, s)
  <2>1. live \in 1..Len(lists)
    BY <1>1, <1>4
  <2>2. q \in Seq(Subscribers) /\ Len(q) \in Nat /\ Once(q) /\ s \notin Members(q)
    BY <1>1, <2>1
  <2>3. lists' = [lists EXCEPT ![live] = r] /\ live' = live
    BY <1>4 DEF Subscribe
  <2> HIDE DEF q
  <2>4. /\ r \in Seq(Subscribers) /\ Len(r) = Len(q) + 1
        /\ \A i \in 1..Len(q) : r[i] = q[i]
        /\ r[Len(q) + 1] = s
    BY <2>2, AppendProperties
  <2> HIDE DEF r
  <2>5. Members(r) = Members(q) \union {s} /\ Once(r)
    <3>1. \A i \in 1..Len(q) : q[i] # s
      BY <2>2 DEF Members
    <3>2. Once(r)
      BY <2>2, <2>4, <3>1 DEF Once
    <3>3. ASSUME NEW x PROVE x \in Members(r) <=> x \in Members(q) \/ x = s
      <4>1. \A i \in 1..Len(r) : i = Len(q) + 1 \/ i \in 1..Len(q)
        BY <2>2, <2>4
      <4>2. \A i \in 1..Len(q) : i \in 1..Len(r)
        BY <2>2, <2>4
      <4>3. Len(q) + 1 \in 1..Len(r)
        BY <2>2, <2>4
      <4> QED
        BY <2>4, <4>1, <4>2, <4>3 DEF Members
    <3> QED
      BY <3>2, <3>3
  <2>6. /\ lists' \in Seq(Seq(Subscribers)) /\ Len(lists') = Len(lists)
        /\ \A k \in 1..Len(lists) : lists'[k] = IF k = live THEN r ELSE lists[k]
    BY <2>1, <2>3, <2>4, ExceptSeq DEF StreamInv, StreamTypeOK
  <2>7. StreamTypeOK'
    BY <1>1, <1>2, <2>3, <2>6 DEF StreamInv, StreamTypeOK
  <2>8. ASSUME NEW k \in 1..Len(lists')
        PROVE  Once(lists'[k]) /\ \A t \in Members(lists'[k]) : member'[t] # "new"
    <3>1. k \in 1..Len(lists) /\ Once(lists'[k])
      BY <1>1, <2>5, <2>6
    <3>2. \A t \in Members(lists'[k]) : t = s \/ t \in Members(lists[k])
      BY <2>5, <2>6, <3>1 DEF q
    <3>3. \A t \in Members(lists[k]) : member[t] # "new"
      BY <3>1 DEF StreamInv, ListsOK
    <3> QED
      BY <1>2, <3>1, <3>2, <3>3 DEF StreamInv, StreamTypeOK
  <2>9. In' \subseteq Members(lists'[live']) /\ live' # 0
    BY <1>2, <1>4, <2>1, <2>3, <2>5, <2>6 DEF q, StreamInv, ListsOK
  <2>10. ListsOK'
    BY <2>8, <2>9 DEF ListsOK, Once, Members
  <2>11. \A e \in Events : PubOK(e)'
    BY <1>1, <1>2, <2>2, <2>4, <2>6, PubsStay DEF q
  <2> QED
    BY <2>7, <2>10, <2>11 DEF StreamInv
<1> QED
  BY <1>3, <1>4

\* A subscriber removed from a copy is still met in the list that is being walked.
LEMMA UnsubscribeKeeps ==
  ASSUME StreamInv, NEW s \in Subscribers, Unsubscribe(s)
  PROVE  StreamInv'
<1> DEFINE rest == RemoveFirst(lists[live], s)
<1>1. /\ Len(lists) \in Nat /\ live \in 0..Len(lists)
      /\ \A k \in 1..Len(lists) : /\ lists[k] \in Seq(Subscribers) /\ Len(lists[k]) \in Nat
                                  /\ Once(lists[k])
                                  /\ \A t \in Members(lists[k]) : member[t] # "new"
  BY LenProperties DEF StreamInv, StreamTypeOK, ListsOK
<1>2. /\ member' = [member EXCEPT ![s] = "out"]
      /\ due' = [e \in Events |-> due[e] \ {s}]
      /\ UNCHANGED <<pub, got>>
      /\ In' = In \ {s}
  BY DEF Unsubscribe, In, StreamInv, StreamTypeOK
<1>3. \A t : member[t] # "new" => member'[t] # "new" \/ t \notin Subscribers
  BY <1>2 DEF StreamInv, StreamTypeOK
<1>4. \A k \in 1..Len(lists) : Members(lists[k]) \subseteq Subscribers
  BY <1>1, LenProperties DEF Members
<1>5. live # 0 => /\ rest \in Seq(Subscribers) /\ Once(rest)
                  /\ Members(rest) = Members(lists[live]) \ {s}
  BY <1>1, Removed
<1> HIDE DEF rest
<1>6. CASE live = 0 \/ rest = <<>>
  <2>1. lists' = lists /\ live' = 0
    BY <1>6 DEF Unsubscribe, rest
  <2>2. In' = {}
    <3>1. live # 0 => Members(rest) = {}
      BY <1>6 DEF Members
    <3> QED
      BY <1>2, <1>5, <3>1 DEF StreamInv, ListsOK
  <2>3. StreamTypeOK'
    BY <1>1, <1>2, <2>1 DEF StreamInv, StreamTypeOK
  <2>4. ListsOK'
    BY <1>1, <1>3, <1>4, <2>1, <2>2 DEF ListsOK, Once, Members
  <2>5. \A e \in Events : PubOK(e)'
    BY <1>1, <1>2, <2>1, PubsStay
  <2> QED
    BY <2>3, <2>4, <2>5 DEF StreamInv
<1>7. CASE live # 0 /\ rest # <<>>
  <2>1. lists' = Append(lists, rest) /\ live' = Len(lists')
    BY <1>7 DEF Unsubscribe, rest
  <2>2. /\ lists' \in Seq(Seq(Subscribers)) /\ Len(lists') = Len(lists) + 1
        /\ \A k \in 1..Len(lists) : lists'[k] = lists[k]
        /\ lists'[Len(lists) + 1] = rest
    BY <1>5, <1>7, <2>1, AppendProperties DEF StreamInv, StreamTypeOK
  <2>3. StreamTypeOK'
    BY <1>1, <1>2, <2>1, <2>2 DEF StreamInv, StreamTypeOK
  <2>4. ASSUME NEW k \in 1..Len(lists')
        PROVE  Once(lists'[k]) /\ \A t \in Members(lists'[k]) : member'[t] # "new"
    <3>1. live \in 1..Len(lists)
      BY <1>1, <1>7
    <3>2. CASE k = Len(lists) + 1
      BY <1>1, <1>3, <1>4, <1>5, <1>7, <2>2, <3>1, <3>2
    <3>3. CASE k # Len(lists) + 1
      <4>1. k \in 1..Len(lists) /\ lists'[k] = lists[k]
        BY <1>1, <2>2, <3>3
      <4> QED
        BY <1>1, <1>3, <1>4, <4>1
    <3> QED
      BY <3>2, <3>3
  <2>5. In' \subseteq Members(lists'[live']) /\ live' # 0
    BY <1>1, <1>2, <1>5, <1>7, <2>1, <2>2 DEF StreamInv, ListsOK
  <2>6. ListsOK'
    BY <2>4, <2>5 DEF ListsOK, Once, Members
  <2>7. \A e \in Events : PubOK(e)'
    BY <1>1, <1>2, <2>2, PubsStay
  <2> QED
    BY <2>3, <2>6, <2>7 DEF StreamInv
<1> QED
  BY <1>6, <1>7

\* The steps of a publication.
LEMMA PublishKeeps ==
  ASSUME StreamInv, NEW e \in Events, Publish(e) \/ Deliver(e) \/ Published(e)
  PROVE  StreamInv'
<1>1. UNCHANGED <<lists, live, member>>
  BY DEF Publish, Deliver, Published
<1>2. ListsOK'
  BY <1>1 DEF StreamInv, ListsOK, In, Once, Members
<1>3. /\ Len(lists) \in Nat /\ live \in 0..Len(lists) /\ PubOK(e)
      /\ got[e] \in Seq(Subscribers) /\ Len(got[e]) \in Nat
      /\ pub[e] \in [on : Nat, next : Nat \ {0}, done : BOOLEAN]
      /\ In \subseteq Subscribers
      /\ \A k \in 1..Len(lists) : lists[k] \in Seq(Subscribers) /\ Len(lists[k]) \in Nat
  BY LenProperties DEF StreamInv, StreamTypeOK, In
<1>4. ASSUME StreamTypeOK', PubOK(e)',
             \A f \in Events \ {e} : pub'[f] = pub[f] /\ got'[f] = got[f] /\ due'[f] = due[f]
      PROVE  StreamInv'
  <2>1. ASSUME NEW f \in Events PROVE PubOK(f)'
    <3>1. CASE f = e
      BY <1>4, <3>1
    <3>2. CASE f # e
      <4>1. PubOK(f) /\ pub'[f] = pub[f] /\ got'[f] = got[f] /\ due'[f] = due[f]
        BY <1>4, <3>2 DEF StreamInv
      <4> QED
        BY <1>1, <4>1 DEF PubOK, Delivers, Members
    <3> QED
      BY <3>1, <3>2
  <2> QED
    BY <1>2, <1>4, <2>1 DEF StreamInv
<1>5. CASE Publish(e)
  <2>1. /\ pub[e] = Unsent /\ got' = got
        /\ pub' = [pub EXCEPT ![e] = [on |-> live, next |-> 1, done |-> (live = 0)]]
        /\ due' = [due EXCEPT ![e] = In]
    BY <1>5 DEF Publish
  <2>2. got[e] = <<>>
    BY <1>3, <2>1 DEF PubOK, Unsent
  <2>3. pub'[e] = [on |-> live, next |-> 1, done |-> (live = 0)] /\ due'[e] = In
    BY <2>1 DEF StreamInv, StreamTypeOK, Unsent
  <2>4. StreamTypeOK'
    <3>1. [on |-> live, next |-> 1, done |-> (live = 0)]
            \in [on : Nat, next : Nat \ {0}, done : BOOLEAN]
      BY <1>3
    <3>2. pub' \in [Events -> [on : Nat, next : Nat \ {0}, done : BOOLEAN]]
      BY <2>1, <3>1 DEF StreamInv, StreamTypeOK
    <3> QED
      BY <1>1, <1>3, <2>1, <3>2 DEF StreamInv, StreamTypeOK
  <2>5. IF live = 0 THEN In = {} ELSE In \subseteq Members(lists[live])
    BY DEF StreamInv, ListsOK
  <2>6. Members(<<>>) = {}
    BY DEF Members
  <2>7. PubOK(e)'
    <3>1. got'[e] = <<>> /\ Len(got'[e]) = 0 /\ lists' = lists
      BY <1>1, <2>1, <2>2
    <3>2. live # 0 => Delivers(lists[live], e)'
      BY <1>1, <2>3, <2>5, <3>1 DEF Delivers, Members
    <3>3. live = 0 => In = {}
      BY <2>5
    <3>4. pub'[e].on = live /\ pub'[e].next = 1 /\ pub'[e].done = (live = 0)
      BY <2>3
    <3>5. due'[e] = In /\ live <= Len(lists')
      BY <1>1, <1>3, <2>3
    <3>6. live = 0 => due'[e] \subseteq Members(got'[e])
      BY <3>3, <3>5
    <3>7. pub'[e].done => due'[e] \subseteq Members(got'[e])
      BY <3>4, <3>6, Zenon
    <3>8. live = 0 => got'[e] = <<>> /\ due'[e] = {}
      BY <3>1, <3>3, <3>5
    <3>9. Len(got'[e]) = pub'[e].next - 1
      BY <3>1, <3>4
    <3> QED
      BY <1>1, <3>2, <3>4, <3>5, <3>7, <3>8, <3>9 DEF PubOK, Members
  <2> QED
    BY <1>4, <2>1, <2>4, <2>7 DEF StreamInv, StreamTypeOK
<1>6. CASE Deliver(e)
  <2> DEFINE q == lists[pub[e].on]
             n == pub[e].next
  <2>1. pub[e].on \in 1..Len(lists)
    BY <1>3, <1>6 DEF Deliver, PubOK
  <2>2. /\ n \in Nat \ {0} /\ n <= Len(q) /\ q \in Seq(Subscribers) /\ Len(q) \in Nat
        /\ q[n] \in Subscribers
        /\ ~pub[e].done
        /\ got' = [got EXCEPT ![e] = Append(got[e], q[n])]
        /\ pub' = [pub EXCEPT ![e].next = n + 1]
        /\ due' = due
    BY <1>3, <1>6, <2>1, LenProperties DEF Deliver
  <2>3. Delivers(q, e) /\ Len(got[e]) = n - 1
    BY <1>3, <2>1 DEF PubOK
  <2>4. /\ pub'[e].on = pub[e].on /\ pub'[e].next = n + 1 /\ pub'[e].done = FALSE
        /\ got'[e] = Append(got[e], q[n]) /\ due'[e] = due[e]
    BY <1>3, <2>2 DEF StreamInv, StreamTypeOK
  <2>5. /\ got'[e] \in Seq(Subscribers) /\ Len(got'[e]) = n
        /\ \A i \in 1..(n - 1) : got'[e][i] = got[e][i]
        /\ got'[e][n] = q[n]
    BY <1>3, <2>2, <2>3, <2>4, AppendProperties
  <2>6. StreamTypeOK'
    <3>1. got' \in [Events -> Seq(Subscribers)]
      <4>1. Append(got[e], q[n]) \in Seq(Subscribers)
        BY <2>4, <2>5
      <4> HIDE DEF q, n
      <4> QED
        BY <2>2, <4>1 DEF StreamInv, StreamTypeOK
    <3>2. pub' \in [Events -> [on : Nat, next : Nat \ {0}, done : BOOLEAN]]
      <4>1. n + 1 \in Nat \ {0}
        BY <2>2
      <4>2. [pub[e] EXCEPT !.next = n + 1] \in [on : Nat, next : Nat \ {0}, done : BOOLEAN]
        BY <1>3, <4>1
      <4> HIDE DEF n, q
      <4>3. pub' = [pub EXCEPT ![e] = [pub[e] EXCEPT !.next = n + 1]]
        BY <2>2
      <4> QED
        BY <4>2, <4>3 DEF StreamInv, StreamTypeOK
    <3> QED
      BY <1>1, <2>2, <3>1, <3>2 DEF StreamInv, StreamTypeOK
  <2>7. \A i \in 1..Len(got'[e]) : i <= Len(q) /\ got'[e][i] = q[i]
    BY <2>2, <2>3, <2>5 DEF Delivers
  <2>8. Delivers(q, e)'
    BY <1>1, <2>3, <2>4, <2>7 DEF Delivers, Members
  <2>9. PubOK(e)'
    <3>1. pub'[e].on = pub[e].on /\ pub[e].on # 0 /\ pub[e].on <= Len(lists') /\ ~pub'[e].done
      BY <1>1, <2>1, <2>4
    <3>2. Len(got'[e]) = pub'[e].next - 1
      BY <2>2, <2>4, <2>5
    <3> HIDE DEF n
    <3> QED
      BY <2>8, <3>1, <3>2 DEF PubOK
  <2> QED
    BY <1>4, <2>2, <2>6, <2>9 DEF StreamInv, StreamTypeOK
<1>7. CASE Published(e)
  <2> DEFINE q == lists[pub[e].on]
  <2>1. pub[e].on \in 1..Len(lists)
    BY <1>3, <1>7 DEF Published, PubOK
  <2>2. /\ pub[e].next > Len(q) /\ Len(q) \in Nat
        /\ pub' = [pub EXCEPT ![e].done = TRUE] /\ UNCHANGED <<got, due>>
    BY <1>3, <1>7, <2>1 DEF Published
  <2>3. Delivers(q, e) /\ Len(got[e]) = pub[e].next - 1
    BY <1>3, <2>1 DEF PubOK
  <2>4. Members(q) \subseteq Members(got[e])
    <3>1. \A i \in 1..Len(q) : i \in 1..Len(got[e])
      BY <1>3, <2>2, <2>3
    <3> QED
      BY <2>3, <3>1 DEF Delivers, Members
  <2>5. StreamTypeOK'
    BY <1>1, <2>2 DEF StreamInv, StreamTypeOK
  <2>6. /\ pub'[e].on = pub[e].on /\ pub'[e].next = pub[e].next
        /\ got'[e] = got[e] /\ due'[e] = due[e]
    BY <1>3, <2>2 DEF StreamInv, StreamTypeOK
  <2>7. due[e] \subseteq Members(got[e])
    BY <2>3, <2>4 DEF Delivers
  <2>8. PubOK(e)'
    BY <1>1, <1>3, <2>2, <2>6, <2>7 DEF PubOK, Delivers, Members
  <2> QED
    BY <1>4, <2>2, <2>5, <2>8 DEF StreamInv, StreamTypeOK
<1> QED
  BY <1>5, <1>6, <1>7

\* Whoever stays subscribed gets each event once, however many subscribe, unsubscribe or
\* publish between two callbacks: the list a publication walks through only grows.
THEOREM EachGotItOnce == StreamSpec => []EachGetsItOnce
<1>1. StreamInit => StreamInv
  <2> SUFFICES ASSUME StreamInit PROVE StreamInv
    OBVIOUS
  <2>1. lists = <<>> /\ Len(lists) = 0 /\ lists \in Seq(Seq(Subscribers)) /\ live = 0
    BY DEF StreamInit
  <2>2. StreamTypeOK
    BY <2>1 DEF StreamInit, StreamTypeOK, Unsent
  <2>3. ListsOK
    BY <2>1 DEF StreamInit, ListsOK, In
  <2>4. \A e \in Events : PubOK(e)
    BY <2>1 DEF StreamInit, PubOK, Unsent
  <2> QED
    BY <2>2, <2>3, <2>4 DEF StreamInv
<1>2. StreamInv /\ [StreamNext]_streamVars => StreamInv'
  <2> SUFFICES ASSUME StreamInv, [StreamNext]_streamVars PROVE StreamInv'
    OBVIOUS
  <2>1. CASE UNCHANGED streamVars
    <3>1. StreamTypeOK' /\ ListsOK'
      BY <2>1 DEF streamVars, StreamInv, StreamTypeOK, ListsOK, In, Once, Members
    <3>2. \A e \in Events : PubOK(e)'
      BY <2>1 DEF streamVars, StreamInv, PubOK, Delivers, Members
    <3> QED
      BY <3>1, <3>2 DEF StreamInv
  <2> QED
    BY <2>1, SubscribeKeeps, UnsubscribeKeeps, PublishKeeps DEF StreamNext
<1>3. StreamInv => EachGetsItOnce
  <2> SUFFICES ASSUME StreamInv, NEW e \in Events
               PROVE  /\ pub[e].done => due[e] \subseteq Range(got[e])
                      /\ \A i, j \in DOMAIN got[e] : got[e][i] = got[e][j] => i = j
    BY DEF EachGetsItOnce
  <2>1. PubOK(e) /\ got[e] \in Seq(Subscribers) /\ pub[e].on \in Nat /\ Len(lists) \in Nat
    BY LenProperties DEF StreamInv, StreamTypeOK
  <2>2. DOMAIN got[e] = 1..Len(got[e]) /\ Len(got[e]) \in Nat
    BY <2>1, LenProperties
  <2>3. Range(got[e]) = Members(got[e])
    BY <2>2 DEF Range, Members
  <2>4. ASSUME NEW i \in 1..Len(got[e]), NEW j \in 1..Len(got[e]), got[e][i] = got[e][j]
        PROVE  i = j
    <3> DEFINE q == lists[pub[e].on]
    <3>1. pub[e].on # 0
      BY <2>1, <2>4 DEF PubOK
    <3>2. pub[e].on \in 1..Len(lists) /\ Delivers(q, e)
      BY <2>1, <3>1 DEF PubOK
    <3>3. Once(q) /\ Len(q) \in Nat
      BY <3>2, LenProperties DEF StreamInv, StreamTypeOK, ListsOK
    <3>4. i \in 1..Len(q) /\ j \in 1..Len(q) /\ q[i] = q[j]
      BY <2>2, <2>4, <3>2, <3>3 DEF Delivers
    <3> QED
      BY <3>3, <3>4 DEF Once
  <2> QED
    BY <2>1, <2>2, <2>3, <2>4 DEF PubOK
<1> QED
  BY <1>1, <1>2, <1>3, PTL DEF StreamSpec
=============================================================================
