--------------------------- MODULE MembershipTable ---------------------------
(***************************************************************************)
(* The stores behind the membership port: a file that silos share under a  *)
(* kernel lock (markdown_table_membership.py, yaml_membership.py,          *)
(* file_lock.py), or a PostgreSQL table (postgresql_membership.py).  A     *)
(* silo has one provider, which does one operation at a time; every silo   *)
(* works from the snapshot it read last, as the callers of the port do.    *)
(***************************************************************************)
EXTENDS Naturals, FiniteSets

CONSTANTS
  Procs,        \* the silos that use the table
  RowIds,       \* the rows: silo ids, each used once
  Stores,       \* the kinds of table, a subset of {"file", "postgres"}
  MaxTable,     \* bound: versions of the table
  MaxCrashed    \* bound: crashes of silos

ASSUME TableAssumption ==
  /\ Stores \subseteq {"file", "postgres"}
  /\ MaxTable \in Nat /\ MaxCrashed \in Nat

VARIABLES
  store,    \* which kind of table it is
  table,    \* [version, rows]: the file, or what is committed
  lock,     \* the silos whose provider holds the lock of the file
  prov,     \* what the provider of each silo is doing
  seen,     \* the snapshot each silo read last
  downs     \* crashes so far

tableVars == <<store, table, lock, prov, seen, downs>>

\* A row: whether it is there ("fresh" before its silo registers, "gone" after), its
\* etag, and its suspicion votes.
NewRow == [is |-> "fresh", etag |-> 0, votes |-> {}]

\* What an operation does to the table; "read" does nothing.
Kinds == {"update", "suspect", "delete"}
Operations == [kind : Kinds, row : RowIds]
Resting == [at |-> "idle"]

TableInit ==
  /\ store \in Stores
  /\ table = [version |-> 0, rows |-> [r \in RowIds |-> NewRow]]
  /\ lock = {}
  /\ prov = [p \in Procs |-> Resting]
  /\ seen = [p \in Procs |-> table]
  /\ downs = 0
-----------------------------------------------------------------------------
\* Mutated: the operation is applied to whatever the row is now.
EtagMatches_Always(t, row, etag) == TRUE

\* The compare of compare-and-swap: the row is what the caller read.  A row that is not
\* there matches no etag, and is created by a caller that read none.
EtagMatches(t, row, etag) ==
  t.rows[row].is # "gone" /\ t.rows[row].etag = etag

\* The table t after the operation op of silo p, which had read the row as `read`: an
\* update replaces the row by a copy of what was read, votes included, a suspicion
\* appends to it.  The version goes up with every write; a file's etag digests it, a row
\* of PostgreSQL counts its own.
Changed(t, p, op, read) ==
  LET old == t.rows[op.row]
      etag == IF store = "file" THEN t.version + 1 ELSE old.etag + 1
      new == CASE op.kind = "update" -> [is |-> "here", etag |-> etag, votes |-> read.votes]
               [] op.kind = "suspect" -> [old EXCEPT !.etag = etag, !.votes = @ \cup {p}]
               [] op.kind = "delete" -> [old EXCEPT !.is = "gone"]
  IN  [version |-> t.version + 1, rows |-> [t.rows EXCEPT ![op.row] = new]]

\* A caller votes on, or deletes, only a row it has read; a silo registers under an id
\* that was never used.
Sensible(p, op) ==
  seen[p].rows[op.row].is \in IF op.kind = "update" THEN {"fresh", "here"} ELSE {"here"}
-----------------------------------------------------------------------------
(* The file.                                                               *)

\* An operation begins: it polls for the lock of the file.
FileBegin(p) ==
  /\ store = "file" /\ prov[p] = Resting /\ table.version < MaxTable
  /\ \E op \in {o \in Operations : Sensible(p, o)} \cup {[kind |-> "read"]} :
       prov' = [prov EXCEPT ![p] = [at |-> "locking", op |-> op]]
  /\ UNCHANGED <<store, table, lock, seen, downs>>

\* Mutated: the lock is taken whoever holds it.
Acquire_Always(p) ==
  /\ prov[p].at = "locking"
  /\ lock' = lock \cup {p}
  /\ prov' = [prov EXCEPT ![p] = [at |-> "locked", op |-> prov[p].op]]
  /\ UNCHANGED <<store, table, seen, downs>>

Acquire(p) ==
  /\ prov[p].at = "locking"
  /\ lock = {}
  /\ lock' = {p}
  /\ prov' = [prov EXCEPT ![p] = [at |-> "locked", op |-> prov[p].op]]
  /\ UNCHANGED <<store, table, seen, downs>>

\* The deadline passes: the operation raises.
LockTimeout(p) ==
  /\ prov[p].at = "locking"
  /\ prov' = [prov EXCEPT ![p] = Resting]
  /\ UNCHANGED <<store, table, lock, seen, downs>>

\* The file is read.  A read returns it; an operation whose etag does not match raises;
\* any other has the new content written to a temporary file.
Load(p) ==
  LET op == prov[p].op
      read == seen[p].rows[op.row]
  IN
  /\ prov[p].at = "locked"
  /\ \/ /\ op.kind = "read"
        /\ seen' = [seen EXCEPT ![p] = table]
        /\ prov' = [prov EXCEPT ![p] = [at |-> "leaving"]]
     \/ /\ op.kind # "read"
        /\ prov' = [prov EXCEPT ![p] =
             IF EtagMatches(table, op.row, read.etag)
             THEN [at |-> "written", file |-> Changed(table, p, op, read)]
             ELSE [at |-> "leaving"]]
        /\ UNCHANGED seen
  /\ UNCHANGED <<store, table, lock, downs>>

\* os.replace puts the temporary file in the place of the table, or writing failed.
Renamed(p) ==
  /\ prov[p].at = "written"
  /\ table' \in {table, prov[p].file}
  /\ prov' = [prov EXCEPT ![p] = [at |-> "leaving"]]
  /\ UNCHANGED <<store, lock, seen, downs>>

Release(p) ==
  /\ prov[p].at = "leaving"
  /\ lock' = lock \ {p}
  /\ prov' = [prov EXCEPT ![p] = Resting]
  /\ UNCHANGED <<store, table, seen, downs>>
-----------------------------------------------------------------------------
(* PostgreSQL.  A statement sees what was committed when it began; the      *)
(* version's row makes writing transactions wait for one another.          *)

\* A transaction that writes: the guarded UPDATE, INSERT or DELETE, and the version.  The
\* caller may get an error although it was committed.
Transact(p) ==
  /\ store = "postgres" /\ prov[p] = Resting /\ table.version < MaxTable
  /\ \E op \in {o \in Operations : Sensible(p, o)} :
       /\ EtagMatches(table, op.row, seen[p].rows[op.row].etag)
       /\ table' = Changed(table, p, op, seen[p].rows[op.row])
  /\ UNCHANGED <<store, lock, prov, seen, downs>>

\* read_all: the first statement reads the rows,
SelectRows(p) ==
  /\ store = "postgres" /\ prov[p] = Resting
  /\ prov' = [prov EXCEPT ![p] = [at |-> "selected", rows |-> table.rows]]
  /\ UNCHANGED <<store, table, lock, seen, downs>>

\* and the second the version, in a READ COMMITTED transaction.
SelectVersion(p) ==
  /\ prov[p].at = "selected"
  /\ seen' = [seen EXCEPT ![p] = [version |-> table.version, rows |-> prov[p].rows]]
  /\ prov' = [prov EXCEPT ![p] = Resting]
  /\ UNCHANGED <<store, table, lock, downs>>
-----------------------------------------------------------------------------
\* A silo dies in the middle of an operation: the kernel releases its lock, a temporary
\* file stays, a transaction is rolled back.  Its successor has read nothing.
ProcCrash(p) ==
  /\ downs < MaxCrashed
  /\ downs' = downs + 1
  /\ prov' = [prov EXCEPT ![p] = Resting]
  /\ lock' = lock \ {p}
  /\ seen' = [seen EXCEPT ![p] = [version |-> 0, rows |-> [r \in RowIds |-> NewRow]]]
  /\ UNCHANGED <<store, table>>

TableNext ==
  \E p \in Procs :
    \/ FileBegin(p) \/ Acquire(p) \/ LockTimeout(p) \/ Load(p) \/ Renamed(p) \/ Release(p)
    \/ Transact(p) \/ SelectRows(p) \/ SelectVersion(p) \/ ProcCrash(p)

TableSpec == TableInit /\ [][TableNext]_tableVars
-----------------------------------------------------------------------------
\* A vote in the table stays as long as its row, whoever rewrites the row: the etag is
\* compared and the write is made with nobody in between (try_update_silo,
\* try_add_suspicion).
VotesNeverLost ==
  [][\A r \in RowIds :
       table'.rows[r].is = "here" => table.rows[r].votes \subseteq table'.rows[r].votes
    ]_tableVars

\* MembershipSnapshot: all rows of one snapshot are consistent with the same version, so
\* that a reader may discard what it reads under a version it has already applied.
SnapshotsAgree ==
  \A p, q \in Procs : seen[p].version = seen[q].version => seen[p] = seen[q]

\* The file keeps that promise: it is read in one piece, under the lock.
FileSnapshotsAgree == store = "file" => SnapshotsAgree
=============================================================================
