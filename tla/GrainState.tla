------------------------------ MODULE GrainState ------------------------------
(***************************************************************************)
(* The persistent state of one grain (runtime.py: activation and the       *)
(* methods bound to the instance) in a storage provider: files of one      *)
(* process (file_storage.py) or a PostgreSQL table shared by all           *)
(* (postgresql_storage.py).  The grain has several copies when it is       *)
(* activated twice; the etag is what keeps them from undoing each other.   *)
(* A state is the set of the changes that made it.                         *)
(***************************************************************************)
EXTENDS Naturals, FiniteSets

CONSTANTS
  Copies,      \* activations of the grain
  Keepers,     \* storage providers, a subset of {"file", "postgres"}
  MaxChange,   \* bound: changes made to the state
  MaxStores    \* bound: writes to the store

ASSUME GrainStateAssumption ==
  /\ Keepers \subseteq {"file", "postgres"}
  /\ MaxChange \in Nat /\ MaxStores \in Nat

VARIABLES
  keeper,   \* the storage provider
  saved,    \* what it holds: is "none", "torn" or "row"; etag, value, and which row it is
  copy,     \* per activation: is "on" or "off", state, etag (0 for None), and the row the etag is of
  change,   \* changes made so far
  stamps,   \* writes so far; a file's etag is a new one each time
  births    \* rows created so far

stateVars == <<keeper, saved, copy, change, stamps, births>>

Changes == 1..MaxChange
Nothing == [is |-> "none", etag |-> 0, value |-> {}, row |-> 0]
NotActive == [is |-> "off", state |-> {}, etag |-> 0, row |-> 0]

StateInit ==
  /\ keeper \in Keepers
  /\ saved = Nothing
  /\ copy = [c \in Copies |-> NotActive]
  /\ change = 0 /\ stamps = 0 /\ births = 0
-----------------------------------------------------------------------------
\* What an activation holds after reading: state and etag go together; the initial state
\* and no etag when nothing is stored.
Fetched == [is |-> "on", state |-> saved.value, etag |-> saved.etag, row |-> saved.row]

\* Activation, or read_state in a turn.  A torn file, or a provider that is unavailable,
\* raises: the activation fails, a turn goes on with what it has.
FetchState(c) ==
  /\ saved.is # "torn"
  /\ copy' = [copy EXCEPT ![c] = Fetched]
  /\ UNCHANGED <<keeper, saved, change, stamps, births>>

\* A turn of the grain changes its state in memory.
ChangeState(c) ==
  /\ copy[c].is = "on"
  /\ change < MaxChange
  /\ change' = change + 1
  /\ copy' = [copy EXCEPT ![c].state = @ \cup {change'}]
  /\ UNCHANGED <<keeper, saved, stamps, births>>

\* Mutated: the row is updated whatever its etag.
Permits_Row(etag) ==
  IF keeper = "file"
  THEN etag = 0 \/ saved.is = "none" \/ (saved.is = "row" /\ saved.etag = etag)
  ELSE IF etag = 0 THEN saved.is = "none" ELSE saved.is = "row"

\* The provider lets a caller with this etag write: a file without an etag to compare
\* with is overwritten, a missing one is written anew; a row is inserted only where there
\* is none, and updated only when it is the one that was read.
Permits(etag) ==
  IF keeper = "file"
  THEN etag = 0 \/ saved.is = "none" \/ (saved.is = "row" /\ saved.etag = etag)
  ELSE IF etag = 0 THEN saved.is = "none" ELSE saved.is = "row" /\ saved.etag = etag

\* The row that a write leaves: a file gets a new uuid, a row counts from 1.
Written(value) ==
  LET new == saved.is # "row"
  IN  [is |-> "row", value |-> value, row |-> IF new THEN births + 1 ELSE saved.row,
       etag |-> IF keeper = "file" THEN stamps + 1 ELSE IF new THEN 1 ELSE saved.etag + 1]

\* write_state stores the state the grain has now.  The answer of PostgreSQL may get lost:
\* the call raises and the activation keeps its etag.  A refused write raises and changes
\* nothing.
WriteState(c) ==
  /\ copy[c].is = "on" /\ stamps < MaxStores
  /\ Permits(copy[c].etag)
  /\ saved' = Written(copy[c].state)
  /\ stamps' = stamps + 1
  /\ births' = IF saved.is = "row" THEN births ELSE births + 1
  /\ copy' \in {[copy EXCEPT ![c].etag = saved'.etag, ![c].row = saved'.row]}
               \cup {k \in {copy} : keeper = "postgres"}
  /\ UNCHANGED <<keeper, change>>

\* clear_state: the provider deletes what it has, with an etag only if it is the one that
\* was read; the grain starts over.  There is nothing to compare when no file exists.
ClearState(c) ==
  /\ copy[c].is = "on"
  /\ \/ copy[c].etag = 0
     \/ saved.is = "row" /\ saved.etag = copy[c].etag
     \/ keeper = "file" /\ saved.is = "none"
  /\ saved' = Nothing
  /\ copy' = [copy EXCEPT ![c] = [NotActive EXCEPT !.is = "on"]]
  /\ UNCHANGED <<keeper, change, stamps, births>>

\* The activation ends, with its silo or without; unsaved changes are gone.
DropCopy(c) ==
  /\ copy[c].is = "on"
  /\ copy' = [copy EXCEPT ![c] = NotActive]
  /\ UNCHANGED <<keeper, saved, change, stamps, births>>

\* The process dies while it writes the file, which is written in place: nothing can be
\* read from it again, and only a writer without an etag gets past it.
TearState(c) ==
  /\ keeper = "file" /\ copy[c].is = "on" /\ Permits(copy[c].etag)
  /\ saved' = [Nothing EXCEPT !.is = "torn"]
  /\ copy' = [d \in Copies |-> NotActive]
  /\ UNCHANGED <<keeper, change, stamps, births>>

StateNext ==
  \E c \in Copies : \/ FetchState(c) \/ ChangeState(c) \/ WriteState(c)
                    \/ ClearState(c) \/ DropCopy(c) \/ TearState(c)

StateSpec == StateInit /\ [][StateNext]_stateVars
-----------------------------------------------------------------------------
\* The writer knows the row it writes: it holds an etag of it, and not of a deleted row
\* whose etags a new row has reached again.
Informed(c) == copy[c].etag # 0 /\ copy[c].row = saved.row

\* No update is lost: whatever the copies of a grain read and write, a write by one that
\* has read the stored row keeps every change in it (StorageInconsistencyError).
NoLostUpdate ==
  [][\A c \in Copies :
       WriteState(c) /\ saved.is = "row" /\ Informed(c) => saved.value \subseteq saved'.value
    ]_stateVars

\* Without the exception: an etag is given out once, so that a writer whose row was
\* deleted and created again is refused.  Not so in PostgreSQL, where etags start from 1.
NeverUninformed ==
  [][\A c \in Copies :
       WriteState(c) /\ saved.is = "row" /\ copy[c].etag # 0 => saved.value \subseteq saved'.value
    ]_stateVars
=============================================================================
