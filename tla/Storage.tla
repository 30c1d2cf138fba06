------------------------------- MODULE Storage ------------------------------
(***************************************************************************)
(* The storage port over SQLite (packages/storage-sqlite/src): a client    *)
(* that pages through a listing while others write to it (storage.ts), and *)
(* the migrations two processes of two builds run when they open one file  *)
(* (database.ts).  The two do not meet: a behaviour exercises one.         *)
(*                                                                         *)
(* A listing is the projects of an owner, or the runs or journal entries   *)
(* of a project, newest first by a time and an id.  A row repeats beside   *)
(* its document the state the queries select by.                           *)
(***************************************************************************)
EXTENDS Naturals, Sequences, SequencesExt, FiniteSets, FiniteSetsExt

CONSTANTS
    RowIds,      \* ids of rows
    MaxTime,     \* bound: the times a row can carry
    PageLimit,   \* boundedLimit of the reader's pages
    MaxWrites,   \* bound: writes in a behaviour
    Openers      \* processes that open the file, by the build they run

ASSUME StorageAssumption ==
    /\ RowIds \subseteq Nat \ {0}
    /\ PageLimit \in Nat \ {0}
    /\ Openers \subseteq Nat \ {0}

VARIABLES
    exercised,   \* "rows" or "schema"
    rows,        \* the listed table: set of [id, time, state, doc]
    writes,      \* writes made
    minted,      \* ids of rows ever created; no id is minted twice
    cursor,      \* <<>>: the first page; <<time, id>>; or Done
    listed,      \* history: ids returned in this walk, in order
    present,     \* history: ids there since the walk began
    opening,     \* process |-> where openDatabase is
    found,       \* process |-> the migrations it found or made
    applied,     \* schema_migrations
    tables       \* migrations whose statements the schema holds

rowVars == <<rows, writes, minted, cursor, listed, present>>
schemaVars == <<opening, found, applied, tables>>
storageVars == <<exercised, rowVars, schemaVars>>

Done == <<0, 0>>
RowStates == {"proposed", "approved"}
IdsOf(t) == {r.id : r \in t}
Precedes(r, s) == r.time > s.time \/ (r.time = s.time /\ r.id > s.id)   \* DESC, DESC

-----------------------------------------------------------------------------
Write(t) ==
    /\ exercised = "rows"
    /\ writes < MaxWrites
    /\ writes' = writes + 1
    /\ rows' = t
    /\ minted' = minted \cup IdsOf(t)
    /\ present' = present \cap IdsOf(t)
    /\ UNCHANGED <<exercised, cursor, listed, schemaVars>>

(* create and save: a new row.  Times come from clocks, so rows may tie    *)
(* and a row may be older than one stored before it.                       *)
SaveRow(id, time) ==
    /\ id \notin minted
    /\ Write(rows \cup {[id |-> id, time |-> time, state |-> "proposed", doc |-> "proposed"]})

(* save of an id that is there, setState and markRolledBack: the column    *)
(* and the document together; the time stays.                              *)
UpdateRow(id, state) ==
    /\ id \in IdsOf(rows)
    /\ Write({IF r.id = id THEN [r EXCEPT !.state = state, !.doc = state] ELSE r : r \in rows})

(* setStatus: only from the status the caller expects. *)
SetStatus(id, next, expectedStatus) ==
    /\ \E r \in rows : r.id = id /\ r.state = expectedStatus
    /\ UpdateRow(id, next)

DeleteRow(id) ==
    /\ id \in IdsOf(rows)
    /\ Write({r \in rows : r.id # id})

PruneRows(keep) ==
    LET kept == {r \in rows : Cardinality({s \in rows : Precedes(s, r)}) < keep}
    IN  kept # rows /\ Write(kept)

-----------------------------------------------------------------------------
(* listByProject: the rows after the cursor, one more than the page is     *)
(* asked for; pageOf makes a cursor of the last row of a full page when    *)
(* there is one more.                                                      *)
AfterCursorByTime == {r \in rows : cursor = <<>> \/ r.time < cursor[1]}
AfterCursor ==
    {r \in rows : \/ cursor = <<>>
                  \/ r.time < cursor[1]
                  \/ r.time = cursor[1] /\ r.id < cursor[2]}
ListRows ==
    LET sorted == SetToSortSeq(AfterCursor, Precedes)
        page == SubSeq(sorted, 1, Min({PageLimit, Len(sorted)}))
    IN  /\ exercised = "rows"
        /\ cursor # Done
        /\ listed' = listed \o [i \in DOMAIN page |-> page[i].id]
        /\ cursor' = IF Len(sorted) > PageLimit THEN <<Last(page).time, Last(page).id>> ELSE Done
        /\ UNCHANGED <<exercised, rows, writes, minted, present, schemaVars>>

StartListing ==
    /\ exercised = "rows"
    /\ cursor = Done
    /\ cursor' = <<>> /\ listed' = <<>> /\ present' = IdsOf(rows)
    /\ UNCHANGED <<exercised, rows, writes, minted, schemaVars>>

-----------------------------------------------------------------------------
(* migrate(): what is applied is read first, outside any transaction; a    *)
(* migration this build does not know refuses the file.                    *)
KnownTo(p) == 1 .. p
ReadApplied(p) ==
    /\ exercised = "schema"
    /\ opening[p] = "closed"
    /\ found' = [found EXCEPT ![p] = applied]
    /\ opening' = [opening EXCEPT ![p] = IF applied \subseteq KnownTo(p) THEN "migrating" ELSE "closed"]
    /\ UNCHANGED <<exercised, rowVars, applied, tables>>

(* apply(): the statements and the record of them in one transaction.  The *)
(* CREATE of a table another process made meanwhile fails; the transaction *)
(* is rolled back and the file closed.                                     *)
ApplyNext(p) == Min(KnownTo(p) \ found[p])
ApplyMigration(p) ==
    /\ opening[p] = "migrating"
    /\ KnownTo(p) # found[p]
    /\ IF ApplyNext(p) \in tables
       THEN opening' = [opening EXCEPT ![p] = "closed"] /\ UNCHANGED <<found, applied, tables>>
       ELSE /\ tables' = tables \cup {ApplyNext(p)}
            /\ applied' = applied \cup {ApplyNext(p)}
            /\ found' = [found EXCEPT ![p] = @ \cup {ApplyNext(p)}]
            /\ UNCHANGED opening
    /\ UNCHANGED <<exercised, rowVars>>

OpenDatabase(p) ==
    /\ opening[p] = "migrating"
    /\ KnownTo(p) = found[p]
    /\ opening' = [opening EXCEPT ![p] = "open"]
    /\ UNCHANGED <<exercised, rowVars, found, applied, tables>>

(* close(), or the process dies. *)
CloseDatabase(p) ==
    /\ opening[p] # "closed"
    /\ opening' = [opening EXCEPT ![p] = "closed"]
    /\ UNCHANGED <<exercised, rowVars, found, applied, tables>>

StorageInit ==
    /\ exercised \in {"rows", "schema"}
    /\ rows = {} /\ writes = 0 /\ minted = {}
    /\ cursor = <<>> /\ listed = <<>> /\ present = {}
    /\ opening = [p \in Openers |-> "closed"]
    /\ found = [p \in Openers |-> {}]
    /\ applied = {} /\ tables = {}

StorageNext ==
    \/ \E id \in RowIds :
          \/ \E time \in 1 .. MaxTime : SaveRow(id, time)
          \/ \E state \in RowStates : UpdateRow(id, state)
          \/ \E next, expectedStatus \in RowStates : SetStatus(id, next, expectedStatus)
          \/ DeleteRow(id)
    \/ \E keep \in 0 .. 2 : PruneRows(keep)
    \/ ListRows
    \/ StartListing
    \/ \E p \in Openers : ReadApplied(p) \/ ApplyMigration(p) \/ OpenDatabase(p) \/ CloseDatabase(p)

StorageSpec == StorageInit /\ [][StorageNext]_storageVars

-----------------------------------------------------------------------------
(* A walk by cursor to the last page returns every row that was there from *)
(* its beginning to its end, and no row twice, whatever is inserted or     *)
(* removed between two pages and however many rows carry the same time.    *)
ListingMissesNone ==
    /\ cursor = Done => present \subseteq Range(listed)
    /\ IsInjective(listed)

(* However the opening of one file by several processes interleaves, and   *)
(* wherever one of them stops, the schema is exactly what                  *)
(* schema_migrations says it is, and a process that uses the file finds    *)
(* every table its build knows.                                            *)
SchemaIsWhole ==
    /\ tables = applied
    /\ \A p \in Openers : opening[p] = "open" => KnownTo(p) \subseteq tables

(* The two above together: a database several processes share is whole,    *)
(* and a listing of it complete (migrate, listByProject).                  *)
StorageIsWhole == ListingMissesNone /\ SchemaIsWhole
=============================================================================
