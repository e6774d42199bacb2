------------------------------ MODULE FileBlob ------------------------------
(***************************************************************************)
(* The grid store of wdb: the table file_blob (one row per grid, managed   *)
(* by PostgreSQL transactions) and the directory of data files beside it   *)
(* (managed by nobody's transactions).  Every process is a PostgreSQL      *)
(* backend running at READ COMMITTED: a statement sees the rows committed  *)
(* when it starts and the changes of its own transaction, and a row that   *)
(* another transaction has changed stays locked until that one ends.       *)
(*                                                                         *)
(*   src/src/blob/fileblob.in.sql      the table and the SQL functions     *)
(*   src/src/blob/fileblobImpl.cpp     the operations on files             *)
(*   src/src/blob/fileblob.cpp         the C entry points                  *)
(*   src/src/cleaningProgram/cleanDb.c the nightly cleaning transaction    *)
(***************************************************************************)
EXTENDS Naturals

CONSTANTS
    Client,     \* backends that write and drop grids
    Cleaner,    \* backends that run cleanupdb() or vacuum_file_blob()
    Reader,     \* backends that read grids
    NoProc,     \* the owner of an unlocked row
    MaxId,      \* bound: the identifiers the sequence can hand out
    Leftover,   \* identifiers whose file an earlier database left behind
    Timely,     \* write transactions and scans fit within the age limit
    Strategies, \* the cleaner drops grids in the transaction that vacuums
    CleanerAborts, \* the cleaning transaction may fail or be killed
    FlushFails  \* the disk may be full when a file is closed

FileId == 1 .. MaxId
NoFile == 0
Proc == Client \cup Cleaner \cup Reader

\* A row of file_blob: absent, or with active = true or false.
RowState == {"none", "active", "inactive"}

\* What is stored under the final name of a file.  "short" is a file whose
\* last bytes are still in the buffer of the stream that writes it.
Content == {"absent", "leftover", "short", "whole"}

WritePC == {"reserved", "inserted", "cleared", "written", "renamed"}
CleanPC == {"vacuum", "vacuumed", "scan", "unlink"}

ASSUME ConstantsAssumption ==
    /\ MaxId \in Nat
    /\ Leftover \subseteq FileId
    /\ {Timely, Strategies, CleanerAborts, FlushFails} \subseteq BOOLEAN
    /\ NoProc \notin Proc
    /\ Client \cap Cleaner = {}
    /\ Client \cap Reader = {}
    /\ Cleaner \cap Reader = {}

VARIABLES
    seq,     \* the next value of file_blob_file_id_seq
    row,     \* the committed state of every row
    lock,    \* the transaction that holds an uncommitted version of a row
    draft,   \* that version ("none" is a deletion); "none" when unlocked
    file,    \* the content of every file in the storage directory
    old,     \* the files last written more than 3600 seconds ago
    pc,      \* where every backend is
    cur,     \* the file it is working on
    unflushed, \* the clients whose stream still holds data
    todo,    \* the files a vacuum or a scan has still to visit
    refs,    \* the identifiers a scan found in file_blob
    got      \* what the last read of a reader returned

vars == <<seq, row, lock, draft, file, old, pc, cur, unflushed, todo, refs, got>>
rowVars == <<row, lock, draft>>
fileVars == <<file, old>>

TypeOK ==
    /\ seq \in 1 .. MaxId + 1
    /\ row \in [FileId -> RowState]
    /\ lock \in [FileId -> Client \cup Cleaner \cup {NoProc}]
    /\ draft \in [FileId -> RowState]
    /\ file \in [FileId -> Content]
    /\ old \in SUBSET FileId
    /\ pc \in [Proc -> {"ready"} \cup WritePC \cup CleanPC \cup {"checked"}]
    /\ \A p \in Client : pc[p] \in {"ready"} \cup WritePC
    /\ \A c \in Cleaner : pc[c] \in {"ready"} \cup CleanPC
    /\ \A r \in Reader : pc[r] \in {"ready", "checked"}
    /\ cur \in [Proc -> FileId \cup {NoFile}]
    /\ \A r \in Reader : pc[r] = "checked" => cur[r] \in FileId
    /\ unflushed \in SUBSET Client
    /\ todo \in [Cleaner -> SUBSET FileId]
    /\ refs \in [Cleaner -> SUBSET FileId]
    /\ got \in [Reader -> Content \cup {"nothing"}]

Init ==
    /\ seq = 1
    /\ row = [f \in FileId |-> "none"]
    /\ lock = [f \in FileId |-> NoProc]
    /\ draft = [f \in FileId |-> "none"]
    /\ file = [f \in FileId |-> IF f \in Leftover THEN "leftover" ELSE "absent"]
    /\ old = Leftover
    /\ pc = [p \in Proc |-> "ready"]
    /\ cur = [p \in Proc |-> NoFile]
    /\ unflushed = {}
    /\ todo = [c \in Cleaner |-> {}]
    /\ refs = [c \in Cleaner |-> {}]
    /\ got = [r \in Reader |-> "nothing"]

-----------------------------------------------------------------------------
(* Rows and transactions *)

\* The state of row f that a statement of transaction p sees.
Visible(p, f) == IF lock[f] = p THEN draft[f] ELSE row[f]

\* Transaction p gives the rows in S the state s.
Change(p, S, s) ==
    /\ lock' = [f \in FileId |-> IF f \in S THEN p ELSE lock[f]]
    /\ draft' = [f \in FileId |-> IF f \in S THEN s ELSE draft[f]]
    /\ row' = row

\* The transaction of p ends, and its changes become the rows' state or not.
Release(p) ==
    /\ lock' = [f \in FileId |-> IF lock[f] = p THEN NoProc ELSE lock[f]]
    /\ draft' = [f \in FileId |-> IF lock[f] = p THEN "none" ELSE draft[f]]

EndTransaction(p) ==
    /\ pc' = [pc EXCEPT ![p] = "ready"]
    /\ cur' = [cur EXCEPT ![p] = NoFile]
    /\ unflushed' = unflushed \ {p}
    /\ todo' = [c \in Cleaner |-> IF c = p THEN {} ELSE todo[c]]
    /\ refs' = [c \in Cleaner |-> IF c = p THEN {} ELSE refs[c]]
    /\ UNCHANGED <<seq, fileVars, got>>

HoldsChanges(p) == \E f \in FileId : lock[f] = p

Commit(p) ==
    /\ row' = [f \in FileId |-> Visible(p, f)]
    /\ Release(p)
    /\ EndTransaction(p)

Rollback(p) ==
    /\ row' = row
    /\ Release(p)
    /\ EndTransaction(p)

-----------------------------------------------------------------------------
(* Writing a grid: reserve_file_id(), then write_file(id, data) *)

\* nextval is not transactional: the identifier is never handed out again.
ReserveFileId(p) ==
    /\ pc[p] = "ready"
    /\ seq <= MaxId
    /\ seq' = seq + 1
    /\ cur' = [cur EXCEPT ![p] = seq]
    /\ pc' = [pc EXCEPT ![p] = "reserved"]
    /\ UNCHANGED <<rowVars, fileVars, unflushed, todo, refs, got>>

\* INSERT INTO file_blob; the primary key admits one row of an identifier.
InsertRow(p) ==
    /\ pc[p] = "reserved"
    /\ row[cur[p]] = "none"
    /\ lock[cur[p]] = NoProc
    /\ Change(p, {cur[p]}, "active")
    /\ pc' = [pc EXCEPT ![p] = "inserted"]
    /\ UNCHANGED <<seq, fileVars, cur, unflushed, todo, refs, got>>

\* A file that exists already is silently removed.
RemoveExisting(p) ==
    /\ pc[p] = "inserted"
    /\ file' = [file EXCEPT ![cur[p]] = "absent"]
    /\ old' = old \ {cur[p]}
    /\ pc' = [pc EXCEPT ![p] = "cleared"]
    /\ UNCHANGED <<seq, rowVars, cur, unflushed, todo, refs, got>>

\* The data goes to a temporary file.  A large write bypasses the buffer of
\* the stream, a small one may stay in it; f.good() does not tell them apart.
WriteTemporary(p) ==
    /\ pc[p] = "cleared"
    /\ \/ unflushed' = unflushed
       \/ unflushed' = unflushed \cup {p}
    /\ pc' = [pc EXCEPT ![p] = "written"]
    /\ UNCHANGED <<seq, rowVars, fileVars, cur, todo, refs, got>>

\* The temporary file gets its final name while the stream is still open.
RenameFile(p) ==
    /\ pc[p] = "written"
    /\ file' = [file EXCEPT ![cur[p]] = IF p \in unflushed THEN "short" ELSE "whole"]
    /\ pc' = [pc EXCEPT ![p] = "renamed"]
    /\ UNCHANGED <<seq, rowVars, old, cur, unflushed, todo, refs, got>>

\* writeFile returns and the destructor of the stream flushes its buffer; an
\* error is swallowed there.  If the file was unlinked meanwhile, the bytes go
\* to a file without a name.
CloseFile(p) ==
    /\ pc[p] = "renamed"
    /\ \/ file' = [file EXCEPT ![cur[p]] = IF @ = "short" THEN "whole" ELSE @]
       \/ FlushFails /\ file' = file
    /\ unflushed' = unflushed \ {p}
    /\ cur' = [cur EXCEPT ![p] = NoFile]
    /\ pc' = [pc EXCEPT ![p] = "ready"]
    /\ UNCHANGED <<seq, rowVars, old, todo, refs, got>>

\* Mutant: drop_file removes the file at once.
DropFileAtOnce(p, f) ==
    /\ pc[p] = "ready"
    /\ lock[f] \in {NoProc, p}
    /\ Visible(p, f) = "active"
    /\ Change(p, {f}, "inactive")
    /\ file' = [file EXCEPT ![f] = "absent"] /\ old' = old \ {f}
    /\ UNCHANGED <<seq, pc, cur, unflushed, todo, refs, got>>

\* drop_file(f): UPDATE file_blob SET active=false, called by the trigger on
\* the deletion of the last gridvalue that refers to f.  It waits for a row
\* that another transaction has changed.
DropFile(p, f) ==
    /\ pc[p] = "ready"
    /\ lock[f] \in {NoProc, p}
    /\ Visible(p, f) = "active"
    /\ Change(p, {f}, "inactive")
    /\ UNCHANGED <<seq, fileVars, pc, cur, unflushed, todo, refs, got>>

ClientCommit(p) == pc[p] = "ready" /\ HoldsChanges(p) /\ Commit(p)

\* An error, ROLLBACK, or the death of the backend: rows go back, files stay.
ClientAbort(p) == (pc[p] # "ready" \/ HoldsChanges(p)) /\ Rollback(p)

-----------------------------------------------------------------------------
(* Cleaning: vacuum_file_blob() and remove_unreferenced_files() *)

\* A strategy of cleanupdb() removes values and thereby drops a file.
StrategyDrop(c, f) == Strategies /\ DropFile(c, f)

\* Mutant: the loop without its WHERE clause.
VacuumAll(c) ==
    /\ pc[c] = "ready"
    /\ todo' = [todo EXCEPT ![c] = {f \in FileId : Visible(c, f) # "none"}]
    /\ pc' = [pc EXCEPT ![c] = "vacuum"]
    /\ UNCHANGED <<seq, rowVars, fileVars, cur, unflushed, refs, got>>

\* FOR entry IN SELECT * FROM file_blob WHERE active=false: one snapshot.
VacuumStart(c) ==
    /\ pc[c] = "ready"
    /\ todo' = [todo EXCEPT ![c] = {f \in FileId : Visible(c, f) = "inactive"}]
    /\ pc' = [pc EXCEPT ![c] = "vacuum"]
    /\ UNCHANGED <<seq, rowVars, fileVars, cur, unflushed, refs, got>>

\* dropFile(f): a file that is not there is a warning only.
VacuumUnlink(c, f) ==
    /\ pc[c] = "vacuum"
    /\ f \in todo[c]
    /\ todo' = [todo EXCEPT ![c] = @ \ {f}]
    /\ file' = [file EXCEPT ![f] = "absent"]
    /\ old' = old \ {f}
    /\ UNCHANGED <<seq, rowVars, pc, cur, unflushed, refs, got>>

\* DELETE FROM file_blob WHERE active=false: a statement of its own, with a
\* later snapshot than the loop.  It waits for rows another vacuum deletes.
VacuumDelete(c) ==
    LET dead == {f \in FileId : Visible(c, f) = "inactive"} IN
    /\ pc[c] = "vacuum"
    /\ todo[c] = {}
    /\ \A f \in dead : lock[f] \in {NoProc, c}
    /\ Change(c, dead, "none")
    /\ pc' = [pc EXCEPT ![c] = "vacuumed"]
    /\ UNCHANGED <<seq, fileVars, cur, unflushed, todo, refs, got>>

\* Mutant: the name of a directory entry that is no number is taken for 0.
ScanNonNumbers(c) ==
    /\ pc[c] = "vacuumed"
    /\ refs' = [refs EXCEPT ![c] = {f \in FileId : Visible(c, f) # "none"}]
    /\ todo' = [todo EXCEPT ![c] = FileId \cup {NoFile}]
    /\ pc' = [pc EXCEPT ![c] = "scan"]
    /\ UNCHANGED <<seq, rowVars, fileVars, cur, unflushed, got>>

\* The identifiers are read before the directory is.
ScanStart(c) ==
    /\ pc[c] = "vacuumed"
    /\ refs' = [refs EXCEPT ![c] = {f \in FileId : Visible(c, f) # "none"}]
    /\ todo' = [todo EXCEPT ![c] = FileId]
    /\ pc' = [pc EXCEPT ![c] = "scan"]
    /\ UNCHANGED <<seq, rowVars, fileVars, cur, unflushed, got>>

\* Mutant: the comparison of the times is the wrong way round.
RemovableYoung(c, f) == file[f] # "absent" /\ f \notin refs[c] /\ f \notin old

\* There, not referenced, and not too young.
Removable(c, f) == file[f] # "absent" /\ f \notin refs[c] /\ f \in old

\* One entry of the directory.
ScanCheck(c, f) ==
    /\ pc[c] = "scan"
    /\ f \in todo[c]
    /\ todo' = [todo EXCEPT ![c] = @ \ {f}]
    /\ IF Removable(c, f)
         THEN /\ cur' = [cur EXCEPT ![c] = f]
              /\ pc' = [pc EXCEPT ![c] = "unlink"]
         ELSE UNCHANGED <<cur, pc>>
    /\ UNCHANGED <<seq, rowVars, fileVars, unflushed, refs, got>>

\* fs::remove, by name, after the write time was compared.
ScanUnlink(c) ==
    /\ pc[c] = "unlink"
    /\ file' = [file EXCEPT ![cur[c]] = "absent"]
    /\ old' = old \ {cur[c]}
    /\ cur' = [cur EXCEPT ![c] = NoFile]
    /\ pc' = [pc EXCEPT ![c] = "scan"]
    /\ UNCHANGED <<seq, rowVars, unflushed, todo, refs, got>>

\* Mutant: the transaction of the cleaner is never committed.
CleanerForgets(c) ==
    /\ pc[c] = "vacuumed" \/ (pc[c] = "scan" /\ todo[c] = {})
    /\ Rollback(c)

\* cleanupdb() ends after its scan, a bare vacuum_file_blob() before one.
CleanerCommit(c) ==
    /\ \/ pc[c] = "vacuumed"
       \/ pc[c] = "scan" /\ todo[c] = {}
    /\ Commit(c)

CleanerAbort(c) ==
    /\ CleanerAborts
    /\ pc[c] # "ready" \/ HoldsChanges(c)
    /\ Rollback(c)

-----------------------------------------------------------------------------
(* Reading a grid: read_file, read_float_from_file and cache_file *)

\* Mutant: any file is read, whatever file_blob says of it.
ReadUnchecked(r, f) ==
    /\ pc[r] = "ready"
    /\ cur' = [cur EXCEPT ![r] = f]
    /\ pc' = [pc EXCEPT ![r] = "checked"]
    /\ UNCHANGED <<seq, rowVars, fileVars, unflushed, todo, refs, got>>

\* The row must be there and active ('No such file' otherwise).
ReadCheck(r, f) ==
    /\ pc[r] = "ready"
    /\ Visible(r, f) = "active"
    /\ cur' = [cur EXCEPT ![r] = f]
    /\ pc' = [pc EXCEPT ![r] = "checked"]
    /\ UNCHANGED <<seq, rowVars, fileVars, unflushed, todo, refs, got>>

\* The file is opened by name; "absent" is the error 'File does not exist'.
ReadData(r) ==
    /\ pc[r] = "checked"
    /\ got' = [got EXCEPT ![r] = file[cur[r]]]
    /\ cur' = [cur EXCEPT ![r] = NoFile]
    /\ pc' = [pc EXCEPT ![r] = "ready"]
    /\ UNCHANGED <<seq, rowVars, fileVars, unflushed, todo, refs>>

-----------------------------------------------------------------------------
(* Time: the write time of a file falls behind the limit of 3600 seconds. *)

Scanning(c) == pc[c] \in {"scan", "unlink"}

\* The transaction that put row f in has not ended.
BeingWritten(f) == row[f] = "none" /\ lock[f] # NoProc

\* f was committed after scan c read the identifiers.
CommittedSince(c, f) == Scanning(c) /\ f \notin refs[c] /\ row[f] # "none" /\ lock[f] # c

\* Every file ages on its own, so any order of ages is covered.  When Timely,
\* a write transaction and a scan that overlap last less than an hour
\* together: a file that was uncommitted when a scan began is still young
\* when that scan ends.
Age(f) ==
    /\ file[f] # "absent"
    /\ f \notin old
    /\ Timely => ~BeingWritten(f) /\ \A c \in Cleaner : ~CommittedSince(c, f)
    /\ old' = old \cup {f}
    /\ UNCHANGED <<seq, rowVars, file, pc, cur, unflushed, todo, refs, got>>

-----------------------------------------------------------------------------
WriteStep(p) ==
    \/ InsertRow(p) \/ RemoveExisting(p) \/ WriteTemporary(p)
    \/ RenameFile(p) \/ CloseFile(p)

ClientEnd(p) == ClientCommit(p) \/ ClientAbort(p)

ClientStep(p) ==
    \/ ReserveFileId(p)
    \/ WriteStep(p)
    \/ \E f \in FileId : DropFile(p, f)
    \/ ClientEnd(p)

CleanStep(c) ==
    \/ VacuumStart(c)
    \/ \E f \in FileId : VacuumUnlink(c, f)
    \/ VacuumDelete(c)
    \/ ScanStart(c)
    \/ \E f \in FileId : ScanCheck(c, f)
    \/ ScanUnlink(c)
    \/ pc[c] = "scan" /\ CleanerCommit(c)

CleanerStep(c) ==
    \/ \E f \in FileId : StrategyDrop(c, f)
    \/ CleanStep(c)
    \/ CleanerCommit(c)
    \/ CleanerAbort(c)

ReaderStep(r) == (\E f \in FileId : ReadCheck(r, f)) \/ ReadData(r)

Next ==
    \/ \E p \in Client : ClientStep(p)
    \/ \E c \in Cleaner : CleanerStep(c)
    \/ \E r \in Reader : ReaderStep(r)
    \/ \E f \in FileId : Age(f)

Spec == Init /\ [][Next]_vars

\* A client's transaction ends, cron starts the cleaner every night and it
\* runs to its end, and time passes.  cleanupdb() always goes on to the scan,
\* so bare vacuums do not keep it out for ever (strong fairness).
FairSpec ==
    /\ Spec
    /\ \A p \in Client : WF_vars(WriteStep(p)) /\ WF_vars(ClientEnd(p))
    /\ \A c \in Cleaner : WF_vars(CleanStep(c)) /\ SF_vars(ScanStart(c))
    /\ \A f \in FileId : WF_vars(Age(f))

-----------------------------------------------------------------------------
(* Properties *)

\* A grid that is committed as active, and that no open transaction is
\* dropping, has its complete data file, whatever writers, vacuums, scans and
\* aborts ran before (write_file, vacuum_file_blob, remove_unreferenced_files).
ActiveHasFile ==
    \A f \in FileId : row[f] = "active" /\ lock[f] = NoProc => file[f] = "whole"

\* A read that passed the check of read_file returns all the data of the grid
\* or fails because the file is gone, never a part of it.
ReaderSeesWhole == \A r \in Reader : got[r] \in {"nothing", "absent", "whole"}

\* No read returns the file that an earlier database left under the same
\* identifier (fileblobImpl.cpp: existing files are silently ignored).
NoForeignData == \A r \in Reader : got[r] # "leftover"

\* Scan c removes the file f in this step.
Scanned(c, f) ==
    /\ pc[c] = "unlink" /\ pc'[c] = "scan" /\ cur[c] = f
    /\ file[f] # "absent" /\ file'[f] = "absent"

\* The scan removes a file only if no transaction but its own knows its row:
\* neither a committed row nor the uncommitted row of a running writer.
ScanRemovesOnlyOrphans ==
    [][\A c \in Cleaner, f \in FileId : Scanned(c, f) =>
           lock[f] = c \/ (row[f] = "none" /\ ~BeingWritten(f))]_vars

\* The scan removes no file younger than an hour (NEWS, 1.5.7-1).
ScanSparesYoung ==
    [][\A c \in Cleaner, f \in FileId : Scanned(c, f) => f \in old]_vars

\* A transaction that dropped a grid and is rolled back leaves the grid with
\* its data (TransactionCorrectnessTest::testAbortedDelete).
AbortedDropKeepsFile ==
    [][\A f \in FileId :
           /\ row[f] = "active" /\ row'[f] = "active"
           /\ lock[f] # NoProc /\ lock'[f] = NoProc
           => file'[f] = "whole"]_vars

\* Only complete files bear a final name: the data is written to a temporary
\* file first (comment in writeFile).
FinalNameIsWhole == \A f \in FileId : file[f] # "short"

Orphan(f) == file[f] # "absent" /\ row[f] = "none" /\ lock[f] = NoProc /\ f < seq

\* The file of an aborted or interrupted write is removed some night.
OrphansAreRemoved ==
    \A f \in FileId : Orphan(f) /\ (\A p \in Client : cur[p] # f) ~> file[f] = "absent"

\* A dropped grid loses its file, and its row after that.
DroppedAreVacuumed ==
    \A f \in FileId : row[f] = "inactive" ~> row[f] = "none" /\ file[f] = "absent"
-----------------------------------------------------------------------------
(* The inductive invariant behind ActiveHasFile, in parts *)

\* What the environment must not do: see the runs that let it.
Benign ==
    /\ Leftover = {}
    /\ Timely
    /\ ~FlushFails
    /\ ~(Strategies /\ CleanerAborts)

\* f will never be written again: its row is not active and can no more become
\* so, and no client works on it.
Gone(f) ==
    /\ f < seq
    /\ row[f] # "active"
    /\ lock[f] \notin Client
    /\ \A p \in Client : cur[p] # f

\* Nor has it a row any more.
Lost(f) == Gone(f) /\ row[f] = "none"

\* A client works on one new identifier, that no other client has.
ClientsInv ==
    \A p \in Client :
        /\ pc[p] = "ready" => cur[p] = NoFile
        /\ pc[p] # "ready" => cur[p] \in FileId /\ cur[p] < seq /\ row[cur[p]] = "none"
        /\ pc[p] = "reserved" =>
               /\ lock[cur[p]] = NoProc /\ file[cur[p]] = "absent"
               /\ \A q \in Client : cur[q] = cur[p] => q = p
        /\ pc[p] \in WritePC \ {"reserved"} =>
               lock[cur[p]] = p /\ draft[cur[p]] = "active"

\* Identifiers not handed out yet have left no trace.
FreshInv ==
    \A f \in FileId : f >= seq =>
        row[f] = "none" /\ lock[f] = NoProc /\ file[f] = "absent"

\* What an uncommitted version can be, by its owner and the committed row.
LocksInv ==
    \A f \in FileId :
        /\ lock[f] \in Client =>
               \/ row[f] = "none" /\ draft[f] \in {"active", "inactive"}
               \/ row[f] = "active" /\ draft[f] = "inactive"
        /\ lock[f] \in Cleaner =>
               /\ draft[f] \in {"inactive", "none"}
               /\ row[f] = "inactive" \/ (row[f] = "active" /\ Strategies)

\* When there is a complete file.
FilesInv ==
    \A f \in FileId :
        /\ row[f] = "active" /\ lock[f] \notin Cleaner => file[f] = "whole"
        /\ row[f] = "none" /\ lock[f] \in Client =>
               /\ cur[lock[f]] # f => file[f] = "whole"
               /\ pc[lock[f]] = "renamed" /\ cur[lock[f]] = f =>
                      file[f] \in {"short", "whole"}
        /\ row[f] # "none" => file[f] \in {"absent", "whole"}
        /\ f \in old => file[f] # "absent" /\ ~BeingWritten(f)

\* What a vacuum or a scan is about to remove is gone or its own.
CleanersInv ==
    \A c \in Cleaner :
        /\ pc[c] = "vacuum" => \A f \in todo[c] : Gone(f) \/ lock[f] = c
        /\ Scanning(c) => \A f \in old : f \in refs[c] \/ Lost(f) \/ lock[f] = c
        /\ pc[c] = "unlink" =>
               /\ cur[c] \in FileId
               /\ Lost(cur[c]) \/ lock[cur[c]] = c
               /\ file[cur[c]] # "absent" => cur[c] \in old

\* A grid that passed the check of a reader is not written any more.
ReadersInv ==
    \A r \in Reader :
        /\ pc[r] = "ready" => cur[r] = NoFile
        /\ pc[r] = "checked" =>
               /\ file[cur[r]] \in {"absent", "whole"}
               /\ row[cur[r]] # "none" \/ Gone(cur[r])
        /\ got[r] \in {"nothing", "absent", "whole"}

\* The whole invariant: what keeps the rows and the directory in step.
IInv ==
    /\ TypeOK /\ ClientsInv /\ FreshInv /\ LocksInv
    /\ FilesInv /\ CleanersInv /\ ReadersInv
=============================================================================
