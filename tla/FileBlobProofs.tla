--------------------------- MODULE FileBlobProofs ---------------------------
(***************************************************************************)
(* Proofs about FileBlob, for any number of backends and identifiers: its  *)
(* types, the invariant that keeps the table file_blob and the directory   *)
(* in step, the safety properties that follow from it, and that the two    *)
(* implement BlobStore.                                                    *)
(***************************************************************************)
EXTENDS FileBlobStore, TLAPS

-----------------------------------------------------------------------------
(* The types, for every value of the constants *)

\* Every step keeps the variables within their types.
LEMMA TypeStep ==
  ASSUME TypeOK, [Next]_vars
  PROVE  TypeOK'
<1> USE ConstantsAssumption
<1>1. ASSUME NEW p \in Client, ReserveFileId(p)
      PROVE  TypeOK'
  BY <1>1 DEF TypeOK, rowVars, fileVars, Proc, FileId, WritePC, ReserveFileId
<1>2. ASSUME NEW p \in Client, InsertRow(p)
      PROVE  TypeOK'
  BY <1>2 DEF TypeOK, RowState, fileVars, Proc, WritePC, InsertRow, Change
<1>3. ASSUME NEW p \in Client, RemoveExisting(p)
      PROVE  TypeOK'
  BY <1>3 DEF TypeOK, Content, rowVars, Proc, WritePC, CleanPC, RemoveExisting
<1>4. ASSUME NEW p \in Client, WriteTemporary(p)
      PROVE  TypeOK'
  BY <1>4 DEF TypeOK, rowVars, fileVars, Proc, WritePC, WriteTemporary
<1>5. ASSUME NEW p \in Client, RenameFile(p)
      PROVE  TypeOK'
  BY <1>5 DEF TypeOK, Content, rowVars, Proc, WritePC, CleanPC, RenameFile
<1>6. ASSUME NEW p \in Client, CloseFile(p)
      PROVE  TypeOK'
  <2>1. \E x \in Content : file' = [file EXCEPT ![cur[p]] = x] \/ file' = file
    BY <1>6 DEF TypeOK, Content, CloseFile
  <2> QED
    BY <1>6, <2>1 DEF TypeOK, RowState, rowVars, Proc, CloseFile
<1>7. ASSUME NEW p \in Client, ClientCommit(p)
      PROVE  TypeOK'
  BY <1>7 DEF TypeOK, RowState, fileVars, Proc, ClientCommit, Commit, Release,
     EndTransaction, Visible
<1>8. ASSUME NEW p \in Client, ClientAbort(p)
      PROVE  TypeOK'
  BY <1>8 DEF TypeOK, RowState, fileVars, Proc, ClientAbort, Rollback,
     Release, EndTransaction
<1>9. ASSUME NEW p \in Client, NEW f \in FileId, DropFile(p, f)
      PROVE  TypeOK'
  BY <1>9 DEF TypeOK, RowState, fileVars, DropFile, Change
<1>10. ASSUME NEW c \in Cleaner, NEW f \in FileId, StrategyDrop(c, f)
      PROVE  TypeOK'
  BY <1>10 DEF TypeOK, RowState, fileVars, StrategyDrop, DropFile, Change
<1>11. ASSUME NEW c \in Cleaner, VacuumStart(c)
      PROVE  TypeOK'
  BY <1>11 DEF TypeOK, rowVars, fileVars, Proc, CleanPC, VacuumStart
<1>12. ASSUME NEW c \in Cleaner, NEW f \in FileId, VacuumUnlink(c, f)
      PROVE  TypeOK'
  BY <1>12 DEF TypeOK, Content, rowVars, VacuumUnlink
<1>13. ASSUME NEW c \in Cleaner, VacuumDelete(c)
      PROVE  TypeOK'
  BY <1>13 DEF TypeOK, RowState, fileVars, Proc, CleanPC, VacuumDelete, Change
<1>14. ASSUME NEW c \in Cleaner, ScanStart(c)
      PROVE  TypeOK'
  BY <1>14 DEF TypeOK, rowVars, fileVars, Proc, CleanPC, ScanStart
<1>15. ASSUME NEW c \in Cleaner, NEW f \in FileId, ScanCheck(c, f)
      PROVE  TypeOK'
  <2>1. CASE Removable(c, f)
    <3>1. /\ todo' = [todo EXCEPT ![c] = todo[c] \ {f}]
          /\ cur' = [cur EXCEPT ![c] = f]
          /\ pc' = [pc EXCEPT ![c] = "unlink"]
          /\ UNCHANGED <<seq, row, lock, draft, file, old, unflushed, refs, got>>
      BY <1>15, <2>1 DEF ScanCheck, rowVars, fileVars
    <3> QED
      BY <3>1 DEF TypeOK, Proc, CleanPC
  <2>2. CASE ~Removable(c, f)
    BY <1>15, <2>2 DEF TypeOK, rowVars, fileVars, ScanCheck, Removable
  <2> QED
    BY <2>1, <2>2
<1>16. ASSUME NEW c \in Cleaner, ScanUnlink(c)
      PROVE  TypeOK'
  BY <1>16 DEF TypeOK, Content, rowVars, Proc, WritePC, CleanPC, ScanUnlink
<1>17. ASSUME NEW c \in Cleaner, CleanerCommit(c)
      PROVE  TypeOK'
  BY <1>17 DEF TypeOK, RowState, fileVars, Proc, CleanerCommit, Commit,
     Release, EndTransaction, Visible
<1>18. ASSUME NEW c \in Cleaner, CleanerAbort(c)
      PROVE  TypeOK'
  BY <1>18 DEF TypeOK, RowState, fileVars, Proc, CleanerAbort, Rollback,
     Release, EndTransaction
<1>19. ASSUME NEW r \in Reader, NEW f \in FileId, ReadCheck(r, f)
      PROVE  TypeOK'
  BY <1>19 DEF TypeOK, rowVars, fileVars, Proc, ReadCheck
<1>20. ASSUME NEW r \in Reader, ReadData(r)
      PROVE  TypeOK'
  <2>1. cur[r] \in FileId /\ file[cur[r]] \in Content
    BY <1>20 DEF ReadData, TypeOK
  <2> QED
    BY <1>20, <2>1 DEF ReadData, TypeOK, rowVars, fileVars, Proc
<1>21. ASSUME NEW f \in FileId, Age(f)
      PROVE  TypeOK'
  BY <1>21 DEF TypeOK, rowVars, Age
<1>22. CASE UNCHANGED vars
  BY <1>22 DEF TypeOK, vars, rowVars, fileVars
<1> QED
  BY <1>1, <1>2, <1>3, <1>4, <1>5, <1>6, <1>7, <1>8, <1>9, <1>10, <1>11,
     <1>12, <1>13, <1>14, <1>15, <1>16, <1>17, <1>18, <1>19, <1>20, <1>21,
     <1>22 DEF Next, ClientStep, WriteStep, ClientEnd, CleanerStep, CleanStep,
     ReaderStep

\* The initial state is well typed.
LEMMA TypeInit == Init => TypeOK
  BY ConstantsAssumption DEF Init, TypeOK, RowState, Content, Proc, NoFile, FileId

\* No operation of the store, whatever the failures and delays, leaves the
\* types of the rows, the files and the sequence.
THEOREM TypeCorrect == Spec => []TypeOK
<1>1. Init => TypeOK
  BY TypeInit
<1>2. TypeOK /\ [Next]_vars => TypeOK'
  BY TypeStep
<1> QED
  BY <1>1, <1>2, PTL DEF Spec

-----------------------------------------------------------------------------
(* Every action preserves the inductive invariant, part by part. *)

\* The identifier is new: FreshInv says nobody has left a trace of it.
LEMMA ReserveFileIdInv ==
  ASSUME Benign, IInv, NEW p \in Client, ReserveFileId(p), TypeOK'
  PROVE  IInv'
<1> USE ConstantsAssumption DEF IInv
<1>1. ClientsInv'
  <2>1. /\ seq \in FileId /\ row[seq] = "none" /\ lock[seq] = NoProc
        /\ file[seq] = "absent"
    BY DEF ReserveFileId, FreshInv, TypeOK, FileId
  <2>2. \A q \in Client : cur[q] # seq
    <3>1. TAKE q \in Client
    <3>2. CASE pc[q] = "ready"
      BY <3>2 DEF ClientsInv, TypeOK, FileId, NoFile
    <3>3. CASE pc[q] # "ready"
      BY <3>3 DEF ClientsInv, TypeOK, FileId
    <3> QED
      BY <3>2, <3>3
  <2>3. /\ cur'[p] = seq /\ pc'[p] = "reserved" /\ seq' = seq + 1
        /\ \A q \in Client : q # p => cur'[q] = cur[q] /\ pc'[q] = pc[q]
        /\ UNCHANGED <<row, lock, draft, file>>
    BY DEF ReserveFileId, TypeOK, Proc, rowVars, fileVars
  <2> QED
    BY <2>1, <2>2, <2>3 DEF ClientsInv, TypeOK, FileId, WritePC
<1>2. FreshInv'
  BY DEF TypeOK, FreshInv, rowVars, fileVars, FileId, ReserveFileId
<1>3. LocksInv'
  BY DEF LocksInv, rowVars, ReserveFileId
<1>4. FilesInv'
  BY DEF ClientsInv, FilesInv, BeingWritten, rowVars, fileVars, NoFile,
     FileId, ReserveFileId
<1>5. CleanersInv'
  BY DEF TypeOK, CleanersInv, Lost, Gone, Scanning, rowVars, fileVars, FileId,
     ReserveFileId
<1>6. ReadersInv'
  BY DEF TypeOK, ReadersInv, Gone, rowVars, fileVars, FileId, ReserveFileId
<1> QED
  BY <1>1, <1>2, <1>3, <1>4, <1>5, <1>6

\* The row appears under the lock of its writer, with no file yet.
LEMMA InsertRowInv ==
  ASSUME Benign, IInv, NEW p \in Client, InsertRow(p), TypeOK'
  PROVE  IInv'
<1> USE ConstantsAssumption DEF IInv
<1>1. ClientsInv'
  BY DEF TypeOK, ClientsInv, fileVars, WritePC, InsertRow, Change
<1>2. FreshInv'
  BY DEF TypeOK, ClientsInv, FreshInv, fileVars, FileId, InsertRow, Change
<1>3. LocksInv'
  BY DEF LocksInv, InsertRow, Change
<1>4. FilesInv'
  BY DEF ClientsInv, FilesInv, BeingWritten, fileVars, InsertRow, Change
<1>5. CleanersInv'
  BY DEF TypeOK, CleanersInv, Lost, Gone, Scanning, fileVars, Proc, InsertRow,
     Change
<1>6. ReadersInv'
  BY DEF TypeOK, ReadersInv, Gone, fileVars, InsertRow, Change
<1> QED
  BY <1>1, <1>2, <1>3, <1>4, <1>5, <1>6

\* Only the writer's own uncommitted grid can lose its file here.
LEMMA RemoveExistingInv ==
  ASSUME Benign, IInv, NEW p \in Client, RemoveExisting(p), TypeOK'
  PROVE  IInv'
<1> USE ConstantsAssumption DEF IInv
<1>1. ClientsInv'
  BY DEF TypeOK, ClientsInv, rowVars, RemoveExisting
<1>2. FreshInv'
  BY DEF FreshInv, rowVars, RemoveExisting
<1>3. LocksInv'
  BY DEF LocksInv, rowVars, RemoveExisting
<1>4. FilesInv'
  BY DEF TypeOK, ClientsInv, FilesInv, BeingWritten, rowVars, RemoveExisting
<1>5. CleanersInv'
  BY DEF TypeOK, CleanersInv, Lost, Gone, Scanning, rowVars, RemoveExisting
<1>6. ReadersInv'
  BY DEF ReadersInv, Gone, rowVars, RemoveExisting
<1> QED
  BY <1>1, <1>2, <1>3, <1>4, <1>5, <1>6

\* Nothing under a final name changes.
LEMMA WriteTemporaryInv ==
  ASSUME Benign, IInv, NEW p \in Client, WriteTemporary(p), TypeOK'
  PROVE  IInv'
<1> USE ConstantsAssumption DEF IInv
<1>1. ClientsInv'
  BY DEF TypeOK, ClientsInv, rowVars, fileVars, WriteTemporary
<1>2. FreshInv'
  BY DEF FreshInv, rowVars, fileVars, WriteTemporary
<1>3. LocksInv'
  BY DEF LocksInv, rowVars, WriteTemporary
<1>4. FilesInv'
  BY DEF FilesInv, BeingWritten, rowVars, fileVars, WriteTemporary
<1>5. CleanersInv'
  BY DEF CleanersInv, Lost, Gone, Scanning, rowVars, fileVars, WriteTemporary
<1>6. ReadersInv'
  BY DEF ReadersInv, Gone, rowVars, fileVars, WriteTemporary
<1> QED
  BY <1>1, <1>2, <1>3, <1>4, <1>5, <1>6

\* The file may be short now; no row and no reader can refer to it yet.
LEMMA RenameFileInv ==
  ASSUME Benign, IInv, NEW p \in Client, RenameFile(p), TypeOK'
  PROVE  IInv'
<1> USE ConstantsAssumption DEF IInv
<1>1. ClientsInv'
  BY DEF TypeOK, ClientsInv, rowVars, RenameFile
<1>2. FreshInv'
  BY DEF TypeOK, ClientsInv, FreshInv, rowVars, RenameFile
<1>3. LocksInv'
  BY DEF LocksInv, rowVars, RenameFile
<1>4. FilesInv'
  BY DEF TypeOK, ClientsInv, FilesInv, BeingWritten, rowVars, RenameFile
<1>5. CleanersInv'
  BY DEF TypeOK, ClientsInv, CleanersInv, Lost, Gone, Scanning, rowVars,
     RenameFile
<1>6. ReadersInv'
  BY DEF ClientsInv, ReadersInv, Gone, rowVars, RenameFile
<1> QED
  BY <1>1, <1>2, <1>3, <1>4, <1>5, <1>6

\* The buffer reaches the file before control returns to the transaction.
LEMMA CloseFileInv ==
  ASSUME Benign, IInv, NEW p \in Client, CloseFile(p), TypeOK'
  PROVE  IInv'
<1> USE ConstantsAssumption DEF IInv
<1>0. file' = [file EXCEPT ![cur[p]] =
                   IF file[cur[p]] = "short" THEN "whole" ELSE file[cur[p]]]
  BY DEF CloseFile, Benign
<1>1. ClientsInv'
  BY DEF TypeOK, ClientsInv, rowVars, NoFile, FileId, WritePC, CloseFile
<1>2. FreshInv'
  BY <1>0 DEF FreshInv, rowVars, CloseFile
<1>3. LocksInv'
  BY DEF LocksInv, rowVars, CloseFile
<1>4. FilesInv'
  <2>1. CASE file[cur[p]] = "short"
    BY <1>0, <2>1 DEF TypeOK, FilesInv, BeingWritten, rowVars, CloseFile
  <2>2. CASE file[cur[p]] # "short"
    BY <1>0, <2>2 DEF FilesInv, BeingWritten, rowVars, CloseFile
  <2> QED
    BY <2>1, <2>2
<1>5. CleanersInv'
  BY DEF TypeOK, CleanersInv, Lost, Gone, Scanning, rowVars, NoFile, FileId,
     CloseFile
<1>6. ReadersInv'
  BY DEF TypeOK, ReadersInv, Gone, rowVars, NoFile, FileId, CloseFile
<1> QED
  BY <1>1, <1>2, <1>3, <1>4, <1>5, <1>6

\* The grids that become active have complete files.
LEMMA ClientCommitInv ==
  ASSUME Benign, IInv, NEW p \in Client, ClientCommit(p), TypeOK'
  PROVE  IInv'
<1> USE ConstantsAssumption DEF IInv
<1>1. ClientsInv'
  BY DEF TypeOK, ClientsInv, fileVars, WritePC, ClientCommit, Commit, Release,
     EndTransaction, Visible
<1>2. FreshInv'
  BY DEF TypeOK, ClientsInv, FreshInv, fileVars, ClientCommit, Commit,
     Release, EndTransaction, Visible
<1>3. LocksInv'
  BY DEF LocksInv, Proc, ClientCommit, Commit, Release, Visible
<1>4. FilesInv'
  BY DEF TypeOK, ClientsInv, LocksInv, FilesInv, BeingWritten, fileVars, Proc,
     NoFile, FileId, ClientCommit, Commit, Release, EndTransaction, Visible
<1>5. CleanersInv'
  BY DEF TypeOK, FreshInv, LocksInv, CleanersInv, Lost, Gone, Scanning,
     fileVars, NoFile, FileId, ClientCommit, Commit, Release, EndTransaction,
     Visible
<1>6. ReadersInv'
  BY DEF TypeOK, LocksInv, ReadersInv, Gone, fileVars, NoFile, FileId,
     ClientCommit, Commit, Release, EndTransaction, Visible
<1> QED
  BY <1>1, <1>2, <1>3, <1>4, <1>5, <1>6

\* Rows that a client was dropping still have their files.
LEMMA ClientAbortInv ==
  ASSUME Benign, IInv, NEW p \in Client, ClientAbort(p), TypeOK'
  PROVE  IInv'
<1> USE ConstantsAssumption DEF IInv
<1>1. ClientsInv'
  BY DEF TypeOK, ClientsInv, fileVars, NoFile, FileId, WritePC, ClientAbort,
     Rollback, Release, EndTransaction
<1>2. FreshInv'
  BY DEF FreshInv, fileVars, ClientAbort, Rollback, Release, EndTransaction
<1>3. LocksInv'
  BY DEF LocksInv, Proc, ClientAbort, Rollback, Release
<1>4. FilesInv'
  BY DEF FilesInv, BeingWritten, fileVars, Proc, ClientAbort, Rollback,
     Release, EndTransaction
<1>5. CleanersInv'
  BY DEF TypeOK, CleanersInv, Lost, Gone, Scanning, fileVars, NoFile, FileId,
     ClientAbort, Rollback, Release, EndTransaction
<1>6. ReadersInv'
  BY DEF TypeOK, ReadersInv, Gone, fileVars, NoFile, FileId, ClientAbort,
     Rollback, Release, EndTransaction
<1> QED
  BY <1>1, <1>2, <1>3, <1>4, <1>5, <1>6

\* A client may drop an active grid, committed or its own.
LEMMA DropFileInv ==
  ASSUME Benign, IInv, NEW p \in Client, NEW f \in FileId, DropFile(p, f), TypeOK'
  PROVE  IInv'
<1> USE ConstantsAssumption DEF IInv
<1>1. ClientsInv'
  BY DEF ClientsInv, fileVars, WritePC, DropFile, Change, Visible
<1>2. FreshInv'
  BY DEF FreshInv, fileVars, DropFile, Change, Visible
<1>3. LocksInv'
  BY DEF LocksInv, DropFile, Change, Visible
<1>4. FilesInv'
  BY DEF FilesInv, BeingWritten, fileVars, Proc, DropFile, Change, Visible
<1>5. CleanersInv'
  BY DEF TypeOK, CleanersInv, Lost, Gone, Scanning, fileVars, Proc, DropFile,
     Change, Visible
<1>6. ReadersInv'
  BY DEF TypeOK, ReadersInv, Gone, fileVars, DropFile, Change, Visible
<1> QED
  BY <1>1, <1>2, <1>3, <1>4, <1>5, <1>6

\* A strategy of the cleaner may drop a committed active grid.
LEMMA StrategyDropInv ==
  ASSUME Benign, IInv, NEW c \in Cleaner, NEW f \in FileId, StrategyDrop(c, f), TypeOK'
  PROVE  IInv'
<1> USE ConstantsAssumption DEF IInv
<1>1. ClientsInv'
  BY DEF ClientsInv, fileVars, WritePC, StrategyDrop, DropFile, Change,
     Visible
<1>2. FreshInv'
  BY DEF FreshInv, fileVars, StrategyDrop, DropFile, Change, Visible
<1>3. LocksInv'
  BY DEF LocksInv, StrategyDrop, DropFile, Change, Visible
<1>4. FilesInv'
  BY DEF FilesInv, BeingWritten, fileVars, StrategyDrop, DropFile, Change,
     Visible
<1>5. CleanersInv'
  BY DEF TypeOK, CleanersInv, Lost, Gone, Scanning, fileVars, Proc,
     StrategyDrop, DropFile, Change
<1>6. ReadersInv'
  BY DEF TypeOK, ReadersInv, Gone, fileVars, StrategyDrop, DropFile, Change
<1> QED
  BY <1>1, <1>2, <1>3, <1>4, <1>5, <1>6

\* What the loop sees as inactive is gone for clients.
LEMMA VacuumStartInv ==
  ASSUME Benign, IInv, NEW c \in Cleaner, VacuumStart(c), TypeOK'
  PROVE  IInv'
<1> USE ConstantsAssumption DEF IInv
<1>1. ClientsInv'
  BY DEF ClientsInv, rowVars, fileVars, VacuumStart
<1>2. FreshInv'
  BY DEF FreshInv, rowVars, fileVars, VacuumStart
<1>3. LocksInv'
  BY DEF LocksInv, rowVars, VacuumStart
<1>4. FilesInv'
  BY DEF FilesInv, BeingWritten, rowVars, fileVars, VacuumStart
<1>5. CleanersInv'
  BY DEF TypeOK, ClientsInv, FreshInv, LocksInv, CleanersInv, Lost, Gone,
     Scanning, rowVars, fileVars, NoFile, FileId, Benign, VacuumStart, Visible
<1>6. ReadersInv'
  BY DEF ReadersInv, Gone, rowVars, fileVars, VacuumStart
<1> QED
  BY <1>1, <1>2, <1>3, <1>4, <1>5, <1>6

\* The file of a gone grid is removed, no other.
LEMMA VacuumUnlinkInv ==
  ASSUME Benign, IInv, NEW c \in Cleaner, NEW f \in FileId, VacuumUnlink(c, f), TypeOK'
  PROVE  IInv'
<1> USE ConstantsAssumption DEF IInv
<1>1. ClientsInv'
  BY DEF ClientsInv, rowVars, VacuumUnlink
<1>2. FreshInv'
  BY DEF FreshInv, rowVars, VacuumUnlink
<1>3. LocksInv'
  BY DEF LocksInv, rowVars, VacuumUnlink
<1>4. FilesInv'
  BY DEF FilesInv, CleanersInv, BeingWritten, Lost, Gone, rowVars,
     VacuumUnlink
<1>5. CleanersInv'
  BY DEF TypeOK, CleanersInv, Lost, Gone, Scanning, rowVars, VacuumUnlink
<1>6. ReadersInv'
  BY DEF ReadersInv, Gone, rowVars, VacuumUnlink
<1> QED
  BY <1>1, <1>2, <1>3, <1>4, <1>5, <1>6

\* The later snapshot only adds rows that are inactive as well.
LEMMA VacuumDeleteInv ==
  ASSUME Benign, IInv, NEW c \in Cleaner, VacuumDelete(c), TypeOK'
  PROVE  IInv'
<1> USE ConstantsAssumption DEF IInv
<1>1. ClientsInv'
  BY DEF ClientsInv, fileVars, WritePC, VacuumDelete, Change, Visible
<1>2. FreshInv'
  BY DEF FreshInv, fileVars, VacuumDelete, Change, Visible
<1>3. LocksInv'
  BY DEF LocksInv, VacuumDelete, Change, Visible
<1>4. FilesInv'
  BY DEF FilesInv, BeingWritten, fileVars, VacuumDelete, Change, Visible
<1>5. CleanersInv'
  BY DEF TypeOK, CleanersInv, Lost, Gone, Scanning, fileVars, Proc,
     VacuumDelete, Change
<1>6. ReadersInv'
  BY DEF TypeOK, ReadersInv, Gone, fileVars, VacuumDelete, Change
<1> QED
  BY <1>1, <1>2, <1>3, <1>4, <1>5, <1>6

\* An old file whose row the scan does not see belongs to nobody.
LEMMA ScanStartInv ==
  ASSUME Benign, IInv, NEW c \in Cleaner, ScanStart(c), TypeOK'
  PROVE  IInv'
<1> USE ConstantsAssumption DEF IInv
<1>1. ClientsInv'
  BY DEF ClientsInv, rowVars, fileVars, ScanStart
<1>2. FreshInv'
  BY DEF FreshInv, rowVars, fileVars, ScanStart
<1>3. LocksInv'
  BY DEF LocksInv, rowVars, ScanStart
<1>4. FilesInv'
  BY DEF FilesInv, BeingWritten, rowVars, fileVars, ScanStart
<1>5. CleanersInv'
  <2>1. ASSUME NEW f \in old, Visible(c, f) = "none", lock[f] # c
        PROVE  Lost(f)
    <3>1. f \in FileId /\ row[f] = "none" /\ lock[f] = NoProc /\ file[f] # "absent"
      BY <2>1 DEF TypeOK, FilesInv, BeingWritten, Visible
    <3>2. f < seq
      BY <3>1 DEF FreshInv, TypeOK, FileId
    <3>3. ASSUME NEW p \in Client, cur[p] = f
          PROVE  FALSE
      <4>1. pc[p] # "ready"
        BY <3>1, <3>3 DEF ClientsInv, FileId, NoFile
      <4>2. pc[p] # "reserved"
        BY <3>1, <3>3 DEF ClientsInv
      <4>3. pc[p] \in WritePC \ {"reserved"}
        BY <4>1, <4>2 DEF TypeOK
      <4> QED
        BY <3>1, <3>3, <4>3 DEF ClientsInv, Proc
    <3> QED
      BY <3>1, <3>2, <3>3 DEF Lost, Gone, Proc
  <2>2. /\ refs'[c] = {f \in FileId : Visible(c, f) # "none"}
        /\ pc'[c] = "scan"
        /\ \A d \in Cleaner \ {c} :
               pc'[d] = pc[d] /\ refs'[d] = refs[d] /\ todo'[d] = todo[d]
        /\ \A p \in Client : cur'[p] = cur[p]
        /\ UNCHANGED <<seq, row, lock, file, old, cur>>
    BY DEF ScanStart, TypeOK, Proc, rowVars, fileVars
  <2>3. \A f \in old : f \in refs'[c] \/ Lost(f) \/ lock[f] = c
    BY <2>1, <2>2 DEF TypeOK
  <2> QED
    BY <2>2, <2>3 DEF CleanersInv, Lost, Gone, Scanning
<1>6. ReadersInv'
  BY DEF ReadersInv, Gone, rowVars, fileVars, ScanStart
<1> QED
  BY <1>1, <1>2, <1>3, <1>4, <1>5, <1>6

\* The file chosen for removal is gone.
LEMMA ScanCheckInv ==
  ASSUME Benign, IInv, NEW c \in Cleaner, NEW f \in FileId, ScanCheck(c, f), TypeOK'
  PROVE  IInv'
<1> USE ConstantsAssumption DEF IInv
<1>1. ClientsInv'
  <2>1. CASE Removable(c, f)
    BY <2>1 DEF TypeOK, ClientsInv, LocksInv, rowVars, fileVars, Proc,
       ScanCheck, Removable
  <2>2. CASE ~Removable(c, f)
    BY <2>2 DEF ClientsInv, rowVars, fileVars, ScanCheck, Removable
  <2> QED
    BY <2>1, <2>2
<1>2. FreshInv'
  <2>1. CASE Removable(c, f)
    BY <2>1 DEF FreshInv, rowVars, fileVars, ScanCheck, Removable
  <2>2. CASE ~Removable(c, f)
    BY <2>2 DEF FreshInv, rowVars, fileVars, ScanCheck, Removable
  <2> QED
    BY <2>1, <2>2
<1>3. LocksInv'
  <2>1. CASE Removable(c, f)
    BY <2>1 DEF LocksInv, rowVars, ScanCheck, Removable
  <2>2. CASE ~Removable(c, f)
    BY <2>2 DEF LocksInv, rowVars, ScanCheck, Removable
  <2> QED
    BY <2>1, <2>2
<1>4. FilesInv'
  <2>1. CASE Removable(c, f)
    BY <2>1 DEF TypeOK, FilesInv, BeingWritten, rowVars, fileVars, Proc,
       ScanCheck, Removable
  <2>2. CASE ~Removable(c, f)
    BY <2>2 DEF FilesInv, BeingWritten, rowVars, fileVars, ScanCheck,
       Removable
  <2> QED
    BY <2>1, <2>2
<1>5. CleanersInv'
  <2>1. CASE Removable(c, f)
    BY <2>1 DEF TypeOK, CleanersInv, Lost, Gone, Scanning, rowVars, fileVars,
       Proc, ScanCheck, Removable
  <2>2. CASE ~Removable(c, f)
    BY <2>2 DEF CleanersInv, Lost, Gone, Scanning, rowVars, fileVars,
       ScanCheck, Removable
  <2> QED
    BY <2>1, <2>2
<1>6. ReadersInv'
  <2>1. CASE Removable(c, f)
    <3>1. /\ \A q \in Client \cup Reader : pc'[q] = pc[q] /\ cur'[q] = cur[q]
          /\ UNCHANGED <<seq, row, lock, file, got>>
      BY <2>1 DEF ScanCheck, TypeOK, Proc, rowVars, fileVars
    <3> QED
      BY <3>1 DEF ReadersInv, Gone
  <2>2. CASE ~Removable(c, f)
    BY <2>2 DEF ReadersInv, Gone, rowVars, fileVars, ScanCheck, Removable
  <2> QED
    BY <2>1, <2>2
<1> QED
  BY <1>1, <1>2, <1>3, <1>4, <1>5, <1>6

\* The chosen file is still gone when it is removed by name.
LEMMA ScanUnlinkInv ==
  ASSUME Benign, IInv, NEW c \in Cleaner, ScanUnlink(c), TypeOK'
  PROVE  IInv'
<1> USE ConstantsAssumption DEF IInv
<1>1. ClientsInv'
  BY DEF ClientsInv, rowVars, ScanUnlink
<1>2. FreshInv'
  BY DEF FreshInv, rowVars, ScanUnlink
<1>3. LocksInv'
  BY DEF LocksInv, rowVars, ScanUnlink
<1>4. FilesInv'
  BY DEF FilesInv, CleanersInv, BeingWritten, Lost, Gone, rowVars, ScanUnlink
<1>5. CleanersInv'
  BY DEF TypeOK, CleanersInv, Lost, Gone, Scanning, rowVars, ScanUnlink
<1>6. ReadersInv'
  BY DEF ReadersInv, Gone, rowVars, ScanUnlink
<1> QED
  BY <1>1, <1>2, <1>3, <1>4, <1>5, <1>6

\* The deletion of rows takes effect.
LEMMA CleanerCommitInv ==
  ASSUME Benign, IInv, NEW c \in Cleaner, CleanerCommit(c), TypeOK'
  PROVE  IInv'
<1> USE ConstantsAssumption DEF IInv
<1>1. ClientsInv'
  BY DEF TypeOK, ClientsInv, fileVars, WritePC, CleanerCommit, Commit,
     Release, EndTransaction, Visible
<1>2. FreshInv'
  BY DEF TypeOK, FreshInv, fileVars, CleanerCommit, Commit, Release,
     EndTransaction, Visible
<1>3. LocksInv'
  BY DEF LocksInv, Proc, CleanerCommit, Commit, Release, Visible
<1>4. FilesInv'
  BY DEF LocksInv, FilesInv, BeingWritten, fileVars, Proc, CleanerCommit,
     Commit, Release, EndTransaction, Visible
<1>5. CleanersInv'
  BY DEF TypeOK, LocksInv, CleanersInv, Lost, Gone, Scanning, fileVars, Proc,
     CleanerCommit, Commit, Release, EndTransaction, Visible
<1>6. ReadersInv'
  BY DEF TypeOK, ClientsInv, FreshInv, ReadersInv, Gone, fileVars, Proc,
     NoFile, FileId, CleanerCommit, Commit, Release, EndTransaction, Visible
<1> QED
  BY <1>1, <1>2, <1>3, <1>4, <1>5, <1>6

\* By Benign the cleaner holds no row that is active.
LEMMA CleanerAbortInv ==
  ASSUME Benign, IInv, NEW c \in Cleaner, CleanerAbort(c), TypeOK'
  PROVE  IInv'
<1> USE ConstantsAssumption DEF IInv
<1>1. ClientsInv'
  BY DEF ClientsInv, fileVars, WritePC, CleanerAbort, Rollback, Release,
     EndTransaction
<1>2. FreshInv'
  BY DEF FreshInv, fileVars, CleanerAbort, Rollback, Release, EndTransaction
<1>3. LocksInv'
  BY DEF LocksInv, Proc, CleanerAbort, Rollback, Release
<1>4. FilesInv'
  BY DEF LocksInv, FilesInv, BeingWritten, fileVars, Benign, CleanerAbort,
     Rollback, Release, EndTransaction
<1>5. CleanersInv'
  <2>1. /\ pc'[c] = "ready"
        /\ \A d \in Cleaner : d # c =>
               pc'[d] = pc[d] /\ cur'[d] = cur[d] /\ todo'[d] = todo[d] /\ refs'[d] = refs[d]
        /\ \A p \in Client : cur'[p] = cur[p]
        /\ UNCHANGED <<seq, row, file, old>>
    BY DEF CleanerAbort, Rollback, EndTransaction, TypeOK, Proc, fileVars
  <2>2. \A f \in FileId : lock'[f] = IF lock[f] = c THEN NoProc ELSE lock[f]
    BY DEF CleanerAbort, Rollback, Release
  <2>3. \A f \in FileId : Gone(f) => Gone(f)'
    BY <2>1, <2>2 DEF Gone, Proc
  <2> QED
    BY <2>1, <2>2, <2>3 DEF CleanersInv, Lost, Scanning, TypeOK
<1>6. ReadersInv'
  BY DEF TypeOK, ReadersInv, Gone, fileVars, Proc, CleanerAbort, Rollback,
     Release, EndTransaction
<1> QED
  BY <1>1, <1>2, <1>3, <1>4, <1>5, <1>6

\* A visible active row has been written.
LEMMA ReadCheckInv ==
  ASSUME Benign, IInv, NEW r \in Reader, NEW f \in FileId, ReadCheck(r, f), TypeOK'
  PROVE  IInv'
<1> USE ConstantsAssumption DEF IInv
<1>1. ClientsInv'
  BY DEF ClientsInv, rowVars, fileVars, ReadCheck
<1>2. FreshInv'
  BY DEF FreshInv, rowVars, fileVars, ReadCheck
<1>3. LocksInv'
  BY DEF LocksInv, rowVars, ReadCheck
<1>4. FilesInv'
  BY DEF FilesInv, BeingWritten, rowVars, fileVars, ReadCheck
<1>5. CleanersInv'
  BY DEF CleanersInv, Lost, Gone, Scanning, rowVars, fileVars, ReadCheck
<1>6. ReadersInv'
  BY DEF TypeOK, FilesInv, ReadersInv, Gone, rowVars, fileVars, ReadCheck,
     Visible
<1> QED
  BY <1>1, <1>2, <1>3, <1>4, <1>5, <1>6

\* The file is still the complete one, or gone.
LEMMA ReadDataInv ==
  ASSUME Benign, IInv, NEW r \in Reader, ReadData(r), TypeOK'
  PROVE  IInv'
<1> USE ConstantsAssumption DEF IInv
<1>1. ClientsInv'
  BY DEF ClientsInv, rowVars, fileVars, ReadData
<1>2. FreshInv'
  BY DEF FreshInv, rowVars, fileVars, ReadData
<1>3. LocksInv'
  BY DEF LocksInv, rowVars, ReadData
<1>4. FilesInv'
  BY DEF FilesInv, BeingWritten, rowVars, fileVars, ReadData
<1>5. CleanersInv'
  BY DEF CleanersInv, Lost, Gone, Scanning, rowVars, fileVars, ReadData
<1>6. ReadersInv'
  BY DEF TypeOK, ReadersInv, Gone, rowVars, fileVars, ReadData
<1> QED
  BY <1>1, <1>2, <1>3, <1>4, <1>5, <1>6

\* By Timely no file gets old under a writer or behind a scan.
LEMMA AgeInv ==
  ASSUME Benign, IInv, NEW f \in FileId, Age(f), TypeOK'
  PROVE  IInv'
<1> USE ConstantsAssumption DEF IInv
<1>0. /\ ~BeingWritten(f)
      /\ \A c \in Cleaner : ~CommittedSince(c, f)
  BY DEF Age, Benign
<1>1. ClientsInv'
  BY DEF ClientsInv, rowVars, Age
<1>2. FreshInv'
  BY DEF FreshInv, rowVars, Age
<1>3. LocksInv'
  BY DEF LocksInv, rowVars, Age
<1>4. FilesInv'
  BY <1>0 DEF FilesInv, BeingWritten, rowVars, Age
<1>5. CleanersInv'
  <2>1. file[f] # "absent" /\ old' = old \cup {f}
        /\ UNCHANGED <<seq, row, lock, file, pc, cur, todo, refs>>
    BY DEF Age, rowVars
  <2>2. row[f] = "none" => Lost(f)
    <3>1. SUFFICES ASSUME row[f] = "none"
                   PROVE  Lost(f)
      OBVIOUS
    <3>2. lock[f] = NoProc
      BY <1>0, <3>1 DEF BeingWritten
    <3>3. f < seq
      BY <2>1 DEF FreshInv, TypeOK, FileId
    <3>4. \A p \in Client : cur[p] # f
      BY <2>1, <3>2 DEF ClientsInv, TypeOK, Proc, FileId, NoFile, WritePC
    <3> QED
      BY <3>1, <3>2, <3>3, <3>4 DEF Lost, Gone, Proc
  <2>3. \A g \in FileId : Gone(g)' <=> Gone(g)
    BY <2>1 DEF Gone
  <2>4. \A c \in Cleaner : Scanning(c) => f \in refs[c] \/ Lost(f) \/ lock[f] = c
    BY <1>0, <2>2 DEF CommittedSince
  <2> QED
    BY <2>1, <2>3, <2>4 DEF CleanersInv, Lost, Scanning, TypeOK
<1>6. ReadersInv'
  BY DEF ReadersInv, Gone, rowVars, Age
<1> QED
  BY <1>1, <1>2, <1>3, <1>4, <1>5, <1>6

-----------------------------------------------------------------------------
(* The invariant, and what follows from it *)

\* Nothing is stored or locked at first.
LEMMA InitInv ==
  ASSUME Benign, Init
  PROVE  IInv
<1>1. TypeOK
  BY TypeInit
<1>2. ClientsInv /\ FreshInv /\ LocksInv /\ FilesInv
  BY ConstantsAssumption
     DEF Init, Benign, ClientsInv, FreshInv, LocksInv, FilesInv, WritePC, Proc, BeingWritten
<1>3. CleanersInv /\ ReadersInv
  BY ConstantsAssumption DEF Init, CleanersInv, ReadersInv, Scanning, Proc
<1> QED
  BY <1>1, <1>2, <1>3 DEF IInv

\* A step of a client preserves the invariant.
LEMMA ClientInv ==
  ASSUME Benign, IInv, NEW p \in Client, ClientStep(p), TypeOK'
  PROVE  IInv'
<1>1. CASE ReserveFileId(p)
  BY <1>1, ReserveFileIdInv
<1>2. CASE WriteStep(p)
  BY <1>2, InsertRowInv, RemoveExistingInv, WriteTemporaryInv, RenameFileInv, CloseFileInv
     DEF WriteStep
<1>3. CASE \E f \in FileId : DropFile(p, f)
  BY <1>3, DropFileInv
<1>4. CASE ClientEnd(p)
  BY <1>4, ClientCommitInv, ClientAbortInv DEF ClientEnd
<1> QED
  BY <1>1, <1>2, <1>3, <1>4 DEF ClientStep

\* A step of a cleaner preserves the invariant.
LEMMA CleanerInv ==
  ASSUME Benign, IInv, NEW c \in Cleaner, CleanerStep(c), TypeOK'
  PROVE  IInv'
<1>1. CASE \E f \in FileId : StrategyDrop(c, f)
  BY <1>1, StrategyDropInv
<1>2. CASE CleanStep(c)
  <2>1. CASE VacuumStart(c) \/ VacuumDelete(c) \/ ScanStart(c) \/ ScanUnlink(c)
    BY <2>1, VacuumStartInv, VacuumDeleteInv, ScanStartInv, ScanUnlinkInv
  <2>2. CASE \E f \in FileId : VacuumUnlink(c, f)
    BY <2>2, VacuumUnlinkInv
  <2>3. CASE \E f \in FileId : ScanCheck(c, f)
    BY <2>3, ScanCheckInv
  <2>4. CASE CleanerCommit(c)
    BY <2>4, CleanerCommitInv
  <2> QED
    BY <1>2, <2>1, <2>2, <2>3, <2>4 DEF CleanStep
<1>3. CASE CleanerCommit(c)
  BY <1>3, CleanerCommitInv
<1>4. CASE CleanerAbort(c)
  BY <1>4, CleanerAbortInv
<1> QED
  BY <1>1, <1>2, <1>3, <1>4 DEF CleanerStep

\* So does every step.
LEMMA NextInv ==
  ASSUME Benign, IInv, [Next]_vars
  PROVE  IInv'
<1>1. TypeOK'
  BY TypeStep DEF IInv
<1>2. CASE \E p \in Client : ClientStep(p)
  BY <1>1, <1>2, ClientInv
<1>3. CASE \E c \in Cleaner : CleanerStep(c)
  BY <1>1, <1>3, CleanerInv
<1>4. CASE \E r \in Reader : ReaderStep(r)
  BY <1>1, <1>4, ReadCheckInv, ReadDataInv DEF ReaderStep
<1>5. CASE \E f \in FileId : Age(f)
  BY <1>1, <1>5, AgeInv
<1>6. CASE UNCHANGED vars
  <2>1. ClientsInv' /\ FreshInv' /\ LocksInv' /\ FilesInv'
    BY <1>6 DEF IInv, vars, rowVars, fileVars, ClientsInv, FreshInv, LocksInv, FilesInv,
                BeingWritten
  <2>2. CleanersInv' /\ ReadersInv'
    BY <1>6 DEF IInv, vars, rowVars, fileVars, CleanersInv, ReadersInv, Scanning, Gone, Lost
  <2> QED
    BY <1>1, <2>1, <2>2 DEF IInv
<1> QED
  BY <1>2, <1>3, <1>4, <1>5, <1>6 DEF Next

\* With no file left over, transactions and scans in time, no full disk, and no
\* cleaner killed that drops grids itself: rows, locks and files stay in step.
THEOREM InvCorrect ==
  ASSUME Benign
  PROVE  Spec => []IInv
<1>1. Init => IInv
  BY InitInv
<1>2. IInv /\ [Next]_vars => IInv'
  BY NextInv
<1> QED
  BY <1>1, <1>2, PTL DEF Spec

\* Under the same assumptions no grid that is committed as active ever lacks its
\* complete file (write_file, drop_file, vacuum_file_blob and the scan together).
THEOREM ActiveHasFileCorrect ==
  ASSUME Benign
  PROVE  Spec => []ActiveHasFile
<1>1. IInv => ActiveHasFile
  BY ConstantsAssumption DEF IInv, FilesInv, ActiveHasFile, Proc
<1> QED
  BY <1>1, InvCorrect, PTL

\* No read returns a part of a grid, although it opens the file by name some time
\* after read_file has looked at the row.
THEOREM ReaderSeesWholeCorrect ==
  ASSUME Benign
  PROVE  Spec => []ReaderSeesWhole
<1>1. IInv => ReaderSeesWhole
  BY DEF IInv, ReadersInv, ReaderSeesWhole
<1> QED
  BY <1>1, InvCorrect, PTL

\* The scan removes no file of a committed row and none of a running writer,
\* although it reads the table long before it removes the file.
THEOREM ScanRemovesOnlyOrphansCorrect ==
  ASSUME Benign
  PROVE  Spec => ScanRemovesOnlyOrphans
<1> DEFINE Harmless == \A c \in Cleaner, f \in FileId : Scanned(c, f) =>
                          lock[f] = c \/ (row[f] = "none" /\ ~BeingWritten(f))
<1>1. IInv => Harmless
  <2> SUFFICES ASSUME IInv, NEW c \in Cleaner, NEW f \in FileId, Scanned(c, f),
                      lock[f] # c
               PROVE  row[f] = "none" /\ lock[f] = NoProc
    BY DEF BeingWritten
  <2>1. Lost(f)
    BY DEF IInv, CleanersInv, Scanned
  <2>2. row[f] = "none" /\ lock[f] \notin Client
    BY <2>1 DEF Lost, Gone
  <2>3. lock[f] \notin Cleaner
    BY <2>2 DEF IInv, LocksInv
  <2> QED
    BY <2>2, <2>3 DEF IInv, TypeOK
<1>2. [Next]_vars /\ IInv => [Harmless]_vars
  BY <1>1
<1> QED
  BY <1>2, InvCorrect, PTL DEF Spec, ScanRemovesOnlyOrphans

\* The scan removes no file younger than an hour: between its comparison of the
\* times and the removal by name nobody writes the file anew.
THEOREM ScanSparesYoungCorrect ==
  ASSUME Benign
  PROVE  Spec => ScanSparesYoung
<1> DEFINE Old == \A c \in Cleaner, f \in FileId : Scanned(c, f) => f \in old
<1>1. IInv => Old
  BY DEF IInv, CleanersInv, Scanned
<1>2. [Next]_vars /\ IInv => [Old]_vars
  BY <1>1
<1> QED
  BY <1>2, InvCorrect, PTL DEF Spec, ScanSparesYoung

\* A grid whose deletion is rolled back has its file still.
THEOREM AbortedDropKeepsFileCorrect ==
  ASSUME Benign
  PROVE  Spec => AbortedDropKeepsFile
<1> DEFINE Kept == \A f \in FileId :
                     /\ row[f] = "active" /\ row'[f] = "active"
                     /\ lock[f] # NoProc /\ lock'[f] = NoProc
                     => file'[f] = "whole"
<1>1. IInv' => Kept
  BY ConstantsAssumption DEF IInv, FilesInv, Proc
<1>2. [Next]_vars /\ IInv' => [Kept]_vars
  BY <1>1
<1> QED
  BY <1>2, InvCorrect, PTL DEF Spec, AbortedDropKeepsFile

-----------------------------------------------------------------------------
(* Files of an earlier database, whatever the failures and delays.  A file   *)
(* under an identifier that is handed out anew is replaced after the row is  *)
(* inserted and before anybody else can see the row.                         *)

\* The row of a left over file is not active.  An uncommitted version of it may
\* be, as long as its writer has still to remove the file; no reader is about to
\* open it.
ForeignInv ==
    /\ \A f \in FileId : file[f] = "leftover" =>
           /\ row[f] # "active"
           /\ draft[f] = "active" =>
                  lock[f] \in Client /\ pc[lock[f]] = "inserted" /\ cur[lock[f]] = f
           /\ \A r \in Reader : pc[r] = "checked" => cur[r] # f
    /\ NoForeignData

\* The steps of a transaction that works on a file or changes rows.
LEMMA ForeignClients ==
  ASSUME TypeOK, ForeignInv, NEW p \in Client, ClientStep(p)
  PROVE  ForeignInv'
<1> USE ConstantsAssumption
<1>1. CASE ReserveFileId(p)
  BY <1>1 DEF ReserveFileId, ForeignInv, NoForeignData, TypeOK, rowVars, fileVars, Proc
<1>2. CASE InsertRow(p)
  BY <1>2 DEF InsertRow, Change, ForeignInv, NoForeignData, TypeOK, fileVars, Proc
<1>3. CASE RemoveExisting(p)
  BY <1>3 DEF RemoveExisting, ForeignInv, NoForeignData, TypeOK, rowVars, Proc
<1>4. CASE WriteTemporary(p)
  BY <1>4 DEF WriteTemporary, ForeignInv, NoForeignData, TypeOK, rowVars, fileVars, Proc
<1>5. CASE RenameFile(p)
  BY <1>5 DEF RenameFile, ForeignInv, NoForeignData, TypeOK, rowVars, Proc
<1>6. CASE CloseFile(p)
  <2>1. \A f \in FileId : file'[f] = "leftover" => file[f] = "leftover"
    BY <1>6 DEF CloseFile, TypeOK
  <2> QED
    BY <1>6, <2>1 DEF CloseFile, ForeignInv, NoForeignData, TypeOK, rowVars, Proc
<1>7. ASSUME NEW g \in FileId, DropFile(p, g)
      PROVE  ForeignInv'
  BY <1>7 DEF DropFile, Change, ForeignInv, NoForeignData, TypeOK, fileVars, Proc
<1>8. CASE ClientCommit(p)
  BY <1>8 DEF ClientCommit, Commit, Release, EndTransaction, Visible, ForeignInv,
     NoForeignData, TypeOK, fileVars, Proc
<1>9. CASE ClientAbort(p)
  BY <1>9 DEF ClientAbort, Rollback, Release, EndTransaction, ForeignInv,
     NoForeignData, TypeOK, fileVars, Proc
<1> QED
  BY <1>1, <1>2, <1>3, <1>4, <1>5, <1>6, <1>7, <1>8, <1>9
     DEF ClientStep, WriteStep, ClientEnd

\* A cleaner brings no row to life, and no file.
LEMMA ForeignCleaners ==
  ASSUME TypeOK, ForeignInv, NEW c \in Cleaner, CleanerStep(c)
  PROVE  ForeignInv'
<1> USE ConstantsAssumption
<1>1. ASSUME NEW g \in FileId, StrategyDrop(c, g)
      PROVE  ForeignInv'
  BY <1>1 DEF StrategyDrop, DropFile, Change, ForeignInv, NoForeignData, TypeOK,
     fileVars, Proc
<1>2. CASE VacuumStart(c)
  BY <1>2 DEF VacuumStart, ForeignInv, NoForeignData, TypeOK, rowVars, fileVars, Proc
<1>3. ASSUME NEW g \in FileId, VacuumUnlink(c, g)
      PROVE  ForeignInv'
  BY <1>3 DEF VacuumUnlink, ForeignInv, NoForeignData, TypeOK, rowVars
<1>4. CASE VacuumDelete(c)
  BY <1>4 DEF VacuumDelete, Change, ForeignInv, NoForeignData, TypeOK, fileVars, Proc
<1>5. CASE ScanStart(c)
  BY <1>5 DEF ScanStart, ForeignInv, NoForeignData, TypeOK, rowVars, fileVars, Proc
<1>6. ASSUME NEW g \in FileId, ScanCheck(c, g)
      PROVE  ForeignInv'
  <2>1. /\ \A q \in Client \cup Reader : pc'[q] = pc[q] /\ cur'[q] = cur[q]
        /\ UNCHANGED <<row, lock, draft, file, got>>
    BY <1>6 DEF ScanCheck, TypeOK, Proc, rowVars, fileVars
  <2> QED
    BY <2>1 DEF ForeignInv, NoForeignData
<1>7. CASE ScanUnlink(c)
  BY <1>7 DEF ScanUnlink, ForeignInv, NoForeignData, TypeOK, rowVars, Proc
<1>8. CASE CleanerCommit(c)
  BY <1>8 DEF CleanerCommit, Commit, Release, EndTransaction, Visible, ForeignInv,
     NoForeignData, TypeOK, fileVars, Proc
<1>9. CASE CleanerAbort(c)
  BY <1>9 DEF CleanerAbort, Rollback, Release, EndTransaction, ForeignInv,
     NoForeignData, TypeOK, fileVars, Proc
<1> QED
  BY <1>1, <1>2, <1>3, <1>4, <1>5, <1>6, <1>7, <1>8, <1>9 DEF CleanerStep, CleanStep

\* No read returns the file that an earlier database left under the same
\* identifier, even when disks fill up, transactions take an hour and cleaners die.
THEOREM NoForeignDataCorrect == Spec => []NoForeignData
<1> USE ConstantsAssumption
<1>1. Init => ForeignInv
  BY DEF Init, ForeignInv, NoForeignData, Proc
<1>2. TypeOK /\ ForeignInv /\ [Next]_vars => ForeignInv'
  <2> SUFFICES ASSUME TypeOK, ForeignInv, [Next]_vars
               PROVE  ForeignInv'
    OBVIOUS
  <2>1. ASSUME NEW p \in Client, ClientStep(p)
        PROVE  ForeignInv'
    BY <2>1, ForeignClients
  <2>2. ASSUME NEW c \in Cleaner, CleanerStep(c)
        PROVE  ForeignInv'
    BY <2>2, ForeignCleaners
  <2>3. ASSUME NEW r \in Reader, NEW f \in FileId, ReadCheck(r, f)
        PROVE  ForeignInv'
    BY <2>3 DEF ReadCheck, Visible, ForeignInv, NoForeignData, TypeOK, rowVars,
       fileVars, Proc
  <2>4. ASSUME NEW r \in Reader, ReadData(r)
        PROVE  ForeignInv'
    BY <2>4 DEF ReadData, ForeignInv, NoForeignData, TypeOK, rowVars, fileVars, Proc
  <2>5. ASSUME NEW f \in FileId, Age(f)
        PROVE  ForeignInv'
    BY <2>5 DEF Age, ForeignInv, NoForeignData, rowVars
  <2>6. CASE UNCHANGED vars
    BY <2>6 DEF vars, ForeignInv, NoForeignData
  <2> QED
    BY <2>1, <2>2, <2>3, <2>4, <2>5, <2>6 DEF Next, ReaderStep
<1>3. ForeignInv => NoForeignData
  BY DEF ForeignInv
<1> QED
  BY <1>1, <1>2, <1>3, TypeCorrect, PTL DEF Spec

-----------------------------------------------------------------------------
(* FileBlob implements BlobStore.  The stage of a grid changes only when a   *)
(* transaction commits or when the client that holds a fresh identifier lets *)
(* go of it; IInv says which way it can go, and what a reader finds on the   *)
(* disk.                                                                     *)

\* The assumptions of the refinement.  A strategy of the cleaner drops a grid
\* and unlinks its file within one transaction, so that a reader may miss the
\* file of a grid that is still active for it.
Undisturbed == Benign /\ ~Strategies

\* A grid that nobody can write any more stays so: identifiers are handed out
\* once, and only the transaction that inserted a row commits it as active.
LEMMA GoneStays ==
  ASSUME IInv, [Next]_vars, NEW f \in FileId, Gone(f)
  PROVE  Gone(f)'
<1> USE ConstantsAssumption DEF IInv
<1>0. /\ f < seq /\ row[f] # "active" /\ lock[f] \notin Client
      /\ \A p \in Client : cur[p] # f
  BY DEF Gone
<1>1. ASSUME NEW p \in Client, ClientStep(p)
      PROVE  Gone(f)'
  <2>1. CASE ReserveFileId(p)
    BY <1>0, <2>1 DEF ReserveFileId, Gone, TypeOK, Proc, FileId, rowVars
  <2>2. CASE InsertRow(p)
    BY <1>0, <2>2 DEF InsertRow, Change, Gone, TypeOK
  <2>3. CASE RemoveExisting(p) \/ WriteTemporary(p) \/ RenameFile(p)
    BY <1>0, <2>3 DEF RemoveExisting, WriteTemporary, RenameFile, rowVars, Gone
  <2>4. CASE CloseFile(p)
    BY <1>0, <2>4 DEF CloseFile, rowVars, Gone, TypeOK, Proc, NoFile, FileId
  <2>5. ASSUME NEW g \in FileId, DropFile(p, g)
        PROVE  Gone(f)'
    BY <1>0, <2>5 DEF DropFile, Visible, Change, Gone, TypeOK
  <2>6. CASE ClientEnd(p)
    <3>1. /\ row'[f] = row[f] /\ lock'[f] \in {lock[f], NoProc} /\ seq' = seq
          /\ \A q \in Client : cur'[q] \in {cur[q], NoFile}
      BY <1>0, <2>6 DEF ClientEnd, ClientCommit, ClientAbort, Commit, Rollback, Release,
                        EndTransaction, Visible, TypeOK, Proc
    <3> QED
      BY <1>0, <3>1 DEF Gone, Proc, FileId, NoFile
  <2> QED
    BY <1>1, <2>1, <2>2, <2>3, <2>4, <2>5, <2>6 DEF ClientStep, WriteStep
<1>2. ASSUME NEW c \in Cleaner, CleanerStep(c)
      PROVE  Gone(f)'
  <2>1. ASSUME NEW g \in FileId, DropFile(c, g)
        PROVE  Gone(f)'
    BY <1>0, <2>1 DEF DropFile, Visible, Change, Gone, TypeOK
  <2>2. CASE VacuumStart(c) \/ ScanStart(c) \/ \E g \in FileId : VacuumUnlink(c, g)
    BY <1>0, <2>2 DEF VacuumStart, ScanStart, VacuumUnlink, rowVars, Gone
  <2>3. CASE VacuumDelete(c)
    BY <1>0, <2>3 DEF VacuumDelete, Change, Gone
  <2>4. CASE ScanUnlink(c) \/ \E g \in FileId : ScanCheck(c, g)
    <3>1. \A q \in Client : cur'[q] = cur[q]
      BY <2>4 DEF ScanUnlink, ScanCheck, TypeOK, Proc
    <3>2. UNCHANGED <<seq, row, lock>>
      BY <2>4 DEF ScanUnlink, ScanCheck, rowVars
    <3> QED
      BY <1>0, <3>1, <3>2 DEF Gone
  <2>5. CASE CleanerCommit(c) \/ CleanerAbort(c)
    <3>1. row'[f] # "active"
      BY <1>0, <2>5 DEF CleanerCommit, CleanerAbort, Commit, Rollback, Visible, LocksInv
    <3>2. /\ lock'[f] \in {lock[f], NoProc} /\ seq' = seq
          /\ \A q \in Client : cur'[q] = cur[q]
      BY <2>5 DEF CleanerCommit, CleanerAbort, Commit, Rollback, Release, EndTransaction,
                  TypeOK, Proc
    <3> QED
      BY <1>0, <3>1, <3>2 DEF Gone, Proc
  <2> QED
    BY <1>2, <2>1, <2>2, <2>3, <2>4, <2>5 DEF CleanerStep, CleanStep, StrategyDrop
<1>3. ASSUME NEW r \in Reader, ReaderStep(r)
      PROVE  Gone(f)'
  <2>1. \A q \in Client : cur'[q] = cur[q]
    BY <1>3 DEF ReaderStep, ReadCheck, ReadData, TypeOK, Proc
  <2>2. UNCHANGED <<seq, row, lock>>
    BY <1>3 DEF ReaderStep, ReadCheck, ReadData, rowVars
  <2> QED
    BY <1>0, <2>1, <2>2 DEF Gone
<1>4. CASE \E g \in FileId : Age(g)
  BY <1>0, <1>4 DEF Age, rowVars, Gone
<1>5. CASE UNCHANGED vars
  BY <1>0, <1>5 DEF vars, Gone
<1> QED
  BY <1>1, <1>2, <1>3, <1>4, <1>5 DEF Next

\* What a commit can make of a row: a client makes one of an identifier it holds
\* or drops it, a cleaner deletes one that is dropped.
LEMMA RowSteps ==
  ASSUME Undisturbed, IInv, [Next]_vars, NEW f \in FileId
  PROVE  \/ row'[f] = row[f]
         \/ row[f] = "none" /\ lock[f] \in Client
         \/ row[f] = "active" /\ row'[f] = "inactive"
         \/ row[f] = "inactive" /\ row'[f] = "none" /\ lock[f] \in Cleaner
<1> USE ConstantsAssumption DEF IInv
<1>1. CASE \E p \in Client : ClientCommit(p)
  BY <1>1 DEF ClientCommit, Commit, Visible, LocksInv
<1>2. CASE \E c \in Cleaner : CleanerCommit(c)
  BY <1>2 DEF CleanerCommit, Commit, Visible, LocksInv, Undisturbed
<1>3. CASE row' = row
  BY <1>3
<1>4. ASSUME NEW p \in Client, ClientStep(p), ~ClientCommit(p)
      PROVE  row' = row
  BY <1>4 DEF ClientStep, WriteStep, ClientEnd, ReserveFileId, InsertRow, RemoveExisting,
              WriteTemporary, RenameFile, CloseFile, DropFile, ClientAbort, Rollback,
              Change, rowVars
<1>5. ASSUME NEW c \in Cleaner, CleanerStep(c), ~CleanerCommit(c)
      PROVE  row' = row
  BY <1>5 DEF CleanerStep, CleanStep, StrategyDrop, DropFile, VacuumStart, VacuumUnlink,
              VacuumDelete, ScanStart, ScanCheck, ScanUnlink, CleanerAbort, Rollback,
              Change, rowVars
<1>6. ASSUME NEW r \in Reader, ReaderStep(r)
      PROVE  row' = row
  BY <1>6 DEF ReaderStep, ReadCheck, ReadData, rowVars
<1>7. CASE (\E g \in FileId : Age(g)) \/ UNCHANGED vars
  BY <1>7 DEF Age, rowVars, vars
<1> QED
  BY <1>1, <1>2, <1>3, <1>4, <1>5, <1>6, <1>7 DEF Next

\* The stages of grids follow one another as BlobStore says.
LEMMA StageSteps ==
  ASSUME Undisturbed, IInv, [Next]_vars, TypeOK', NEW f \in FileId
  PROVE  Stage(f)' \in Store!Later(Stage(f))
<1> USE ConstantsAssumption DEF IInv
<1>1. Gone(f) => Gone(f)'
  BY GoneStays
<1>2. CASE row[f] = "none"
  <2>1. CASE Gone(f)
    BY <1>1, <1>2, <2>1, RowSteps DEF Gone, Stage, Store!Later
  <2>2. CASE ~Gone(f)
    BY <1>2, <2>2 DEF Stage, Store!Later, TypeOK, RowState
  <2> QED
    BY <2>1, <2>2
<1>3. CASE row[f] = "active"
  BY <1>3, RowSteps DEF Stage, Store!Later
<1>4. CASE row[f] = "inactive"
  <2>1. lock[f] \in Cleaner => Gone(f)
    <3>1. f < seq
      BY <1>4 DEF FreshInv, TypeOK, FileId
    <3>2. \A p \in Client : cur[p] # f
      BY <1>4 DEF ClientsInv, TypeOK, Proc, FileId, NoFile
    <3> QED
      BY <1>4, <3>1, <3>2 DEF Gone
  <2> QED
    BY <1>1, <1>4, <2>1, RowSteps DEF Stage, Store!Later
<1> QED
  BY <1>2, <1>3, <1>4 DEF TypeOK, RowState

\* A reader that asks for a grid is a reader of the abstract store that asks.
LEMMA AskStep ==
  ASSUME IInv, NEW r \in Reader, NEW f \in FileId, ReadCheck(r, f)
  PROVE  Store!Ask(r, f)
<1> USE ConstantsAssumption DEF IInv
<1>1. row[f] = "active"
  BY DEF ReadCheck, Visible, TypeOK, Proc
<1>2. cur[r] = NoFile
  BY DEF ReadCheck, ReadersInv
<1>3. /\ cur' = [cur EXCEPT ![r] = f]
      /\ UNCHANGED <<seq, row, lock, got>>
  BY DEF ReadCheck, rowVars
<1>4. \A p \in Client : cur'[p] = cur[p]
  BY <1>3 DEF TypeOK, Proc
<1>5. \A g \in FileId : Stage(g)' = Stage(g)
  BY <1>3, <1>4 DEF Stage, Gone
<1>6. [q \in Reader |-> cur[q]]' = [[q \in Reader |-> cur[q]] EXCEPT ![r] = f]
  BY <1>3 DEF TypeOK, Proc
<1> QED
  BY <1>1, <1>2, <1>3, <1>5, <1>6 DEF Store!Ask, Stage

\* A reader that opens the file gets what the abstract store may answer.
LEMMA AnswerStep ==
  ASSUME Undisturbed, IInv, NEW r \in Reader, ReadData(r)
  PROVE  Store!Answer(r)
<1> USE ConstantsAssumption DEF IInv
<1>1. cur[r] \in FileId /\ cur[r] # NoFile
  BY DEF ReadData, TypeOK, FileId, NoFile
<1>2. /\ file[cur[r]] \in {"absent", "whole"}
      /\ row[cur[r]] = "active" => file[cur[r]] = "whole"
  BY <1>1 DEF ReadData, ReadersInv, FilesInv, LocksInv, Undisturbed
<1>3. /\ cur' = [cur EXCEPT ![r] = NoFile]
      /\ got' = [got EXCEPT ![r] = file[cur[r]]]
      /\ UNCHANGED <<seq, row, lock>>
  BY DEF ReadData, rowVars
<1>4. \A p \in Client : cur'[p] = cur[p]
  BY <1>3 DEF TypeOK, Proc
<1>5. \A g \in FileId : Stage(g)' = Stage(g)
  BY <1>3, <1>4 DEF Stage, Gone
<1>6. [q \in Reader |-> cur[q]]' = [[q \in Reader |-> cur[q]] EXCEPT ![r] = NoFile]
  BY <1>3 DEF TypeOK, Proc
<1>7. Stage(cur[r]) = "stored" => file[cur[r]] = "whole"
  BY <1>1, <1>2 DEF Stage
<1> QED
  BY <1>1, <1>2, <1>3, <1>5, <1>6, <1>7 DEF Store!Answer

\* Every other step only moves grids on, or nothing at all.
LEMMA OtherSteps ==
  ASSUME Undisturbed, IInv, [Next]_vars, TypeOK', \A r \in Reader : ~ReaderStep(r)
  PROVE  Store!Transact
<1> USE ConstantsAssumption DEF IInv
<1>1. \A f \in FileId : Stage(f)' \in Store!Later(Stage(f))
  BY StageSteps
<1>2. got' = got /\ \A r \in Reader : cur'[r] = cur[r]
  <2>1. ASSUME NEW p \in Client, ClientStep(p)
        PROVE  got' = got /\ \A r \in Reader : cur'[r] = cur[r]
    <3>1. CASE ReserveFileId(p) \/ WriteStep(p)
      BY <3>1 DEF ReserveFileId, WriteStep, InsertRow, RemoveExisting, WriteTemporary,
                  RenameFile, CloseFile, TypeOK, Proc
    <3>2. CASE ClientEnd(p)
      BY <3>2 DEF ClientEnd, ClientCommit, ClientAbort, Commit, Rollback, EndTransaction,
                  TypeOK, Proc
    <3>3. CASE \E f \in FileId : DropFile(p, f)
      BY <3>3 DEF DropFile
    <3> QED
      BY <2>1, <3>1, <3>2, <3>3 DEF ClientStep
  <2>2. ASSUME NEW c \in Cleaner, CleanerStep(c)
        PROVE  got' = got /\ \A r \in Reader : cur'[r] = cur[r]
    <3>1. CASE CleanStep(c) /\ ~CleanerCommit(c)
      BY <3>1 DEF CleanStep, VacuumStart, VacuumUnlink, VacuumDelete, ScanStart, ScanCheck,
                  ScanUnlink, TypeOK, Proc
    <3>2. CASE CleanerCommit(c) \/ CleanerAbort(c)
      BY <3>2 DEF CleanerCommit, CleanerAbort, Commit, Rollback, EndTransaction, TypeOK, Proc
    <3>3. CASE \E f \in FileId : StrategyDrop(c, f)
      BY <3>3 DEF StrategyDrop, DropFile
    <3> QED
      BY <2>2, <3>1, <3>2, <3>3 DEF CleanerStep
  <2>3. CASE (\E f \in FileId : Age(f)) \/ UNCHANGED vars
    BY <2>3 DEF Age, vars
  <2> QED
    BY <2>1, <2>2, <2>3 DEF Next
<1> QED
  BY <1>1, <1>2 DEF Store!Transact

\* With the same assumptions, and a cleaner without strategies, the rest of wdb may
\* take the table file_blob and its directory for the store of BlobStore.
THEOREM StoreCorrect ==
  ASSUME Undisturbed
  PROVE  Spec => StorePromise
<1>1. Init => Store!Init
  BY DEF Init, Store!Init, Stage, Gone, FileId, Proc
<1>2. IInv /\ TypeOK' /\ [Next]_vars => [Store!Next]_Store!vars
  <2> SUFFICES ASSUME IInv, TypeOK', [Next]_vars
               PROVE  Store!Next
    OBVIOUS
  <2>1. CASE \E r \in Reader : ReaderStep(r)
    BY <2>1, AskStep, AnswerStep DEF ReaderStep, Store!Next
  <2>2. CASE \A r \in Reader : ~ReaderStep(r)
    BY <2>2, OtherSteps DEF Store!Next
  <2> QED
    BY <2>1, <2>2
<1>3. Spec => []IInv
  BY InvCorrect DEF Undisturbed
<1> QED
  BY <1>1, <1>2, <1>3, TypeCorrect, PTL DEF Spec, StorePromise, Store!Spec
=============================================================================
