---------------------------- MODULE MappedMemory ----------------------------
(***************************************************************************)
(* MemoryMappedFileMemoryManager of ic-stable-structures: one memory per   *)
(* id, each a file mapped into memory (memory_mapped_files/memory.rs and   *)
(* memory_mapped_file.rs).  For use outside a canister: there are threads, *)
(* the process may be killed and the machine may lose its memory.          *)
(*                                                                         *)
(* A file is a sequence of pages, each one value.  `view' is what the      *)
(* processes see of the files, `durable' what is on the disk: the system   *)
(* writes back what it likes when it likes, and everything when asked to   *)
(* flush.  A memory has a read-write lock of its own, and the manager has  *)
(* one for its table; only a backup holds locks from one step to another.  *)
(***************************************************************************)
EXTENDS Integers, Sequences, FiniteSetsExt

CONSTANTS
  Ids,          \* the memories: numbers, ordered as the paths are
  PageValue,    \* what a page may hold besides Zero
  MaxPages,     \* max_memory_length in pages
  MaxAllPages   \* bound: pages of all files together

ASSUME IdsAssumption == Ids \subseteq Nat
ASSUME PagesAssumption == {MaxPages, MaxAllPages} \subseteq Nat /\ PageValue \subseteq Nat \ {0}

VARIABLES
  view,         \* per id: the content of the file, or NoFile
  durable,      \* per id: its content on the disk, or NoFile
  mode,         \* per id: "closed", "persistent" or "temporary"
  backup,       \* save_copies_to: locks to take, locks held and copies made
  flushed,      \* history: pages flushed and not written since
  written,      \* history: pages written since the file was created
  instant       \* history: the contents when the backup held all locks

fileVars == << view, durable, mode, backup, flushed, written, instant >>

Zero == 0
NoFile == << -1 >>
Exists(id) == view[id] # NoFile
IsOpen(id) == mode[id] # "closed"
Opened == {id \in Ids : IsOpen(id)}
Pages(id) == DOMAIN view[id]
AllPages == MapThenSumSet(LAMBDA id : Len(view[id]), {id \in Ids : Exists(id)})

NoBackup == [phase |-> "idle", targets |-> {}, held |-> {}, copies |-> << >>]

First(ids) == {id \in ids : \A other \in ids : id <= other}

\* No write lock can be taken on a memory that the backup reads.
Unlocked(id) == id \notin backup.held

\* The manager's table is read during a backup and written by get().
TableUnlocked == backup.phase = "idle"

-----------------------------------------------------------------------------
(* MemoryMappedFile *)

Zeros(n) == [i \in 1 .. n |-> Zero]

\* resize, for a length that is a whole number of pages
ResizeTo(id, pages) == view[id] \o Zeros(pages - Len(view[id]))

\* zero_range
ZeroRange(content, offset, count) ==
  [i \in DOMAIN content |-> IF i > offset /\ i <= offset + count THEN Zero ELSE content[i]]

\* flush: all pages are on the disk.
Flush(ids) ==
  /\ durable' = [id \in Ids |-> IF id \in ids THEN view[id] ELSE durable[id]]
  /\ flushed' = [id \in Ids |-> IF id \in ids THEN view[id] ELSE flushed[id]]

-----------------------------------------------------------------------------
(* MemoryMappedFileMemoryManager *)

\* Mutant: a file that is left over is opened as it is.
OpenLeftover(id, is_persistent) ==
  /\ TableUnlocked
  /\ ~ IsOpen(id)
  /\ mode' = [mode EXCEPT ![id] = IF is_persistent THEN "persistent" ELSE "temporary"]
  /\ view' = [view EXCEPT ![id] = IF Exists(id) THEN @ ELSE << >>]
  /\ durable' = [durable EXCEPT ![id] = IF Exists(id) THEN @ ELSE << >>]
  /\ written' = [written EXCEPT ![id] = IF Exists(id) /\ is_persistent THEN @ ELSE {}]
  /\ flushed' = [flushed EXCEPT ![id] = IF Exists(id) /\ is_persistent THEN @ ELSE << >>]
  /\ UNCHANGED << backup, instant >>

\* get_impl of an id that is not in the table, and MemoryMappedFile::new: a
\* file of a temporary memory is removed first.  An id that is in the table
\* is the same memory again.
Open(id, is_persistent) ==
  LET kept == Exists(id) /\ is_persistent
  IN /\ TableUnlocked
     /\ ~ IsOpen(id)
     /\ mode' = [mode EXCEPT ![id] = IF is_persistent THEN "persistent" ELSE "temporary"]
     /\ view' = [view EXCEPT ![id] = IF kept THEN @ ELSE << >>]
     /\ durable' = [durable EXCEPT ![id] = IF kept THEN @ ELSE << >>]
     /\ written' = [written EXCEPT ![id] = IF kept THEN @ ELSE {}]
     /\ flushed' = [flushed EXCEPT ![id] = IF kept THEN @ ELSE << >>]
     /\ UNCHANGED << backup, instant >>

\* Memory::grow; beyond the reserved address space it panics and nothing
\* is changed.
GrowMemory(id, pages) ==
  LET old == Len(view[id])
  IN /\ IsOpen(id) /\ Unlocked(id)
     /\ old + pages <= MaxPages
     /\ AllPages + pages <= MaxAllPages
     /\ view' = [view EXCEPT ![id] = ZeroRange(ResizeTo(id, old + pages), old, pages)]
     /\ UNCHANGED << durable, mode, backup, flushed, written, instant >>

\* Memory::write; beyond the length it panics and nothing is changed.
WriteMemory(id, i, value) ==
  /\ IsOpen(id) /\ Unlocked(id)
  /\ i \in Pages(id)
  /\ view' = [view EXCEPT ![id][i] = value]
  /\ written' = [written EXCEPT ![id] = @ \cup {i}]
  /\ flushed' = [flushed EXCEPT ![id] = [j \in DOMAIN @ \ {i} |-> @[j]]]
  /\ UNCHANGED << durable, mode, backup, instant >>

SetIsPersistent(id, is_persistent) ==
  /\ IsOpen(id) /\ Unlocked(id)
  /\ mode' = [mode EXCEPT ![id] = IF is_persistent THEN "persistent" ELSE "temporary"]
  /\ UNCHANGED << view, durable, backup, flushed, written, instant >>

\* save_copies_to takes the lock of the table, ...
BackupStart ==
  /\ TableUnlocked
  /\ backup' = [NoBackup EXCEPT !.phase = "locking", !.targets = Opened]
  /\ UNCHANGED << view, durable, mode, flushed, written, instant >>

\* Mutant: the guard is dropped at once.
BackupLockDropped(id) ==
  /\ backup.phase = "locking"
  /\ id \in First(backup.targets \ backup.held)
  /\ backup' = [backup EXCEPT !.phase = "copying"]
  /\ instant' = view
  /\ UNCHANGED << view, durable, mode, flushed, written >>

\* ... then those of the memories, one by one and in the order of the table, ...
BackupLock(id) ==
  /\ backup.phase = "locking"
  /\ id \in First(backup.targets \ backup.held)
  /\ backup' = [backup EXCEPT !.held = @ \cup {id}]
  /\ UNCHANGED << view, durable, mode, flushed, written, instant >>

BackupLocked ==
  /\ backup.phase = "locking"
  /\ backup.held = backup.targets
  /\ backup' = [backup EXCEPT !.phase = "copying"]
  /\ instant' = view
  /\ UNCHANGED << view, durable, mode, flushed, written >>

\* ... flushes and copies them, and lets go of each once it is copied.
BackupCopy(id) ==
  /\ backup.phase = "copying"
  /\ id \in First(backup.targets \ DOMAIN backup.copies)
  /\ Flush({id})
  /\ backup' = [backup EXCEPT !.held = @ \ {id},
                              !.copies = [x \in DOMAIN @ \cup {id} |->
                                            IF x = id THEN view[id] ELSE @[x]]]
  /\ UNCHANGED << view, mode, written, instant >>

\* The backup is complete, or a copy failed: all locks are dropped.
BackupEnd ==
  /\ backup.phase = "copying"
  /\ backup' = NoBackup
  /\ instant' = << >>
  /\ UNCHANGED << view, durable, mode, flushed, written >>

\* Mutant: what was not written back stays where it is.
DropMemoriesUnflushed ==
  LET kept == {id \in Opened : mode[id] = "persistent"}
  IN /\ TableUnlocked
     /\ Opened # {}
     /\ flushed' = [id \in Ids |-> IF id \in kept THEN view[id] ELSE flushed[id]]
     /\ view' = [id \in Ids |-> IF id \in Opened \ kept THEN NoFile ELSE view[id]]
     /\ durable' = [id \in Ids |-> IF id \in Opened \ kept THEN NoFile ELSE durable[id]]
     /\ mode' = [id \in Ids |-> "closed"]
     /\ UNCHANGED << backup, written, instant >>

\* The manager and all its memories are dropped.
DropMemories ==
  LET kept == {id \in Opened : mode[id] = "persistent"}
      removed(f, id) == IF id \in Opened \ kept THEN NoFile ELSE f[id]
  IN /\ TableUnlocked
     /\ Opened # {}
     /\ view' = [id \in Ids |-> removed(view, id)]
     /\ durable' = [id \in Ids |-> IF id \in kept THEN view[id] ELSE removed(durable, id)]
     /\ flushed' = [id \in Ids |-> IF id \in kept THEN view[id] ELSE flushed[id]]
     /\ mode' = [id \in Ids |-> "closed"]
     /\ UNCHANGED << backup, written, instant >>

-----------------------------------------------------------------------------
(* The system *)

\* A page is written back, the length of the file with it if need be.
WriteBack(id, i) ==
  /\ Exists(id) /\ i \in Pages(id)
  /\ durable' = [durable EXCEPT ![id] =
       [j \in 1 .. (IF i > Len(@) THEN i ELSE Len(@)) |->
          IF j = i THEN view[id][i] ELSE IF j <= Len(@) THEN @[j] ELSE Zero]]
  /\ UNCHANGED << view, mode, backup, flushed, written, instant >>

\* The process is killed: the system still has all pages.
ProcessKilled ==
  /\ mode' = [id \in Ids |-> "closed"]
  /\ backup' = NoBackup
  /\ instant' = << >>
  /\ UNCHANGED << view, durable, flushed, written >>

\* The machine goes down: what was not written back is gone.
PowerLoss ==
  /\ mode' = [id \in Ids |-> "closed"]
  /\ backup' = NoBackup
  /\ instant' = << >>
  /\ view' = durable
  /\ UNCHANGED << durable, flushed, written >>

FileInit ==
  /\ view = [id \in Ids |-> NoFile]
  /\ durable = [id \in Ids |-> NoFile]
  /\ mode = [id \in Ids |-> "closed"]
  /\ backup = NoBackup
  /\ flushed = [id \in Ids |-> << >>]
  /\ written = [id \in Ids |-> {}]
  /\ instant = << >>

FileNext ==
  \/ \E id \in Ids, p \in BOOLEAN : Open(id, p) \/ SetIsPersistent(id, p)
  \/ \E id \in Ids, n \in 0 .. MaxPages : GrowMemory(id, n)
  \/ \E id \in Ids, i \in 1 .. MaxPages :
       WriteBack(id, i) \/ \E x \in PageValue : WriteMemory(id, i, x)
  \/ BackupStart \/ BackupLocked \/ BackupEnd
  \/ \E id \in Ids : BackupLock(id) \/ BackupCopy(id)
  \/ DropMemories \/ ProcessKilled \/ PowerLoss

FileSpec == FileInit /\ [][FileNext]_fileVars

-----------------------------------------------------------------------------
(* What the memories promise *)

Content == {NoFile} \cup UNION {[1 .. n -> {Zero} \cup PageValue] : n \in 0 .. MaxPages}

FileTypeOK ==
  /\ view \in [Ids -> Content] /\ durable \in [Ids -> Content]
  /\ mode \in [Ids -> {"closed", "persistent", "temporary"}]
  /\ backup.held \subseteq backup.targets /\ backup.targets \subseteq Opened
  /\ \A id \in Ids : durable[id] = NoFile <=> view[id] = NoFile
  /\ \A id \in Opened : Exists(id)

(***************************************************************************)
(* "after the structure is dropped all the changes are saved to file", and *)
(* so they are once a backup has flushed them: a page that was not written *)
(* since is read back as it was, after the process was killed or the       *)
(* machine went down at any time.                                          *)
(***************************************************************************)
FlushedSurvives ==
  \A id \in Ids : Exists(id) =>
    \A i \in DOMAIN flushed[id] : i \in Pages(id) /\ view[id][i] = flushed[id][i]

(***************************************************************************)
(* A memory holds zeros where it was not written: no bytes of a temporary  *)
(* memory that was left over by a crash, nor of the file before it was     *)
(* resized, appear in a memory that was grown.                             *)
(***************************************************************************)
UnwrittenIsZero ==
  \A id \in Ids : Exists(id) =>
    \A i \in Pages(id) : view[id][i] # Zero => i \in written[id]

(***************************************************************************)
(* The copies that save_copies_to makes show all memories at one instant,  *)
(* the one when it held all the locks, though it takes them one by one and *)
(* lets go of each before the next file is copied.                         *)
(***************************************************************************)
BackupIsOneInstant ==
  \A id \in DOMAIN backup.copies : backup.copies[id] = instant[id]

-----------------------------------------------------------------------------
(* The inductive invariant behind the three *)

Copies == UNION {[ids -> Content] : ids \in SUBSET Ids}
BackupRecord == [phase : {"idle", "locking", "copying"}, targets : SUBSET Ids,
                 held : SUBSET Ids, copies : Copies]

\* A backup at each of its stages: in "copying" the locks that it still holds
\* are those of the memories to be copied, and these are as they were.
BackupInv ==
  /\ backup.phase = "idle" => backup.targets = {}
  /\ backup.phase # "copying" => DOMAIN backup.copies = {}
  /\ DOMAIN backup.copies \subseteq backup.targets
  /\ backup.phase = "copying" =>
       /\ backup.held = backup.targets \ DOMAIN backup.copies
       /\ \A id \in backup.held : view[id] = instant[id]

\* What may be read after a power loss: the disk has the flushed pages, and
\* its other pages are ones that were written.
DiskInv ==
  \A id \in Ids : Exists(id) =>
    /\ \A i \in DOMAIN flushed[id] : i \in DOMAIN durable[id] /\ durable[id][i] = flushed[id][i]
    /\ \A i \in DOMAIN durable[id] : durable[id][i] # Zero => i \in written[id]

FileInv ==
  /\ FileTypeOK
  /\ backup \in BackupRecord
  /\ DOMAIN flushed = Ids /\ DOMAIN written = Ids
  /\ BackupInv /\ DiskInv
  /\ FlushedSurvives /\ UnwrittenIsZero /\ BackupIsOneInstant
=============================================================================
