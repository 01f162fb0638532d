------------------------- MODULE MappedMemoryProofs -------------------------
(***************************************************************************)
(* Proofs about MappedMemory, for any memories, page contents and lengths: *)
(* flushed pages survive, pages never written are zero, and a backup is of *)
(* one instant.  Last, the structures together.                            *)
(***************************************************************************)
EXTENDS MCStableStructures, RingBufferProofs, CachedMapProofs, SequenceTheorems, TLAPS

PageContent == {Zero} \cup PageValue

\* FileInv for one memory: its content v, that on the disk d, the flushed pages
\* f, the written pages w and the mode m.
PerFile(v, d, f, w, m) ==
  /\ v \in Content /\ d \in Content
  /\ m \in {"closed", "persistent", "temporary"}
  /\ d = NoFile <=> v = NoFile
  /\ m # "closed" => v # NoFile
  /\ v # NoFile =>
       /\ \A i \in DOMAIN f : /\ i \in DOMAIN v /\ v[i] = f[i]
                              /\ i \in DOMAIN d /\ d[i] = f[i]
       /\ \A i \in DOMAIN v : v[i] # Zero => i \in w
       /\ \A i \in DOMAIN d : d[i] # Zero => i \in w

-----------------------------------------------------------------------------
(* Contents *)

\* A file is a sequence of at most MaxPages pages.
LEMMA ContentFacts ==
  ASSUME NEW c \in Content, c # NoFile
  PROVE  /\ Len(c) \in 0 .. MaxPages /\ DOMAIN c = 1 .. Len(c)
         /\ c \in [1 .. Len(c) -> PageContent] /\ c \in Seq(PageContent)
  <1>1. PICK n \in 0 .. MaxPages : c \in [1 .. n -> PageContent]
    BY DEF Content, PageContent
  <1>2. n \in Nat
    BY PagesAssumption
  <1>3. c \in Seq(PageContent) /\ Len(c) = n
    BY <1>1, <1>2
  <1> QED
    BY <1>1, <1>3

\* Such a sequence is a file.
LEMMA ContentIntro ==
  ASSUME NEW n \in 0 .. MaxPages, NEW c \in [1 .. n -> PageContent]
  PROVE  c \in Content /\ c # NoFile
  <1>1. c \in Content
    BY DEF Content, PageContent
  <1>2. ASSUME c = NoFile PROVE FALSE
    <2>1. DOMAIN c = {1} /\ c[1] = -1
      BY <1>2 DEF NoFile
    <2>2. 1 \in 1 .. n
      BY <2>1
    <2>3. c[1] \in PageContent
      BY <2>2
    <2>4. -1 \notin PageContent
      BY PagesAssumption DEF PageContent, Zero
    <2> QED
      BY <2>1, <2>3, <2>4
  <1> QED
    BY <1>1, <1>2

\* A file that was just created.
LEMMA NewFile ==
  ASSUME NEW m \in {"closed", "persistent", "temporary"}
  PROVE  PerFile(<< >>, << >>, << >>, {}, m)
  <1>1. << >> \in [1 .. 0 -> PageContent] /\ 0 \in 0 .. MaxPages
    BY PagesAssumption
  <1>2. << >> \in Content /\ << >> # NoFile
    BY <1>1, ContentIntro
  <1> QED
    BY <1>2 DEF PerFile

\* A file that was removed, whatever was in it.
LEMMA NoFileLeft ==
  ASSUME NEW f, NEW w
  PROVE  PerFile(NoFile, NoFile, f, w, "closed")
  BY DEF PerFile, Content

\* A flushed file.
LEMMA FlushedFile ==
  ASSUME NEW v, NEW d, NEW f, NEW w, NEW m, PerFile(v, d, f, w, m),
         NEW n \in {m, "closed"}
  PROVE  v # NoFile => PerFile(v, v, v, w, n)
  BY DEF PerFile

\* After a power loss the disk is all there is.
LEMMA DiskFile ==
  ASSUME NEW v, NEW d, NEW f, NEW w, NEW m, PerFile(v, d, f, w, m)
  PROVE  PerFile(d, d, f, w, "closed") /\ PerFile(v, d, f, w, "closed")
  BY DEF PerFile

\* A page is written.
LEMMA WrittenFile ==
  ASSUME NEW v, NEW d, NEW f, NEW w, NEW m, PerFile(v, d, f, w, m), v # NoFile,
         NEW i \in DOMAIN v, NEW x \in PageValue
  PROVE  PerFile([v EXCEPT ![i] = x], d, [j \in DOMAIN f \ {i} |-> f[j]], w \cup {i}, m)
  <1> DEFINE u == [v EXCEPT ![i] = x]
             g == [j \in DOMAIN f \ {i} |-> f[j]]
  <1>1. Len(v) \in 0 .. MaxPages /\ v \in [1 .. Len(v) -> PageContent] /\ DOMAIN v = 1 .. Len(v)
    BY ContentFacts DEF PerFile
  <1>2. u \in [1 .. Len(v) -> PageContent]
    BY <1>1 DEF PageContent
  <1>3. u \in Content /\ u # NoFile
    BY <1>1, <1>2, ContentIntro
  <1>4. DOMAIN u = DOMAIN v /\ \A j \in DOMAIN v : u[j] = IF j = i THEN x ELSE v[j]
    BY <1>1
  <1>5. DOMAIN g = DOMAIN f \ {i} /\ \A j \in DOMAIN g : g[j] = f[j]
    OBVIOUS
  <1> HIDE DEF u, g
  <1>6. PerFile(u, d, g, w \cup {i}, m)
    BY <1>3, <1>4, <1>5 DEF PerFile
  <1> QED
    BY <1>6 DEF u, g

\* A file grows, and the pages that are new are zeroed.
LEMMA GrownFile ==
  ASSUME NEW v, NEW d, NEW f, NEW w, NEW m, PerFile(v, d, f, w, m), v # NoFile,
         NEW n \in Nat, Len(v) + n <= MaxPages
  PROVE  PerFile(ZeroRange(v \o Zeros((Len(v) + n) - Len(v)), Len(v), n), d, f, w, m)
  <1> DEFINE l == Len(v)
             z == v \o Zeros((l + n) - l)
             u == ZeroRange(z, l, n)
  <1>1. l \in 0 .. MaxPages /\ v \in [1 .. l -> PageContent] /\ DOMAIN v = 1 .. l
        /\ v \in Seq(PageContent)
    BY ContentFacts DEF PerFile
  <1>2. l \in Nat /\ (l + n) - l = n /\ MaxPages \in Nat /\ l + n \in 0 .. MaxPages
    BY <1>1, PagesAssumption
  <1>3. Zeros(n) \in Seq(PageContent) /\ Len(Zeros(n)) = n /\ \A j \in 1 .. n : Zeros(n)[j] = Zero
    BY DEF Zeros, PageContent
  <1>4. z = v \o Zeros(n)
    BY <1>2
  <1>5. z \in Seq(PageContent) /\ Len(z) = l + n /\ DOMAIN z = 1 .. l + n
        /\ \A j \in 1 .. l : z[j] = v[j]
    <2> HIDE DEF z
    <2>1. z \in Seq(PageContent) /\ Len(z) = l + n
          /\ \A j \in 1 .. l + n : z[j] = IF j <= l THEN v[j] ELSE Zeros(n)[j - l]
      BY <1>1, <1>3, <1>4, ConcatProperties
    <2>2. \A j \in 1 .. l : j \in 1 .. l + n /\ j <= l
      BY <1>2
    <2> HIDE DEF l
    <2> QED
      BY <2>1, <2>2
  <1> HIDE DEF z, l
  <1>6. DOMAIN u = 1 .. l + n
        /\ \A j \in 1 .. l + n : u[j] = IF j > l /\ j <= l + n THEN Zero ELSE z[j]
    BY <1>5 DEF ZeroRange
  <1>7. \A j \in 1 .. l + n : IF j \in 1 .. l THEN u[j] = v[j] ELSE u[j] = Zero
    <2> HIDE DEF u
    <2> QED
      BY <1>2, <1>5, <1>6
  <1>8. u \in [1 .. l + n -> PageContent]
    <2>1. \A j \in 1 .. l + n : u[j] \in PageContent
      BY <1>1, <1>7 DEF PageContent
    <2>2. u = [j \in 1 .. l + n |-> u[j]]
      BY <1>5 DEF ZeroRange
    <2> HIDE DEF u
    <2> QED
      BY <2>1, <2>2
  <1>9. u \in Content /\ u # NoFile
    BY <1>2, <1>8, ContentIntro
  <1>10. 1 .. l \subseteq 1 .. l + n
    BY <1>2
  <1> HIDE DEF u
  <1>11. PerFile(u, d, f, w, m)
    BY <1>1, <1>6, <1>7, <1>9, <1>10 DEF PerFile
  <1> QED
    BY <1>11 DEF u, z, l

\* The system writes a page back, whichever it likes.
LEMMA WrittenBackFile ==
  ASSUME NEW v, NEW d, NEW f, NEW w, NEW m, PerFile(v, d, f, w, m), v # NoFile,
         NEW i \in DOMAIN v
  PROVE  PerFile(v, [j \in 1 .. (IF i > Len(d) THEN i ELSE Len(d)) |->
                       IF j = i THEN v[i] ELSE IF j <= Len(d) THEN d[j] ELSE Zero], f, w, m)
  <1> DEFINE n == IF i > Len(d) THEN i ELSE Len(d)
             e == [j \in 1 .. n |-> IF j = i THEN v[i] ELSE IF j <= Len(d) THEN d[j] ELSE Zero]
  <1>1. /\ Len(v) \in 0 .. MaxPages /\ v \in [1 .. Len(v) -> PageContent] /\ DOMAIN v = 1 .. Len(v)
        /\ Len(d) \in 0 .. MaxPages /\ d \in [1 .. Len(d) -> PageContent] /\ DOMAIN d = 1 .. Len(d)
    BY ContentFacts DEF PerFile
  <1>2. n \in 0 .. MaxPages /\ n \in Nat /\ Len(d) <= n /\ i \in 1 .. n /\ Len(d) \in Nat
    BY <1>1, PagesAssumption
  <1> HIDE DEF n
  <1>3. DOMAIN e = 1 .. n /\ \A j \in 1 .. n :
          e[j] = IF j = i THEN v[i] ELSE IF j <= Len(d) THEN d[j] ELSE Zero
    OBVIOUS
  <1>4. \A j \in DOMAIN d : j \in 1 .. n /\ j <= Len(d)
    BY <1>1, <1>2
  <1>5. e \in [1 .. n -> PageContent]
    <2>1. ASSUME NEW j \in 1 .. n PROVE e[j] \in PageContent
      <3>1. j <= Len(d) => j \in 1 .. Len(d)
        BY <1>2
      <3> QED
        BY <1>1, <1>3, <3>1 DEF PageContent
    <2> QED
      BY <2>1
  <1>6. e \in Content /\ e # NoFile
    BY <1>2, <1>5, ContentIntro
  <1> HIDE DEF e
  <1>7. \A j \in DOMAIN e : \/ j = i /\ e[j] = v[j]
                            \/ j \in DOMAIN d /\ e[j] = d[j]
                            \/ e[j] = Zero
    <2> TAKE j \in DOMAIN e
    <2>1. j \in 1 .. n
      BY <1>3
    <2>2. j <= Len(d) => j \in 1 .. Len(d)
      BY <1>2, <2>1
    <2> QED
      BY <1>1, <1>3, <2>1, <2>2
  <1>8. \A j \in DOMAIN d : j \in DOMAIN e /\ (e[j] = IF j = i THEN v[i] ELSE d[j])
    BY <1>1, <1>3, <1>4
  <1>9. PerFile(v, e, f, w, m)
    BY <1>6, <1>7, <1>8 DEF PerFile
  <1> QED
    BY <1>9 DEF e, n

-----------------------------------------------------------------------------
(* The invariant *)

\* The parts of FileInv that are about single memories.
Files ==
  /\ view = [id \in Ids |-> view[id]] /\ durable = [id \in Ids |-> durable[id]]
  /\ mode = [id \in Ids |-> mode[id]]
  /\ DOMAIN flushed = Ids /\ DOMAIN written = Ids
  /\ \A id \in Ids : PerFile(view[id], durable[id], flushed[id], written[id], mode[id])

\* The parts that are about the backup.
Backups ==
  /\ backup \in BackupRecord
  /\ backup.held \subseteq backup.targets /\ backup.targets \subseteq Opened
  /\ BackupInv /\ BackupIsOneInstant

\* FileInv, memory by memory.
LEMMA FileInvParts == FileInv <=> Files /\ Backups
  <1>1. FileInv => Files
    BY DEF FileInv, Files, FileTypeOK, PerFile, DiskInv, FlushedSurvives, UnwrittenIsZero,
           Opened, IsOpen, Exists, Pages
  <1>2. FileInv => Backups
    BY DEF FileInv, Backups, FileTypeOK
  <1>3. ASSUME Files, Backups PROVE FileInv
    <2>1. view \in [Ids -> Content] /\ durable \in [Ids -> Content]
          /\ mode \in [Ids -> {"closed", "persistent", "temporary"}]
      BY <1>3 DEF Files, PerFile
    <2>2. FileTypeOK
      BY <1>3, <2>1 DEF Files, Backups, PerFile, FileTypeOK, Opened, IsOpen, Exists
    <2>3. DiskInv /\ FlushedSurvives /\ UnwrittenIsZero
      BY <1>3 DEF Files, PerFile, DiskInv, FlushedSurvives, UnwrittenIsZero, Exists, Pages
    <2> QED
      BY <1>3, <2>2, <2>3 DEF Files, Backups, FileInv
  <1> QED
    BY <1>1, <1>2, <1>3

\* A backup that has copied nothing.
LEMMA NoCopies == << >> \in Copies
  <1>1. << >> \in [{} -> Content]
    OBVIOUS
  <1>2. {} \in SUBSET Ids
    OBVIOUS
  <1> QED
    BY <1>1, <1>2 DEF Copies

\* No backup.
LEMMA NoBackupOK ==
  ASSUME backup' = NoBackup
  PROVE  Backups'
  <1>2. backup' \in BackupRecord
    BY NoCopies DEF BackupRecord, NoBackup
  <1>3. backup'.phase = "idle" /\ backup'.targets = {} /\ backup'.held = {} /\ DOMAIN backup'.copies = {}
    BY DEF NoBackup
  <1> QED
    BY <1>2, <1>3 DEF Backups, BackupInv, BackupIsOneInstant

\* No files.
LEMMA FileInvInit == FileInit => FileInv
  <1> SUFFICES ASSUME FileInit PROVE FileInv
    OBVIOUS
  <1>1. Files
    BY NoFileLeft DEF FileInit, Files
  <1>3. backup \in BackupRecord
    BY NoCopies DEF BackupRecord, NoBackup, FileInit
  <1>4. backup.phase = "idle" /\ backup.targets = {} /\ backup.held = {} /\ DOMAIN backup.copies = {}
    BY DEF NoBackup, FileInit
  <1>5. Backups
    BY <1>3, <1>4 DEF Backups, BackupInv, BackupIsOneInstant
  <1> QED
    BY <1>1, <1>5, FileInvParts

\* The variables are functions on the ids, before and after a step.
Shapes ==
  /\ view = [x \in Ids |-> view[x]] /\ durable = [x \in Ids |-> durable[x]]
  /\ mode = [x \in Ids |-> mode[x]]
  /\ DOMAIN flushed = Ids /\ DOMAIN written = Ids

\* A step that changes one memory at most, and keeps that one well.
LEMMA OneFileChanged ==
  ASSUME Files, Shapes', NEW id \in Ids,
         PerFile(view'[id], durable'[id], flushed'[id], written'[id], mode'[id]),
         \A x \in Ids \ {id} :
           /\ view'[x] = view[x] /\ durable'[x] = durable[x] /\ flushed'[x] = flushed[x]
           /\ written'[x] = written[x] /\ mode'[x] = mode[x]
  PROVE  Files'
  <1>1. \A x \in Ids : PerFile(view'[x], durable'[x], flushed'[x], written'[x], mode'[x])
    BY DEF Files
  <1> QED
    BY <1>1 DEF Files, Shapes

\* While a backup holds locks, the memories it has locked and the table stay
\* as they are.
LEMMA BackupUndisturbed ==
  ASSUME Backups, UNCHANGED << backup, instant >>,
         \A id \in Ids : IsOpen(id) => IsOpen(id)',
         \A id \in backup.held : view'[id] = view[id]
  PROVE  Backups'
  <1>1. Opened \subseteq Opened'
    BY DEF Opened
  <1> QED
    BY <1>1 DEF Backups, BackupInv, BackupIsOneInstant

\* Unless a backup runs, nothing is locked.
LEMMA IdleHoldsNothing ==
  ASSUME Backups, TableUnlocked
  PROVE  backup.targets = {} /\ backup.held = {} /\ DOMAIN backup.copies = {}
  BY DEF Backups, BackupInv, TableUnlocked

\* The operations on one memory keep the invariant.
LEMMA MemoryNext ==
  ASSUME Files, Backups, NEW id \in Ids,
         \/ \E p \in BOOLEAN : Open(id, p) \/ SetIsPersistent(id, p)
         \/ \E n \in 0 .. MaxPages : GrowMemory(id, n)
         \/ \E i \in 1 .. MaxPages : WriteBack(id, i) \/ \E x \in PageValue : WriteMemory(id, i, x)
  PROVE  Files' /\ Backups'
  <1> DEFINE Others == \A x \in Ids \ {id} :
               /\ view'[x] = view[x] /\ durable'[x] = durable[x] /\ flushed'[x] = flushed[x]
               /\ written'[x] = written[x] /\ mode'[x] = mode[x]
  <1>s. Shapes
    BY DEF Files, Shapes
  <1>f. PerFile(view[id], durable[id], flushed[id], written[id], mode[id])
    BY DEF Files
  <1>o. IsOpen(id) => view[id] # NoFile
    BY <1>f DEF PerFile, IsOpen
  <1>u. ASSUME Unlocked(id), UNCHANGED << backup, instant, mode >>, Others PROVE Backups'
    <2>1. \A x \in backup.held : view'[x] = view[x]
      BY <1>u DEF Unlocked, Backups, BackupRecord
    <2> QED
      BY <1>u, <2>1, BackupUndisturbed DEF IsOpen
  <1>1. ASSUME NEW p \in BOOLEAN, Open(id, p) PROVE Files' /\ Backups'
    <2>1. Shapes' /\ Others
      BY <1>s, <1>1 DEF Shapes, Open
    <2>2. mode'[id] \in {"persistent", "temporary"}
      BY <1>s, <1>1 DEF Shapes, Open
    <2>3. PerFile(view'[id], durable'[id], flushed'[id], written'[id], mode'[id])
      <3>1. CASE Exists(id) /\ p
        <4>1. /\ view'[id] = view[id] /\ durable'[id] = durable[id]
              /\ flushed'[id] = flushed[id] /\ written'[id] = written[id]
          BY <1>s, <1>1, <3>1 DEF Shapes, Open
        <4> QED
          BY <1>f, <2>2, <3>1, <4>1 DEF PerFile, Exists
      <3>2. CASE ~ (Exists(id) /\ p)
        <4>1. view'[id] = << >> /\ durable'[id] = << >> /\ flushed'[id] = << >> /\ written'[id] = {}
          BY <1>s, <1>1, <3>2 DEF Shapes, Open
        <4> QED
          BY <2>2, <4>1, NewFile
      <3> QED
        BY <3>1, <3>2
    <2>4. Backups'
      <3>1. backup.held = {} /\ UNCHANGED << backup, instant >>
        BY <1>1, IdleHoldsNothing DEF Open
      <3>2. \A x \in Ids : IsOpen(x) => IsOpen(x)'
        BY <2>1, <2>2 DEF IsOpen
      <3> QED
        BY <3>1, <3>2, BackupUndisturbed
    <2> QED
      BY <2>1, <2>3, <2>4, OneFileChanged
  <1>2. ASSUME NEW p \in BOOLEAN, SetIsPersistent(id, p) PROVE Files' /\ Backups'
    <2>1. Shapes' /\ Others
      BY <1>s, <1>2 DEF Shapes, SetIsPersistent
    <2>2. mode'[id] \in {"persistent", "temporary"} /\ UNCHANGED << view, durable, flushed, written >>
      BY <1>s, <1>2 DEF Shapes, SetIsPersistent
    <2>3. PerFile(view'[id], durable'[id], flushed'[id], written'[id], mode'[id])
      BY <1>f, <1>o, <1>2, <2>2 DEF PerFile, SetIsPersistent
    <2>4. Backups'
      <3>1. \A x \in Ids : IsOpen(x) => IsOpen(x)'
        BY <2>1, <2>2 DEF IsOpen
      <3> QED
        BY <1>2, <3>1, BackupUndisturbed DEF SetIsPersistent
    <2> QED
      BY <2>1, <2>3, <2>4, OneFileChanged
  <1>3. ASSUME NEW n \in 0 .. MaxPages, GrowMemory(id, n) PROVE Files' /\ Backups'
    <2>1. Shapes' /\ Others
      BY <1>s, <1>3 DEF Shapes, GrowMemory
    <2>2. /\ view'[id] = ZeroRange(view[id] \o Zeros((Len(view[id]) + n) - Len(view[id])), Len(view[id]), n)
          /\ UNCHANGED << durable, flushed, written, mode, backup, instant >>
          /\ Unlocked(id) /\ view[id] # NoFile /\ Len(view[id]) + n <= MaxPages
      BY <1>s, <1>o, <1>3 DEF Shapes, GrowMemory, ResizeTo
    <2>3. n \in Nat
      BY PagesAssumption
    <2>4. PerFile(view'[id], durable[id], flushed[id], written[id], mode[id])
      BY <1>f, <2>2, <2>3, GrownFile
    <2> QED
      BY <1>u, <2>1, <2>2, <2>4, OneFileChanged
  <1>4. ASSUME NEW i \in 1 .. MaxPages, WriteBack(id, i) PROVE Files' /\ Backups'
    <2> DEFINE d == durable[id]
    <2>1. Shapes' /\ Others
      BY <1>s, <1>4 DEF Shapes, WriteBack
    <2>2. /\ durable'[id] = [j \in 1 .. (IF i > Len(d) THEN i ELSE Len(d)) |->
                               IF j = i THEN view[id][i] ELSE IF j <= Len(d) THEN d[j] ELSE Zero]
          /\ UNCHANGED << view, flushed, written, mode, backup, instant >>
          /\ view[id] # NoFile /\ i \in DOMAIN view[id]
      BY <1>s, <1>4 DEF Shapes, WriteBack, Exists, Pages
    <2>3. PerFile(view[id], durable'[id], flushed[id], written[id], mode[id])
      BY <1>f, <2>2, WrittenBackFile
    <2>4. Backups'
      BY <2>2, BackupUndisturbed DEF IsOpen
    <2> QED
      BY <2>1, <2>2, <2>3, <2>4, OneFileChanged
  <1>5. ASSUME NEW i \in 1 .. MaxPages, NEW x \in PageValue, WriteMemory(id, i, x)
        PROVE  Files' /\ Backups'
    <2>1. Shapes' /\ Others
      BY <1>s, <1>5 DEF Shapes, WriteMemory
    <2>2. /\ view'[id] = [view[id] EXCEPT ![i] = x]
          /\ flushed'[id] = [j \in DOMAIN flushed[id] \ {i} |-> flushed[id][j]]
          /\ written'[id] = written[id] \cup {i}
          /\ UNCHANGED << durable, mode, backup, instant >>
          /\ Unlocked(id) /\ view[id] # NoFile /\ i \in DOMAIN view[id]
      BY <1>s, <1>o, <1>5 DEF Shapes, WriteMemory, Pages
    <2>3. PerFile(view'[id], durable[id], flushed'[id], written'[id], mode[id])
      BY <1>f, <2>2, WrittenFile
    <2> QED
      BY <1>u, <2>1, <2>2, <2>3, OneFileChanged
  <1> QED
    BY <1>1, <1>2, <1>3, <1>4, <1>5

\* The steps of a backup keep the invariant.
LEMMA BackupNext ==
  ASSUME Files, Backups,
         \/ BackupStart \/ BackupLocked \/ BackupEnd
         \/ \E id \in Ids : BackupLock(id) \/ BackupCopy(id)
  PROVE  Files' /\ Backups'
  <1>b. backup \in BackupRecord
    BY DEF Backups
  <1>f. ASSUME UNCHANGED << view, durable, mode, flushed, written >> PROVE Files'
    BY <1>f DEF Files
  <1>1. CASE BackupStart
    <2>1. /\ backup' = [phase |-> "locking", targets |-> Opened, held |-> {}, copies |-> << >>]
          /\ UNCHANGED << view, durable, mode, flushed, written, instant >>
      BY <1>1 DEF BackupStart, NoBackup
    <2>2. /\ backup'.phase = "locking" /\ backup'.targets = Opened
          /\ backup'.held = {} /\ DOMAIN backup'.copies = {}
      BY <2>1
    <2>3. backup' \in BackupRecord
      BY <2>1, NoCopies DEF BackupRecord, Opened
    <2>4. Opened' = Opened
      BY <2>1 DEF Opened, IsOpen
    <2> QED
      BY <1>f, <2>1, <2>2, <2>3, <2>4 DEF Backups, BackupInv, BackupIsOneInstant
  <1>2. ASSUME NEW id \in Ids, BackupLock(id) PROVE Files' /\ Backups'
    <2>1. /\ backup' = [backup EXCEPT !.held = @ \cup {id}]
          /\ backup.phase = "locking" /\ id \in backup.targets
          /\ UNCHANGED << view, durable, mode, flushed, written, instant >>
      BY <1>2 DEF BackupLock, First
    <2>2. /\ backup'.phase = "locking" /\ backup'.targets = backup.targets
          /\ backup'.held = backup.held \cup {id} /\ backup'.copies = backup.copies
          /\ backup' \in BackupRecord
      BY <1>b, <2>1 DEF BackupRecord
    <2>3. Opened' = Opened
      BY <2>1 DEF Opened, IsOpen
    <2> QED
      BY <1>f, <2>1, <2>2, <2>3 DEF Backups, BackupInv, BackupIsOneInstant
  <1>3. CASE BackupLocked
    <2>1. /\ backup' = [backup EXCEPT !.phase = "copying"]
          /\ backup.phase = "locking" /\ backup.held = backup.targets
          /\ instant' = view
          /\ UNCHANGED << view, durable, mode, flushed, written >>
      BY <1>3 DEF BackupLocked
    <2>2. /\ backup'.phase = "copying" /\ backup'.targets = backup.targets
          /\ backup'.held = backup.held /\ backup'.copies = backup.copies
          /\ backup' \in BackupRecord
      BY <1>b, <2>1 DEF BackupRecord
    <2>3. DOMAIN backup.copies = {}
      BY <2>1 DEF Backups, BackupInv
    <2>4. Opened' = Opened
      BY <2>1 DEF Opened, IsOpen
    <2> QED
      BY <1>f, <2>1, <2>2, <2>3, <2>4 DEF Backups, BackupInv, BackupIsOneInstant
  <1>4. ASSUME NEW id \in Ids, BackupCopy(id) PROVE Files' /\ Backups'
    <2> DEFINE copies == [x \in DOMAIN backup.copies \cup {id} |->
                            IF x = id THEN view[id] ELSE backup.copies[x]]
    <2>1. /\ backup' = [backup EXCEPT !.held = @ \ {id}, !.copies = copies]
          /\ backup.phase = "copying" /\ id \in backup.targets \ DOMAIN backup.copies
          /\ UNCHANGED << view, mode, written, instant >>
      BY <1>4 DEF BackupCopy, First
    <2>2. id \in backup.held /\ view[id] = instant[id] /\ IsOpen(id)
      BY <2>1 DEF Backups, BackupInv, Opened
    <2>3. view[id] # NoFile /\ PerFile(view[id], durable[id], flushed[id], written[id], mode[id])
      BY <2>2 DEF Files, PerFile, IsOpen
    <2>4. Files'
      <3>1. /\ durable' = [x \in Ids |-> IF x = id THEN view[x] ELSE durable[x]]
            /\ flushed' = [x \in Ids |-> IF x = id THEN view[x] ELSE flushed[x]]
        BY <1>4 DEF BackupCopy, Flush
      <3>2. Shapes'
        BY <2>1, <3>1 DEF Files, Shapes
      <3>3. /\ durable'[id] = view[id] /\ flushed'[id] = view[id]
            /\ \A x \in Ids \ {id} : durable'[x] = durable[x] /\ flushed'[x] = flushed[x]
        BY <3>1
      <3>4. PerFile(view[id], view[id], view[id], written[id], mode[id])
        BY <2>3, FlushedFile
      <3> QED
        BY <2>1, <3>2, <3>3, <3>4, OneFileChanged
    <2>5. copies \in Copies /\ DOMAIN copies = DOMAIN backup.copies \cup {id}
      <3>1. PICK ids \in SUBSET Ids : backup.copies \in [ids -> Content]
        BY <1>b DEF BackupRecord, Copies
      <3>2. view[id] \in Content
        BY <2>3 DEF PerFile
      <3>3. copies \in [ids \cup {id} -> Content]
        BY <3>1, <3>2
      <3> QED
        BY <3>1, <3>3 DEF Copies
    <2>6. \A x \in DOMAIN copies : copies[x] = instant[x]
      BY <2>2 DEF Backups, BackupIsOneInstant
    <2> HIDE DEF copies
    <2>7. /\ backup'.phase = "copying" /\ backup'.targets = backup.targets
          /\ backup'.held = backup.held \ {id} /\ backup'.copies = copies
          /\ backup' \in BackupRecord
      BY <1>b, <2>1, <2>5 DEF BackupRecord
    <2>8. Opened' = Opened
      BY <2>1 DEF Opened, IsOpen
    <2>9. Backups'
      BY <2>1, <2>5, <2>6, <2>7, <2>8 DEF Backups, BackupInv, BackupIsOneInstant
    <2> QED
      BY <2>4, <2>9
  <1>5. CASE BackupEnd
    BY <1>f, <1>5, NoBackupOK DEF BackupEnd
  <1> QED
    BY <1>1, <1>2, <1>3, <1>4, <1>5

\* Closing the files, in good order or not, keeps the invariant.
LEMMA ClosingNext ==
  ASSUME Files, Backups, DropMemories \/ ProcessKilled \/ PowerLoss
  PROVE  Files' /\ Backups'
  <1>s. Shapes
    BY DEF Files, Shapes
  <1>f. \A id \in Ids : PerFile(view[id], durable[id], flushed[id], written[id], mode[id])
    BY DEF Files
  <1>d. \A id \in Ids : /\ PerFile(durable[id], durable[id], flushed[id], written[id], "closed")
                         /\ PerFile(view[id], durable[id], flushed[id], written[id], "closed")
    BY <1>f, DiskFile
  <1>1. CASE DropMemories
    <2> DEFINE kept == {id \in Opened : mode[id] = "persistent"}
               removed(f, id) == IF id \in Opened \ kept THEN NoFile ELSE f[id]
    <2>1. /\ view' = [id \in Ids |-> removed(view, id)]
          /\ durable' = [id \in Ids |-> IF id \in kept THEN view[id] ELSE removed(durable, id)]
          /\ flushed' = [id \in Ids |-> IF id \in kept THEN view[id] ELSE flushed[id]]
          /\ mode' = [id \in Ids |-> "closed"]
          /\ UNCHANGED << backup, written, instant >> /\ TableUnlocked
      BY <1>1 DEF DropMemories
    <2>2. Shapes'
      BY <1>s, <2>1 DEF Shapes
    <2>3. ASSUME NEW id \in Ids
          PROVE  PerFile(view'[id], durable'[id], flushed'[id], written'[id], mode'[id])
      <3>1. CASE id \in kept
        <4>1. /\ view'[id] = view[id] /\ durable'[id] = view[id] /\ flushed'[id] = view[id]
              /\ written'[id] = written[id] /\ mode'[id] = "closed"
          BY <2>1, <3>1
        <4>2. view[id] # NoFile
          BY <1>f, <3>1 DEF PerFile, Opened, IsOpen
        <4>3. PerFile(view[id], view[id], view[id], written[id], "closed")
          BY <1>f, <4>2, FlushedFile
        <4> QED
          BY <4>1, <4>3
      <3>2. CASE id \in Opened \ kept
        <4>1. /\ view'[id] = NoFile /\ durable'[id] = NoFile /\ flushed'[id] = flushed[id]
              /\ written'[id] = written[id] /\ mode'[id] = "closed"
          BY <2>1, <3>2
        <4> QED
          BY <4>1, NoFileLeft
      <3>3. CASE id \notin Opened
        <4>1. /\ view'[id] = view[id] /\ durable'[id] = durable[id] /\ flushed'[id] = flushed[id]
              /\ written'[id] = written[id] /\ mode'[id] = "closed"
          BY <2>1, <3>3
        <4> QED
          BY <1>d, <4>1
      <3> QED
        BY <3>1, <3>2, <3>3
    <2>4. Files'
      BY <2>2, <2>3 DEF Files, Shapes
    <2>5. Backups'
      <3>1. backup.targets = {} /\ backup.held = {} /\ DOMAIN backup.copies = {} /\ backup' = backup
        BY <2>1, IdleHoldsNothing
      <3> QED
        BY <2>1, <3>1 DEF Backups, BackupInv, BackupIsOneInstant, TableUnlocked
    <2> QED
      BY <2>4, <2>5
  <1>2. CASE ProcessKilled
    <2>1. /\ mode' = [id \in Ids |-> "closed"] /\ backup' = NoBackup
          /\ UNCHANGED << view, durable, flushed, written >>
      BY <1>2 DEF ProcessKilled
    <2>2. Files'
      BY <1>s, <1>d, <2>1 DEF Files, Shapes
    <2> QED
      BY <2>1, <2>2, NoBackupOK
  <1>3. CASE PowerLoss
    <2>1. /\ mode' = [id \in Ids |-> "closed"] /\ backup' = NoBackup
          /\ view' = durable /\ UNCHANGED << durable, flushed, written >>
      BY <1>3 DEF PowerLoss
    <2>2. Files'
      BY <1>s, <1>d, <2>1 DEF Files, Shapes
    <2> QED
      BY <2>1, <2>2, NoBackupOK
  <1> QED
    BY <1>1, <1>2, <1>3

\* Every operation, every step of a backup and every failure keeps the
\* invariant.
LEMMA FilesNext == Files /\ Backups /\ [FileNext]_fileVars => Files' /\ Backups'
  <1> SUFFICES ASSUME Files, Backups, [FileNext]_fileVars PROVE Files' /\ Backups'
    OBVIOUS
  <1>1. CASE UNCHANGED fileVars
    <2>1. UNCHANGED << view, durable, mode, backup, flushed, written, instant >>
      BY <1>1 DEF fileVars
    <2>2. Files'
      BY <2>1 DEF Files
    <2>3. Backups'
      BY <2>1, BackupUndisturbed DEF IsOpen
    <2> QED
      BY <2>2, <2>3
  <1>2. CASE FileNext
    BY <1>2, MemoryNext, BackupNext, ClosingNext DEF FileNext
  <1> QED
    BY <1>1, <1>2

\* The inductive invariant holds for ever.
THEOREM FilesInvariant == FileSpec => []FileInv
  BY FileInvInit, FileInvParts, FilesNext, PTL DEF FileSpec

\* What a backup or a drop has flushed is read back after any crash (drop of
\* MemoryMappedFile, save_copy).
THEOREM FlushedPagesSurvive == FileSpec => []FlushedSurvives
  <1>1. FileInv => FlushedSurvives
    BY DEF FileInv
  <1> QED
    BY <1>1, FilesInvariant, PTL

\* A memory is zero where it was not written (resize and zero_range).
THEOREM NoForeignBytes == FileSpec => []UnwrittenIsZero
  <1>1. FileInv => UnwrittenIsZero
    BY DEF FileInv
  <1> QED
    BY <1>1, FilesInvariant, PTL

\* The copies of save_copies_to are of one instant.
THEOREM BackupsAreConsistent == FileSpec => []BackupIsOneInstant
  <1>1. FileInv => BackupIsOneInstant
    BY DEF FileInv
  <1> QED
    BY <1>1, FilesInvariant, PTL


-----------------------------------------------------------------------------
(* The structures together *)

\* The inductive invariants of the ring buffer, the cached maps and the files.
StructuresInv == TypeOK /\ CacheInv /\ FileInv

\* The ring buffer, the cached maps and the memory mapped files stay
\* well-formed whatever is done to one of them.
THEOREM StructuresAreWellFormed == StableSpec => []StructuresTypeOK
  <1>1. StableInit => StructuresInv
    BY InitType, CacheInvInit, FileInvInit DEF StableInit, StructuresInv
  <1>2. StructuresInv /\ [StableNext]_<< subject, vars, cacheVars, fileVars >> => StructuresInv'
    <2> SUFFICES ASSUME StructuresInv, [StableNext]_<< subject, vars, cacheVars, fileVars >>
                 PROVE  StructuresInv'
      OBVIOUS
    <2>1. [Next]_vars /\ [CacheNext]_cacheVars /\ [FileNext]_fileVars
      BY DEF StableNext
    <2>2. (FileInv <=> Files /\ Backups)'
      BY FileInvParts, PTL
    <2>3. FileInv'
      BY <2>1, <2>2, FileInvParts, FilesNext DEF StructuresInv
    <2> QED
      BY <2>1, <2>3, NextType, CacheInvNext DEF StructuresInv
  <1>3. CacheInv => CacheTypeOK
    BY DEF CacheInv
  <1>4. FileInv => FileTypeOK
    BY DEF FileInv
  <1>5. StructuresInv => StructuresTypeOK
    BY <1>3, <1>4 DEF StructuresInv, StructuresTypeOK
  <1> QED
    BY <1>1, <1>2, <1>5, PTL DEF StableSpec
=============================================================================
