-------------------------- MODULE VersionedStorage --------------------------
(***************************************************************************)
(* The state of a canister across upgrades (ic-storage/src/stable.rs and   *)
(* testing.rs, and the upgrade methods derived by                          *)
(* ic-canister-macros/src/derive.rs).  The stable memory holds the version *)
(* of a type and the encoded value; the type of each release knows the one *)
(* before it and how to upgrade from it.                                   *)
(*                                                                         *)
(* A cell of memory is the version (four bytes in the code) or one chunk   *)
(* of an encoded value.  An encoding tells its own length, so the cells of *)
(* an older and longer value behind it do not matter.                      *)
(***************************************************************************)
EXTENDS Integers, Sequences, FiniteSets, SequencesExt

CONSTANTS
  Newest,     \* the newest version of the type; () is version 0
  Contents,   \* what a state may hold
  Sizes,      \* lengths of encoded values, in cells
  PageCells,  \* cells in a page (64 KiB in the code)
  MaxPages    \* bound: pages the memory can have

ASSUME StorageAssumption ==
  /\ Newest \in Nat \ {0} /\ Sizes \subseteq Nat \ {0}
  /\ PageCells \in Nat \ {0} /\ MaxPages \in Nat

VARIABLES
  memory,     \* the stable memory, a sequence of cells
  release,    \* version of the type in the installed code; 0 before install
  state,      \* the state on the heap
  phase,      \* "running", or "upgrading" between the two hooks
  before,     \* memory, release, state and persisted, to go back to if the upgrade traps
  expected,   \* ghost: the state as the canister's users left it
  persisted   \* ghost: the last state that was written to the memory

storageVars == << memory, release, state, phase, before, expected, persisted >>

Versions == 0 .. Newest
ZeroCell == [of |-> "zero"]

\* A state: the content that was given to it, the version of the type it was
\* made by, the upgrades it went through, and the length of its encoding.
States == [content : Contents, born : 1 .. Newest, upgrades : Seq(Versions), size : Sizes]

NoState == [born |-> 0]

\* Versioned::upgrade of the type of the given version.
UpgradeTo(version, s) == [s EXCEPT !.upgrades = Append(@, version)]

\* The type of a state is the last it was upgraded to.
VersionOf(s) == IF s.upgrades = << >> THEN s.born ELSE Last(s.upgrades)

----------------------------------------------------------------------------
(***************************************************************************)
(* testing.rs, and the stable memory of the IC: pages of zeros that only   *)
(* grow.                                                                   *)
(***************************************************************************)
StableSize(m) == Len(m) \div PageCells

\* The memory after stable_grow, or << >> when there is none left.
StableGrow(m, pages) ==
  IF StableSize(m) + pages > MaxPages THEN << >>
  ELSE m \o [i \in 1 .. pages * PageCells |-> ZeroCell]

\* StableWriter::write of cells at an offset: the memory after it, or << >>
\* when there is none left.
WriteCells(m, offset, cells) ==
  LET grown == IF offset + Len(cells) > Len(m)
               THEN StableGrow(m, Len(cells) \div PageCells + 1) ELSE m
  IN  [i \in DOMAIN grown |->
         IF i > offset /\ i <= offset + Len(cells) THEN cells[i - offset] ELSE grown[i]]

\* IDLBuilder: a value as cells; IDLDeserialize takes as many as there are and
\* fails on anything else.
Encode(s) == [i \in 1 .. s.size |-> [of |-> "value", value |-> s, at |-> i]]

Decodes(cells) ==
  /\ cells # << >> /\ cells[1].of = "value"
  /\ LET n == cells[1].value.size IN
     n <= Len(cells) /\ SubSeq(cells, 1, n) = Encode(cells[1].value)

----------------------------------------------------------------------------
(***************************************************************************)
(* stable.rs.                                                              *)
(***************************************************************************)
\* read_version: InsufficientSpace is -1; a page of zeros is version 0.
ReadVersion(m) ==
  IF m = << >> THEN -1 ELSE IF m[1].of = "version" THEN m[1].version ELSE 0

\* Mutant: a stored value is handed to the newest type as it is.
RecursiveUpgradeDirect(to, version, s) ==
  IF to = version THEN s ELSE UpgradeTo(to, s)

\* recursive_upgrade, from the type that has the version that is stored.
RecursiveUpgrade(to, version, s) ==
  FoldLeft(LAMBDA t, v : UpgradeTo(v, t), s, [i \in 1 .. to - version |-> version + i])

\* read::<T>, where T has version `to`: a state, or an error.
Read(m, to) ==
  LET version == ReadVersion(m)
      cells == SubSeq(m, 2, Len(m))
  IN  CASE version = -1 -> [err |-> "InsufficientSpace"]
        [] version > to -> [err |-> "AttemptedDowngrade"]
        [] version # -1 /\ version <= to ->
             IF Decodes(cells)
             THEN [err |-> "none", value |-> RecursiveUpgrade(to, version, cells[1].value)]
             ELSE [err |-> "Candid"]

\* write: the memory after it, or << >> for ExistingVersionIsNewer and for a
\* write that fails.  What a failed write leaves is undone with the message.
Write(m, version, s) ==
  LET tagged == WriteCells(m, 0, << [of |-> "version", version |-> version] >>)
  IN  IF ReadVersion(m) > version \/ tagged = << >> THEN << >>
      ELSE WriteCells(tagged, 1, Encode(s))

----------------------------------------------------------------------------
(***************************************************************************)
(* The life of a canister.  A hook that traps undoes the whole upgrade,    *)
(* which is the Internet Computer's doing.                                 *)
(***************************************************************************)
StorageInit ==
  /\ memory = << >> /\ release = 0 /\ state = NoState
  /\ phase = "running" /\ before = << >> /\ expected = NoState
  /\ persisted = NoState

\* The canister is installed; the page of zeros is memory that other code has
\* grown.
Install(version, s, pages) ==
  /\ release = 0
  /\ s.born = version /\ s.upgrades = << >>
  /\ release' = version /\ state' = s /\ expected' = s
  /\ memory' = StableGrow(<< >>, pages)
  /\ UNCHANGED << phase, before, persisted >>

\* A call changes the state.
Update(content, size) ==
  /\ release # 0 /\ phase = "running"
  /\ state' = [state EXCEPT !.content = content, !.size = size]
  /\ state' # state
  /\ expected' = state'
  /\ UNCHANGED << memory, release, phase, before, persisted >>

\* __pre_upgrade_inst: write(..).unwrap().
PreUpgrade ==
  LET w == Write(memory, release, state) IN
  /\ release # 0 /\ phase = "running"
  /\ w # << >>
  /\ memory' = w /\ persisted' = state
  /\ before' = << memory, release, state, persisted >>
  /\ phase' = "upgrading" /\ state' = NoState
  /\ UNCHANGED << release, expected >>

\* A release without upgrade methods (canister_no_upgrade_methods) writes
\* nothing: the next release reads what an earlier one has written, if there is
\* any, and what was done since is given up.
PreUpgradeNone ==
  /\ release # 0 /\ phase = "running"
  /\ before' = << memory, release, state, persisted >>
  /\ phase' = "upgrading" /\ state' = NoState
  /\ expected' = IF persisted = NoState THEN expected ELSE persisted
  /\ UNCHANGED << memory, release, persisted >>

\* __post_upgrade_inst of the new code.
PostUpgrade(version) ==
  LET result == Read(memory, version)
      from == VersionOf(expected)
  IN
  /\ phase = "upgrading"
  /\ result.err = "none"
  /\ release' = version /\ state' = result.value
  /\ phase' = "running" /\ before' = << >>
  /\ expected' = [expected EXCEPT !.upgrades =
                    @ \o [i \in 1 .. version - from |-> from + i]]
  /\ UNCHANGED << memory, persisted >>

PostUpgradeTraps(version) ==
  /\ phase = "upgrading"
  /\ Read(memory, version).err # "none"
  /\ memory' = before[1] /\ release' = before[2] /\ state' = before[3]
  /\ persisted' = before[4] /\ expected' = before[3]
  /\ phase' = "running" /\ before' = << >>

StorageNext ==
  \/ \E s \in [content : Contents, born : 1 .. Newest, upgrades : {<< >>}, size : Sizes],
        pages \in 0 .. 1 : Install(s.born, s, pages)
  \/ \E c \in Contents, n \in Sizes : Update(c, n)
  \/ PreUpgrade \/ PreUpgradeNone
  \/ \E version \in 1 .. Newest : PostUpgrade(version) \/ PostUpgradeTraps(version)

StorageSpec == StorageInit /\ [][StorageNext]_storageVars

----------------------------------------------------------------------------
\* The memory is made of whole pages within the limit, and the installed code
\* is one of the releases.
StorageTypeOK ==
  /\ Len(memory) % PageCells = 0 /\ StableSize(memory) <= MaxPages
  /\ release \in Versions
  /\ phase \in {"running", "upgrading"}

\* After any sequence of upgrades, refused downgrades and writes of shorter
\* and longer values, the running canister has the state its users left, each
\* upgrade applied to it once and in order; after releases without upgrade
\* methods, it is the state that was written last (stable.rs, read, write and
\* recursive_upgrade).
UpgradesKeepState ==
  phase = "running" /\ release # 0 =>
    /\ state = expected
    /\ VersionOf(state) = release

----------------------------------------------------------------------------
(***************************************************************************)
(* What makes UpgradesKeepState inductive: the state is on the heap while  *)
(* the canister runs, and in the memory and in what is kept for a trap     *)
(* between the two hooks.                                                  *)
(***************************************************************************)
Cell ==
  {ZeroCell} \cup [of : {"version"}, version : 1 .. Newest]
             \cup [of : {"value"}, value : States, at : Nat]

Blank(m) == \A i \in DOMAIN m : m[i] = ZeroCell

\* What write leaves, whatever was in the memory.
Holds(m, version, s) ==
  /\ Len(m) > s.size /\ m[1] = [of |-> "version", version |-> version]
  /\ \A i \in 1 .. s.size : m[i + 1] = Encode(s)[i]

MemoryOK(m) ==
  /\ m \in Seq(Cell) /\ \E q \in 0 .. MaxPages : Len(m) = q * PageCells
  /\ Blank(m) \/ (m # << >> /\ m[1].of = "version")

\* The memory and what was written to it last.
Stored(m, s) ==
  /\ MemoryOK(m)
  /\ \/ s = NoState /\ Blank(m)
     \/ s \in States /\ VersionOf(s) \in 1 .. Newest /\ Holds(m, VersionOf(s), s)

StateOf(s) == s = expected /\ s \in States /\ VersionOf(s) = release

StorageInv ==
  /\ Stored(memory, persisted) /\ release \in Versions /\ phase \in {"running", "upgrading"}
  /\ release = 0 => phase = "running" /\ persisted = NoState
  /\ phase = "running" /\ release # 0 => StateOf(state)
  /\ phase = "upgrading" =>
       /\ before = << before[1], release, before[3], before[4] >>
       /\ Stored(before[1], before[4])
       /\ before[3] \in States /\ VersionOf(before[3]) = release
       /\ persisted # NoState => expected = persisted
=============================================================================
