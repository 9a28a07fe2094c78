----------------------------- MODULE DiskProofs -----------------------------
(***************************************************************************)
(* DiskFS: types, and that no two files share a slot, for any table, any   *)
(* sector layout, any sequence of calls, crashes, I/O errors and host      *)
(* installations; then what holds besides on a disk without errors, up to  *)
(* the refinement of FileStore.                                            *)
(*                                                                         *)
(* On top of it, the boot of StellaresOS across power failures: types,     *)
(* that a finished installation is kept and asked for by every later boot, *)
(* and that login has accounts, for any accounts, apps, table and layout   *)
(* of the disk, as long as the disk has reported no error.                 *)
(***************************************************************************)
EXTENDS Boot, TLAPS, WellFoundedInduction

(***************************************************************************)
(* The inductive reason: inodes and slots are both taken lowest first, so  *)
(* a used inode always has the slot of its own index.  Tables mix sectors  *)
(* of different ages after a crash or an error, and the disjointness of    *)
(* slots alone would not survive the mixture; this does, inode by inode.   *)
(***************************************************************************)
OwnSlot(tab) == \A i \in Inodes : tab[i].used => tab[i].slot = i

IInv == TypeOK /\ OwnSlot(disk_inodes) /\ OwnSlot(inodes)

Tables == [Inodes -> UsedInode \cup {NoInode}]

(* The smallest element of a set of indices. *)
LEMMA FirstIsLeast ==
  ASSUME NEW S \in SUBSET Nat, S # {}
  PROVE  First(S) \in S
<1>1. PICK x \in S : \A y \in S : ~ (<<y, x>> \in OpToRel(<, Nat))
  BY NatLessThanWellFounded, WFMin
<1>2. \A y \in S : ~ (y < x)
  BY <1>1 DEF OpToRel
<1>3. \A y \in S : x <= y
  BY <1>2
<1> QED
  BY <1>3 DEF First

LEMMA Indices == Inodes = Slots /\ Inodes \subseteq Nat
BY DiskFSAssumption DEF Inodes, Slots

(* When every used inode has its own slot, the first free ones agree. *)
LEMMA FreeAgree ==
  ASSUME NEW tab \in Tables, OwnSlot(tab)
  PROVE  FreeSlots(tab) = FreeInodes(tab)
BY Indices DEF FreeSlots, FreeInodes, OwnSlot, Tables

LEMMA FirstFree ==
  ASSUME NEW tab \in Tables, OwnSlot(tab), FreeInodes(tab) # {}
  PROVE  /\ First(FreeInodes(tab)) \in Inodes
         /\ First(FreeSlots(tab)) = First(FreeInodes(tab))
<1>1. FreeInodes(tab) \in SUBSET Nat
  BY Indices DEF FreeInodes
<1>2. First(FreeInodes(tab)) \in FreeInodes(tab)
  BY <1>1, FirstIsLeast
<1> QED
  BY <1>2, FreeAgree DEF FreeInodes

LEMMA FirstFound ==
  ASSUME NEW tab \in Tables, NEW n, Finds(tab, n) # {}
  PROVE  /\ First(Finds(tab, n)) \in Inodes
         /\ tab[First(Finds(tab, n))] \in UsedInode
<1>1. Finds(tab, n) \in SUBSET Nat
  BY Indices DEF Finds
<1>2. First(Finds(tab, n)) \in Finds(tab, n)
  BY <1>1, FirstIsLeast
<1> QED
  BY <1>2 DEF Finds, Tables, NoInode

(* Replacing or removing one inode, keeping to its own slot. *)
LEMMA SetKeepsOwnSlot ==
  ASSUME NEW tab \in Tables, OwnSlot(tab), NEW i \in Inodes,
         NEW ino \in UsedInode \cup {NoInode}, ino.used => ino.slot = i
  PROVE  /\ [tab EXCEPT ![i] = ino] \in Tables
         /\ OwnSlot([tab EXCEPT ![i] = ino])
BY DEF Tables, OwnSlot

LEMMA ContentType ==
  ASSUME NEW v \in Vals, NEW size
  PROVE  Content(v, size) \in [DataSectors -> Vals \cup {Zero}]
BY DEF Content

LEMMA StoredType == \A n \in Names : Stored(n) \in Names \cup {CutName}
BY DEF Stored

LEMMA EmptyTableFacts == EmptyTable \in Tables /\ OwnSlot(EmptyTable)
BY DEF EmptyTable, Tables, OwnSlot, NoInode

LEMMA InitIInv == Init => IInv
<1> SUFFICES ASSUME Init PROVE IInv
  OBVIOUS
<1>1. disk_data \in [Slots -> [DataSectors -> Vals \cup {Zero}]]
  BY DEF Init, Content
<1>2. op \in {NoOp} /\ disk_magic \in BOOLEAN /\ fs_ready \in BOOLEAN
      /\ powered \in BOOLEAN
  BY DEF Init
<1> QED
  BY <1>1, <1>2, EmptyTableFacts DEF Init, IInv, TypeOK, Tables

(***************************************************************************)
(* The calls: what diskfs_write, diskfs_delete and diskfs_init do before   *)
(* the first sector.                                                       *)
(***************************************************************************)
LEMMA WritePreserves ==
  ASSUME IInv, NEW n \in Names, NEW v \in Vals, NEW asked \in Nat,
         diskfs_write(n, v, asked)
  PROVE  IInv'
<1> DEFINE size == IF asked > SecsFile THEN SecsFile ELSE asked
<1>1. size \in 0 .. SecsFile
  BY DiskFSAssumption
<1>2. inodes \in Tables /\ OwnSlot(inodes)
  BY DEF IInv, TypeOK, Tables
<1>3. PICK i \in Inodes, ino \in UsedInode :
        /\ ino.slot = i
        /\ inodes' = [inodes EXCEPT ![i] = ino]
        /\ WriteAt(i, n, v, size)
  <2>1. CASE Overwrite(n, v, size)
    <3> DEFINE i == First(Finds(inodes, n))
    <3>1. i \in Inodes /\ inodes[i] \in UsedInode
      BY <1>2, <2>1, FirstFound DEF Overwrite, diskfs_exists
    <3>2. /\ [inodes[i] EXCEPT !.size = size] \in UsedInode
          /\ [inodes[i] EXCEPT !.size = size].slot = i
      BY <1>1, <1>2, <3>1 DEF UsedInode, OwnSlot
    <3> QED
      BY <2>1, <3>1, <3>2 DEF Overwrite, SetInode
  <2>2. CASE CreateNew(n, v, size)
    <3> DEFINE i   == First(FreeInodes(inodes))
               ino == [used |-> TRUE, name |-> Stored(n), size |-> size,
                       slot |-> First(FreeSlots(inodes))]
    <3>1. i \in Inodes /\ First(FreeSlots(inodes)) = i
      BY <1>2, <2>2, FirstFree DEF CreateNew
    <3>2. ino \in UsedInode /\ ino.slot = i
      BY <1>1, <3>1, StoredType, Indices DEF UsedInode
    <3>3. inodes' = [inodes EXCEPT ![i] = ino] /\ WriteAt(i, n, v, size)
      BY <2>2 DEF CreateNew, SetInode
    <3> QED
      BY <3>1, <3>2, <3>3
  <2> QED
    BY <2>1, <2>2 DEF diskfs_write
<1>4. inodes' \in Tables /\ OwnSlot(inodes')
  BY <1>2, <1>3, SetKeepsOwnSlot
<1>5. op' \in WriteOps
  BY <1>1, <1>3 DEF WriteAt, WriteOps
<1> QED
  BY <1>4, <1>5 DEF IInv, TypeOK, Tables, diskfs_write, disk, OwnSlot

LEMMA DeletePreserves ==
  ASSUME IInv, NEW n \in Names, diskfs_delete(n)
  PROVE  IInv'
<1> DEFINE i == First(Finds(inodes, n))
<1>1. inodes \in Tables /\ OwnSlot(inodes)
  BY DEF IInv, TypeOK, Tables
<1>2. i \in Inodes
  BY <1>1, FirstFound DEF diskfs_delete, diskfs_exists
<1>3. inodes' = [inodes EXCEPT ![i] = NoInode] /\ NoInode.used = FALSE
  BY DEF diskfs_delete, SetInode, NoInode
<1>4. inodes' \in Tables /\ OwnSlot(inodes')
  BY <1>1, <1>2, <1>3, SetKeepsOwnSlot
<1>5. op' \in DeleteOps
  BY DEF diskfs_delete, DeleteOps
<1> QED
  BY <1>4, <1>5 DEF IInv, TypeOK, Tables, diskfs_delete, disk, OwnSlot

LEMMA BootPreserves ==
  ASSUME IInv, diskfs_format \/ diskfs_init \/ InitError \/ Crash
  PROVE  IInv'
<1>1. Formatting \in FormatOps
  BY DEF Formatting, FormatOps
<1>2. CASE diskfs_format
  BY <1>1, <1>2 DEF IInv, TypeOK, diskfs_format, disk, OwnSlot
<1>3. CASE diskfs_init
  <2>1. inodes' = inodes \/ inodes' = disk_inodes
    BY <1>3 DEF diskfs_init
  <2>2. op' \in FormatOps \/ op' = op
    BY <1>1, <1>3 DEF diskfs_init
  <2> QED
    BY <1>3, <2>1, <2>2 DEF IInv, TypeOK, diskfs_init, disk, OwnSlot
<1>4. CASE InitError
  <2>1. PICK k : inodes' = [i \in Inodes |-> IF SectorOf(i) < k THEN disk_inodes[i]
                                             ELSE inodes[i]]
    BY <1>4 DEF InitError
  <2>2. inodes' \in Tables /\ OwnSlot(inodes')
    BY <2>1 DEF IInv, TypeOK, Tables, OwnSlot
  <2> QED
    BY <1>4, <2>2 DEF IInv, TypeOK, Tables, InitError, disk, OwnSlot
<1>5. CASE Crash
  BY <1>5, EmptyTableFacts DEF IInv, TypeOK, Tables, Crash, disk, OwnSlot
<1> QED
  BY <1>2, <1>3, <1>4, <1>5

(***************************************************************************)
(* Sectors and errors: op moves on within its kind, and a sector of the    *)
(* table takes over inodes that have their own slots in memory.            *)
(***************************************************************************)
Ops == WriteOps \cup DeleteOps \cup FormatOps

LEMMA OpMovesOn ==
  ASSUME op \in Ops, NEW stage \in {"inodes", "super"}, NEW sec \in Nat,
         GoTo(stage, sec)
  PROVE  op' \in Ops
BY DEF GoTo, Ops, WriteOps, DeleteOps, FormatOps

LEMMA OpKinds ==
  ASSUME TypeOK, op.kind # "none"
  PROVE  op \in Ops /\ op.sec \in Nat
BY DEF TypeOK, Ops, NoOp, WriteOps, DeleteOps, FormatOps

LEMMA SectorPreserves == IInv /\ Sector => IInv'
<1> SUFFICES ASSUME IInv, Sector PROVE IInv'
  OBVIOUS
<1>1. CASE DataSector
  <2>1. op \in WriteOps
    BY <1>1 DEF DataSector, IInv, TypeOK, NoOp, DeleteOps, FormatOps
  <2>2. /\ op.idx \in Inodes /\ op.val \in Vals /\ op.sec \in Nat
        /\ op.kind = "write"
    BY <2>1 DEF WriteOps
  <2>3. disk_data' \in [Slots -> [DataSectors -> Vals \cup {Zero}]]
    <3>1. \/ op.sec \notin DataSectors
          \/ Content(op.val, op.size)[op.sec] \in Vals \cup {Zero}
      BY <2>2, ContentType
    <3> QED
      BY <1>1, <3>1 DEF DataSector, IInv, TypeOK
  <2>4. op' \in WriteOps
    <3>1. GoTo("data", op.sec + 1) \/ GoTo("inodes", 0)
      BY <1>1 DEF DataSector
    <3>2. PICK stage \in {"data", "inodes"}, sec \in Nat : GoTo(stage, sec)
      BY <2>2, <3>1
    <3> QED
      BY <2>1, <3>2 DEF GoTo, WriteOps
  <2> QED
    BY <1>1, <2>3, <2>4 DEF IInv, TypeOK, DataSector, OwnSlot
<1>2. CASE TableSector
  <2>1. op \in Ops /\ op.sec \in Nat
    BY <1>2, OpKinds DEF TableSector, IInv
  <2>2. disk_inodes' \in Tables /\ OwnSlot(disk_inodes')
    BY <1>2 DEF TableSector, IInv, TypeOK, Tables, OwnSlot
  <2>3. op' \in Ops \cup {NoOp} /\ fs_ready' \in BOOLEAN
    <3>1. CASE GoTo("inodes", op.sec + 1) \/ GoTo("super", 0)
      <4>1. op.sec + 1 \in Nat /\ 0 \in Nat
        BY <2>1
      <4>2. op' \in Ops
        BY <2>1, <3>1, <4>1, OpMovesOn
      <4> QED
        BY <1>2, <4>2 DEF TableSector, IInv, TypeOK
    <3>2. CASE op' = NoOp
      BY <1>2, <3>2 DEF TableSector, IInv, TypeOK
    <3> QED
      BY <1>2, <3>1, <3>2 DEF TableSector
  <2> QED
    BY <1>2, <2>2, <2>3 DEF IInv, TypeOK, Tables, TableSector, OwnSlot, Ops
<1>3. CASE SuperSector
  <2>1. op \in Ops
    BY <1>3, OpKinds DEF SuperSector, IInv
  <2>2. inodes' \in Tables /\ OwnSlot(inodes')
    BY <1>3, EmptyTableFacts DEF SuperSector, IInv, TypeOK, Tables
  <2>3. op' \in Ops \cup {NoOp}
    BY <1>3, <2>1, OpMovesOn DEF SuperSector
  <2> QED
    BY <1>3, <2>2, <2>3 DEF IInv, TypeOK, Tables, SuperSector, OwnSlot, Ops
<1> QED
  BY <1>1, <1>2, <1>3 DEF Sector

LEMMA IOErrorPreserves == IInv /\ IOError => IInv'
<1> SUFFICES ASSUME IInv, IOError PROVE IInv'
  OBVIOUS
<1>1. op \in Ops
  BY OpKinds DEF IOError, IInv
<1>2. op' \in Ops \cup {NoOp}
  BY <1>1, OpMovesOn DEF IOError
<1> QED
  BY <1>2 DEF IInv, TypeOK, IOError, disk, OwnSlot, Ops

(***************************************************************************)
(* The host's installations follow the same two rules.                     *)
(***************************************************************************)
LEMMA InstallPreserves ==
  ASSUME IInv, NEW n \in Apps, NEW v \in Vals, NEW size \in 0 .. SecsFile,
         install_app(n, v, size)
  PROVE  IInv'
<1>1. disk_inodes \in Tables /\ OwnSlot(disk_inodes) /\ n \in Names
  BY DiskFSAssumption DEF IInv, TypeOK, Tables
<1>2. disk_data' \in [Slots -> [DataSectors -> Vals \cup {Zero}]]
  BY ContentType DEF install_app, InstallNew, InstallUpdate, FillSlot, IInv, TypeOK
<1>3. disk_inodes' \in Tables /\ OwnSlot(disk_inodes')
  <2>1. CASE InstallNew(n, v, size)
    <3> DEFINE i   == First(FreeInodes(disk_inodes))
               ino == [used |-> TRUE, name |-> Stored(n), size |-> size,
                       slot |-> First(FreeSlots(disk_inodes))]
    <3>1. i \in Inodes /\ First(FreeSlots(disk_inodes)) = i
      BY <1>1, <2>1, FirstFree DEF InstallNew
    <3>2. ino \in UsedInode /\ ino.slot = i
      BY <1>1, <3>1, StoredType, Indices DEF UsedInode
    <3>3. disk_inodes' = [disk_inodes EXCEPT ![i] = ino]
      BY <2>1 DEF InstallNew
    <3> HIDE DEF i, ino
    <3> QED
      BY <1>1, <3>1, <3>2, <3>3, SetKeepsOwnSlot
  <2>2. CASE InstallUpdate(n, v, size)
    BY <1>1, <2>2 DEF InstallUpdate
  <2> QED
    BY <2>1, <2>2 DEF install_app
<1> QED
  BY <1>2, <1>3 DEF IInv, TypeOK, Tables, install_app, OwnSlot

LEMMA StepPreserves == IInv /\ [Next \/ InitError \/ IOError]_vars => IInv'
<1> SUFFICES ASSUME IInv, [Next \/ InitError \/ IOError]_vars PROVE IInv'
  OBVIOUS
<1>1. CASE UNCHANGED vars
  BY <1>1 DEF vars, IInv, TypeOK, OwnSlot
<1>2. CASE Call
  <2>1. 0 .. MaxSize \subseteq Nat
    BY DiskFSAssumption
  <2> QED
    BY <1>2, <2>1, WritePreserves, DeletePreserves, BootPreserves DEF Call
<1>3. CASE Install
  BY <1>3, InstallPreserves DEF Install
<1> QED
  BY <1>1, <1>2, <1>3, BootPreserves, SectorPreserves, IOErrorPreserves DEF Next

----------------------------------------------------------------------------
LEMMA Invariance == FaultySpec => []IInv
BY InitIInv, StepPreserves, PTL DEF FaultySpec

(* Every variable keeps its type. *)
THEOREM TypeCorrect == FaultySpec => []TypeOK
<1>1. IInv => TypeOK
  BY DEF IInv
<1> QED
  BY <1>1, Invariance, PTL

(* No two files share a slot, on the disk or in memory, whatever crashes,   *)
(* errors and installations there have been.                                *)
THEOREM SlotsNeverShared == FaultySpec => []SlotsDisjoint
<1>1. IInv => SlotsDisjoint
  BY DEF IInv, OwnSlot, SlotsDisjoint, Distinct, Slot
<1> QED
  BY <1>1, Invariance, PTL

----------------------------------------------------------------------------
(***************************************************************************)
(* A disk that reports no errors: no name that fits an inode twice, memory *)
(* equal to the disk between calls, acknowledged writes on the disk, and   *)
(* the refinement of FileStore for the names that fit - whatever calls are *)
(* made on other names, across power failures between any two sectors and  *)
(* installations by the host.                                              *)
(***************************************************************************)
(* Two names that a name that fits cannot tell apart. *)
Alike(n, m) == n \in Fitting \/ m \in Fitting => n = m

LEMMA Fits ==
  /\ Fitting \subseteq Names
  /\ \A n \in Names : Alike(n, n) /\ Alike(Stored(n), n)
  /\ \A n \in Names \ LongNames : Stored(n) = n
BY DEF Fitting, Alike, Stored

(***************************************************************************)
(* The inductive reason: whatever call is under way, memory and disk       *)
(* disagree on one inode at most, d, and there on the one file the call is *)
(* about.  So a table mixed of both is one of the two.                     *)
(***************************************************************************)
NamesApart(tab) ==
  \A i, j \in Inodes :
    /\ tab[i].used /\ tab[j].used
    /\ tab[i].name = tab[j].name /\ tab[i].name \in Fitting
    => i = j

AgreeBut(d) == \A i \in Inodes \ {d} : inodes[i] = disk_inodes[i]

OldIs(d) == disk_inodes[d].used => Alike(disk_inodes[d].name, op.name)

(* The file under the name of the call is found at d. *)
FoundIs(d) ==
  op.name \notin LongNames => d \in Finds(inodes, op.name) /\ First(Finds(inodes, op.name)) = d

(* The sector of d has been written. *)
Passed(d) == op.stage = "super" \/ (op.stage = "inodes" /\ SectorOf(d) < op.sec)

WriteIsAt(d) ==
  /\ inodes[d].used /\ Alike(inodes[d].name, op.name) /\ inodes[d].size = op.size
  /\ AgreeBut(d) /\ OldIs(d) /\ FoundIs(d)
  /\ op.stage = "data" => op.sec \in DataSectors
  /\ \A s \in DataSectors : (op.stage = "data" => s < op.sec)
                            => disk_data[d][s] = Content(op.val, op.size)[s]
  /\ Passed(d) => disk_inodes[d] = inodes[d]

DeleteIsAt(d) ==
  /\ inodes[d] = NoInode
  /\ AgreeBut(d) /\ OldIs(d)
  /\ op.name \in Fitting => \A i \in Inodes : inodes[i].used => inodes[i].name # op.name
  /\ Passed(d) => disk_inodes[d] = inodes[d]

FormatIsAt ==
  /\ op.stage = "super" => \/ fs_ready /\ inodes = disk_inodes
                           \/ ~fs_ready /\ ~disk_magic /\ inodes = EmptyTable
  /\ op.stage = "inodes" =>
       /\ disk_magic /\ inodes = EmptyTable
       /\ \A i \in Inodes : SectorOf(i) < op.sec => disk_inodes[i] = NoInode

Apart   == NamesApart(inodes) /\ NamesApart(disk_inodes)
Blank   == ~disk_magic => disk_inodes = EmptyTable
Off     == ~powered => op = NoOp /\ ~fs_ready /\ inodes = EmptyTable
Mounted == fs_ready => disk_magic
Synced  == fs_ready /\ op = NoOp => inodes = disk_inodes
UnderWay ==
  /\ op.kind = "write" => fs_ready /\ WriteIsAt(op.idx)
  /\ op.kind = "delete" => fs_ready /\ \E d \in Inodes : DeleteIsAt(d)
  /\ op.kind = "format" => FormatIsAt

SInv == IInv /\ Apart /\ Blank /\ Off /\ Mounted /\ Synced /\ UnderWay

----------------------------------------------------------------------------
LEMMA SectorBound ==
  LastSector \in Nat /\ \A i \in Inodes : SectorOf(i) \in Nat /\ SectorOf(i) <= LastSector
BY DiskFSAssumption, SMTT(30) DEF Inodes, SectorOf, LastSector

LEMMA Typed ==
  ASSUME IInv
  PROVE  /\ inodes \in Tables /\ disk_inodes \in Tables
         /\ OwnSlot(inodes) /\ OwnSlot(disk_inodes)
         /\ disk_data \in [Slots -> [DataSectors -> Vals \cup {Zero}]]
         /\ disk_magic \in BOOLEAN /\ fs_ready \in BOOLEAN /\ powered \in BOOLEAN
         /\ op \in WriteOps \cup DeleteOps \cup FormatOps \cup {NoOp}
BY DEF IInv, TypeOK, Tables

(* Two tables that agree but for d are mixed into one of the two. *)
LEMMA Mixed ==
  ASSUME SInv, NEW d \in Inodes, AgreeBut(d),
         disk_inodes' = [i \in Inodes |-> IF SectorOf(i) = op.sec THEN inodes[i]
                                          ELSE disk_inodes[i]]
  PROVE  disk_inodes' = IF SectorOf(d) = op.sec THEN inodes ELSE disk_inodes
<1>1. inodes \in Tables /\ disk_inodes \in Tables
  BY Typed DEF SInv
<1>. QED
  BY <1>1 DEF AgreeBut, Tables

LEMMA EmptyApart == NamesApart(EmptyTable)
BY DEF NamesApart, EmptyTable, NoInode

LEMMA InitSInv == Init => SInv
BY InitIInv, EmptyApart DEF Init, SInv, Apart, Blank, Off, Mounted, Synced, UnderWay, NoOp

(* A file found in a table without doubled names. *)
LEMMA FoundAt ==
  ASSUME NEW tab \in Tables, NEW n, Finds(tab, n) # {}
  PROVE  LET i == First(Finds(tab, n))
         IN  i \in Inodes /\ tab[i].used /\ tab[i].name = n /\ tab[i] \in UsedInode
<1>1. Finds(tab, n) \in SUBSET Nat
  BY Indices DEF Finds
<1>2. First(Finds(tab, n)) \in Finds(tab, n)
  BY <1>1, FirstIsLeast
<1>. QED
  BY <1>2 DEF Finds, Tables, NoInode

LEMMA Found ==
  ASSUME NEW tab \in Tables, NamesApart(tab), NEW i \in Inodes, tab[i].used,
         tab[i].name \in Fitting
  PROVE  Finds(tab, tab[i].name) = {i} /\ First(Finds(tab, tab[i].name)) = i
<1>1. Finds(tab, tab[i].name) = {i}
  BY DEF Finds, NamesApart
<1>2. First(Finds(tab, tab[i].name)) \in Finds(tab, tab[i].name)
  BY <1>1, FirstIsLeast, Indices
<1>. QED
  BY <1>1, <1>2
LEMMA Resized ==
  ASSUME NEW ino \in UsedInode, NEW size
  PROVE  LET new == [ino EXCEPT !.size = size]
         IN  new.used /\ new.name = ino.name /\ new.size = size /\ new.slot = ino.slot
BY DEF UsedInode

----------------------------------------------------------------------------
(* The calls, up to their first sector. *)
LEMMA WriteStarts ==
  ASSUME SInv, IInv', NEW n \in Names, NEW v \in Vals, NEW asked \in Nat,
         diskfs_write(n, v, asked)
  PROVE  SInv'
<1>. DEFINE size == IF asked > SecsFile THEN SecsFile ELSE asked
<1>1. inodes \in Tables /\ OwnSlot(inodes) /\ inodes = disk_inodes /\ NamesApart(inodes)
  BY Typed DEF SInv, Apart, Synced, diskfs_write, Ready, Idle
<1>2. PICK i \in Inodes :
        /\ \E ino : /\ inodes' = [inodes EXCEPT ![i] = ino]
                    /\ ino.used /\ Alike(ino.name, n) /\ ino.size = size
        /\ WriteAt(i, n, v, size)
        /\ inodes[i].used => Alike(inodes[i].name, n)
        /\ n \in Fitting => \A j \in Inodes \ {i} : inodes[j].used => inodes[j].name # n
        /\ n \notin LongNames => i \in Finds(inodes', n) /\ First(Finds(inodes', n)) = i
  <2>1. CASE Overwrite(n, v, size)
    <3>. DEFINE i   == First(Finds(inodes, n))
               new == [inodes[i] EXCEPT !.size = size]
    <3>1. i \in Inodes /\ inodes[i].used /\ inodes[i].name = n /\ inodes[i] \in UsedInode
      BY <1>1, <2>1, FoundAt DEF Overwrite, diskfs_exists
    <3>2. new.used /\ new.name = n /\ new.size = size
      BY <3>1, Resized
    <3>3. n \in Fitting => \A j \in Inodes \ {i} : inodes[j].used => inodes[j].name # n
      BY <1>1, <3>1 DEF NamesApart
    <3>4. inodes' = [inodes EXCEPT ![i] = new] /\ WriteAt(i, n, v, size)
      BY <2>1 DEF Overwrite, SetInode
    <3>5. Finds(inodes', n) = Finds(inodes, n) /\ i \in Finds(inodes, n)
      <4>. HIDE DEF new, i
      <4>. QED
        BY <1>1, <3>1, <3>2, <3>4 DEF Finds, Tables
    <3>6. Alike(n, n)
      BY Fits
    <3>. HIDE DEF new
    <3>. QED
      BY <3>1, <3>2, <3>3, <3>4, <3>5, <3>6
  <2>2. CASE CreateNew(n, v, size)
    <3>. DEFINE i   == First(FreeInodes(inodes))
               ino == [used |-> TRUE, name |-> Stored(n), size |-> size,
                       slot |-> First(FreeSlots(inodes))]
    <3>1. i \in Inodes /\ First(FreeSlots(inodes)) = i
      BY <1>1, <2>2, FirstFree DEF CreateNew
    <3>2. FreeInodes(inodes) \in SUBSET Nat /\ FreeInodes(inodes) # {}
      BY <2>2, Indices DEF CreateNew, FreeInodes
    <3>3. ~inodes[i].used
      BY <3>2, FirstIsLeast DEF FreeInodes
    <3>5. \A j \in Inodes : inodes[j].used => inodes[j].name # n
      BY <2>2 DEF CreateNew, diskfs_exists, Finds
    <3>6. /\ ino.used /\ Alike(ino.name, n) /\ ino.size = size
          /\ n \notin LongNames => ino.name = n
          /\ inodes' = [inodes EXCEPT ![i] = ino] /\ WriteAt(i, n, v, size)
      BY <2>2, Fits DEF CreateNew, SetInode
    <3>. HIDE DEF ino, i
    <3>7. ASSUME n \notin LongNames
          PROVE  Finds(inodes', n) = {i} /\ First(Finds(inodes', n)) = i
      <4>1. Finds(inodes', n) = {i}
        BY <1>1, <3>1, <3>5, <3>6, <3>7 DEF Finds, Tables
      <4>2. First(Finds(inodes', n)) \in Finds(inodes', n)
        BY <3>1, <4>1, FirstIsLeast, Indices
      <4>. QED
        BY <4>1, <4>2
    <3>. QED
      BY <3>1, <3>3, <3>5, <3>6, <3>7
  <2>. QED
    BY <2>1, <2>2 DEF diskfs_write
<1>3. NamesApart(inodes')
  BY <1>1, <1>2 DEF NamesApart, Tables, Alike
<1>4. /\ op'.kind = "write" /\ op'.stage = "data" /\ op'.sec = 1 /\ op'.idx = i
      /\ op'.name = n /\ op'.val = v /\ op'.size = size
  BY <1>2 DEF WriteAt
<1>. HIDE DEF size
<1>5. WriteIsAt(i)'
  BY <1>1, <1>2, <1>4, DiskFSAssumption
     DEF WriteIsAt, AgreeBut, OldIs, FoundIs, Passed, DataSectors, Tables, diskfs_write, disk
<1>. QED
  BY <1>3, <1>4, <1>5
     DEF SInv, Apart, Blank, Off, Mounted, Synced, UnderWay, diskfs_write, Ready, Idle,
         disk, NamesApart, NoOp

LEMMA DeleteStarts ==
  ASSUME SInv, IInv', NEW n \in Names, diskfs_delete(n)
  PROVE  SInv'
<1>1. inodes \in Tables /\ inodes = disk_inodes /\ NamesApart(inodes)
  BY Typed DEF SInv, Apart, Synced, diskfs_delete, Ready, Idle
<1>2. PICK d \in Inodes : /\ inodes[d].used /\ inodes[d].name = n
                         /\ inodes' = [inodes EXCEPT ![d] = NoInode]
  BY <1>1, FoundAt DEF diskfs_delete, diskfs_exists, SetInode
<1>4. /\ op'.kind = "delete" /\ op'.stage = "inodes" /\ op'.sec = 0 /\ op'.name = n
      /\ op' # NoOp
  BY DEF diskfs_delete, NoOp
<1>5. \A i \in Inodes : inodes'[i].used => i # d /\ inodes[i].used /\ inodes'[i] = inodes[i]
  BY <1>1, <1>2 DEF Tables, NoInode
<1>6. NamesApart(inodes')
  BY <1>1, <1>5 DEF NamesApart
<1>7. n \in Fitting => \A i \in Inodes : inodes'[i].used => inodes'[i].name # n
  BY <1>1, <1>2, <1>5 DEF NamesApart
<1>8. ~Passed(d)'
  BY <1>2, <1>4, SectorBound DEF Passed
<1>9. disk_inodes' = disk_inodes
  BY DEF diskfs_delete, disk
<1>10. inodes'[d] = NoInode /\ AgreeBut(d)' /\ OldIs(d)'
  BY <1>1, <1>2, <1>4, <1>9, Fits DEF AgreeBut, OldIs, Tables
<1>11. DeleteIsAt(d)'
  BY <1>4, <1>7, <1>8, <1>10 DEF DeleteIsAt
<1>. QED
  <2>1. UnderWay'
    BY <1>2, <1>4, <1>11 DEF UnderWay, diskfs_delete, Ready
  <2>2. Apart' /\ Blank' /\ Off' /\ Mounted' /\ Synced'
    BY <1>4, <1>6 DEF SInv, Apart, Blank, Off, Mounted, Synced, diskfs_delete, Ready,
                      Idle, disk, NamesApart
  <2>. QED
    BY <2>1, <2>2 DEF SInv

LEMMA BootSteps ==
  ASSUME SInv, IInv', diskfs_format \/ diskfs_init \/ Crash
  PROVE  SInv'
<1>1. CASE diskfs_format
  BY <1>1 DEF SInv, Apart, Blank, Off, Mounted, Synced, UnderWay, diskfs_format, Ready,
              Idle, disk, NamesApart, Formatting, FormatIsAt, NoOp
<1>2. CASE diskfs_init
  BY <1>2, EmptyApart
     DEF SInv, Apart, Blank, Off, Mounted, Synced, UnderWay, diskfs_init,
         disk, NamesApart, Formatting, FormatIsAt, NoOp
<1>3. CASE Crash
  BY <1>3, EmptyApart
     DEF SInv, Apart, Blank, Off, Mounted, Synced, UnderWay, Crash, disk, NamesApart, NoOp
<1>. QED
  BY <1>1, <1>2, <1>3

----------------------------------------------------------------------------
(* The sectors. *)
LEMMA WriteMoves ==
  ASSUME op \in WriteOps, NEW stage, NEW sec, GoTo(stage, sec)
  PROVE  /\ op'.kind = "write" /\ op'.idx = op.idx /\ op'.name = op.name
         /\ op'.val = op.val /\ op'.size = op.size /\ op' # NoOp
         /\ op'.stage = stage /\ op'.sec = sec
BY DEF GoTo, WriteOps, NoOp

LEMMA FormatMoves ==
  ASSUME op \in FormatOps, NEW stage, NEW sec, GoTo(stage, sec)
  PROVE  op'.kind = "format" /\ op'.stage = stage /\ op'.sec = sec /\ op' # NoOp
BY DEF GoTo, FormatOps, NoOp

LEMMA DataGoesOn ==
  ASSUME SInv, IInv', DataSector
  PROVE  SInv'
<1>. DEFINE d == op.idx
<1>1. /\ op \in WriteOps /\ op.kind = "write" /\ op.stage = "data" /\ d \in Inodes
      /\ op.sec \in Nat /\ fs_ready /\ WriteIsAt(d)
  BY Typed DEF DataSector, SInv, UnderWay, WriteOps, DeleteOps, FormatOps, NoOp
<1>2. /\ op'.kind = "write" /\ op'.idx = d /\ op'.name = op.name
      /\ op'.val = op.val /\ op'.size = op.size /\ op' # NoOp
      /\ \/ op.sec < SecsFile /\ op'.stage = "data" /\ op'.sec = op.sec + 1
         \/ op.sec >= SecsFile /\ op'.stage = "inodes" /\ op'.sec = 0
  <2>1. CASE op.sec < SecsFile
    <3>1. GoTo("data", op.sec + 1)
      BY <2>1 DEF DataSector
    <3>. QED
      BY <1>1, <2>1, <3>1, WriteMoves
  <2>2. CASE ~(op.sec < SecsFile)
    <3>1. GoTo("inodes", 0) /\ op.sec >= SecsFile
      BY <1>1, <2>2, DiskFSAssumption DEF DataSector
    <3>. QED
      BY <1>1, <3>1, WriteMoves
  <2>. QED
    BY <2>1, <2>2
<1>3. inodes[d].slot = d /\ d \in Slots
  BY <1>1, Typed, Indices DEF SInv, OwnSlot, WriteIsAt
<1>4. /\ disk_data' = [disk_data EXCEPT ![d][op.sec] = Content(op.val, op.size)[op.sec]]
      /\ UNCHANGED <<disk_magic, disk_inodes, inodes, fs_ready, powered>>
  BY <1>3 DEF DataSector
<1>5. op.sec \in DataSectors
  BY <1>1 DEF WriteIsAt
<1>6. \A s \in DataSectors :
        disk_data'[d][s] = IF s = op.sec THEN Content(op.val, op.size)[s] ELSE disk_data[d][s]
  BY <1>3, <1>4, <1>5, Typed DEF SInv
<1>7. \A s \in DataSectors : (op'.stage = "data" => s < op'.sec)
                             => disk_data'[d][s] = Content(op.val, op.size)[s]
  BY <1>1, <1>2, <1>5, <1>6, DiskFSAssumption DEF WriteIsAt, DataSectors
<1>. HIDE DEF d
<1>8. PICK e \in Inodes : e = d
  BY <1>1
<1>9. WriteIsAt(e)'
  <2>1. op'.stage = "data" => op'.sec \in DataSectors
    BY <1>2, <1>5, DiskFSAssumption DEF DataSectors
  <2>2. ~Passed(e)'
    BY <1>2, SectorBound DEF Passed
  <2>3. (inodes[e].used /\ Alike(inodes[e].name, op.name) /\ inodes[e].size = op.size)'
    BY <1>1, <1>2, <1>4, <1>8 DEF WriteIsAt, Alike
  <2>4. AgreeBut(e)' /\ OldIs(e)' /\ FoundIs(e)'
    BY <1>1, <1>2, <1>4, <1>8 DEF WriteIsAt, AgreeBut, OldIs, FoundIs, Alike, Finds
  <2>. QED
    BY <1>2, <1>7, <1>8, <2>1, <2>2, <2>3, <2>4 DEF WriteIsAt
<1>10. UnderWay'
  BY <1>1, <1>2, <1>4, <1>8, <1>9 DEF UnderWay
<1>11. Apart' /\ Blank' /\ Off' /\ Mounted' /\ Synced'
  BY <1>1, <1>2, <1>4 DEF SInv, Apart, Blank, Off, Mounted, Synced, NamesApart, NoOp
<1>. QED
  BY <1>10, <1>11 DEF SInv

(* A sector of the table, while a file is written or deleted: stage and sector move on. *)
LEMMA TableMoves ==
  ASSUME SInv, TableSector, op.kind # "format"
  PROVE  /\ op.kind \in {"write", "delete"} /\ op.stage = "inodes" /\ op.sec \in Nat
         /\ op'.kind = op.kind /\ op'.name = op.name /\ op' # NoOp
         /\ op.kind = "write" => op'.idx = op.idx /\ op'.val = op.val /\ op'.size = op.size
         /\ \/ op.sec < LastSector /\ op'.stage = "inodes" /\ op'.sec = op.sec + 1
            \/ op.sec = LastSector /\ op'.stage = "super"
         /\ UNCHANGED fs_ready
<1>1. op \in WriteOps \cup DeleteOps /\ op.kind # "none"
  BY Typed DEF SInv, TableSector, FormatOps, NoOp
<1>2. \/ op.sec < LastSector /\ GoTo("inodes", op.sec + 1)
      \/ op.sec = LastSector /\ GoTo("super", 0)
  BY DEF TableSector
<1>3. UNCHANGED fs_ready
  BY DEF TableSector
<1>4. CASE op \in WriteOps
  BY <1>2, <1>3, <1>4 DEF GoTo, WriteOps, NoOp, TableSector
<1>5. CASE op \in DeleteOps
  BY <1>2, <1>3, <1>5 DEF GoTo, DeleteOps, NoOp, TableSector
<1>. QED
  BY <1>1, <1>4, <1>5

(* Of two tables that differ at d only, with the same name there or none, the *)
(* one in memory and the one on the disk are apart: so is the mixture.        *)
LEMMA TableGoesOn ==
  ASSUME SInv, IInv', TableSector, op.kind # "format"
  PROVE  SInv'
<1>1. /\ op.kind \in {"write", "delete"} /\ op.stage = "inodes" /\ op.sec \in Nat /\ fs_ready
      /\ op'.kind = op.kind /\ op'.name = op.name /\ op' # NoOp /\ UNCHANGED fs_ready
  BY TableMoves DEF SInv, UnderWay
<1>2. /\ disk_inodes' = [i \in Inodes |-> IF SectorOf(i) = op.sec THEN inodes[i]
                                          ELSE disk_inodes[i]]
      /\ UNCHANGED <<disk_magic, disk_data, inodes, powered>>
  BY DEF TableSector
<1>3. PICK d \in Inodes : /\ op.kind = "write" => WriteIsAt(d) /\ d = op.idx
                          /\ op.kind = "delete" => DeleteIsAt(d)
  <2>1. CASE op.kind = "write"
    <3>1. op.idx \in Inodes
      BY <2>1, Typed DEF SInv, WriteOps, DeleteOps, FormatOps, NoOp
    <3>. QED
      BY <2>1, <3>1 DEF SInv, UnderWay
  <2>2. CASE op.kind = "delete"
    BY <2>2 DEF SInv, UnderWay
  <2>. QED
    BY <1>1, <2>1, <2>2
<1>4. AgreeBut(d) /\ OldIs(d) /\ (Passed(d) => disk_inodes[d] = inodes[d])
  BY <1>1, <1>3 DEF WriteIsAt, DeleteIsAt
<1>5. disk_inodes' = IF SectorOf(d) = op.sec THEN inodes ELSE disk_inodes
  BY <1>2, <1>4, Mixed
<1>6. inodes[d].used => Alike(inodes[d].name, op.name)
  BY <1>1, <1>3 DEF WriteIsAt, DeleteIsAt, NoInode
<1>7. AgreeBut(d)' /\ OldIs(d)'
  BY <1>1, <1>2, <1>4, <1>5, <1>6 DEF AgreeBut, OldIs, Alike
<1>8. Passed(d)' => disk_inodes'[d] = inodes'[d]
  <2>1. CASE op'.stage = "super"
    <3>1. op.sec = LastSector
      BY <2>1, TableMoves
    <3>2. SectorOf(d) < op.sec \/ SectorOf(d) = op.sec
      BY <1>1, <3>1, SectorBound
    <3>. QED
      BY <1>1, <1>2, <1>4, <1>5, <3>2 DEF Passed
  <2>2. CASE op'.stage # "super"
    <3>1. op'.stage = "inodes" /\ op'.sec = op.sec + 1
      BY <2>2, TableMoves
    <3>2. SectorOf(d) < op'.sec => SectorOf(d) < op.sec \/ SectorOf(d) = op.sec
      BY <1>1, <3>1, SectorBound
    <3>. QED
      BY <1>1, <1>2, <1>4, <1>5, <3>1, <3>2 DEF Passed
  <2>. QED
    BY <2>1, <2>2
<1>9. op'.stage # "data"
  BY TableMoves
<1>10. UnderWay'
  <2>1. CASE op.kind = "write"
    <3>1. op'.idx = op.idx /\ op'.val = op.val /\ op'.size = op.size
      BY <2>1, TableMoves
    <3>2. WriteIsAt(d)'
      BY <1>1, <1>2, <1>3, <1>7, <1>8, <1>9, <2>1, <3>1 DEF WriteIsAt, FoundIs, Alike, Finds
    <3>. QED
      BY <1>1, <1>3, <2>1, <3>1, <3>2 DEF UnderWay
  <2>2. CASE op.kind = "delete"
    <3>1. DeleteIsAt(d)'
      BY <1>1, <1>2, <1>3, <1>7, <1>8, <2>2 DEF DeleteIsAt
    <3>. QED
      BY <1>1, <2>2, <3>1 DEF UnderWay
  <2>. QED
    BY <1>1, <2>1, <2>2
<1>11. Apart' /\ Blank' /\ Off' /\ Mounted' /\ Synced'
  BY <1>1, <1>2, <1>5 DEF SInv, Apart, Blank, Off, Mounted, Synced, NamesApart
<1>. QED
  BY <1>10, <1>11 DEF SInv

(* A format empties the table, sector by sector. *)
LEMMA FormatGoesOn ==
  ASSUME SInv, IInv', TableSector, op.kind = "format"
  PROVE  SInv'
<1>1. /\ op.stage = "inodes" /\ op.sec \in Nat /\ disk_magic /\ inodes = EmptyTable
      /\ \A i \in Inodes : SectorOf(i) < op.sec => disk_inodes[i] = NoInode
  BY Typed DEF SInv, UnderWay, FormatIsAt, TableSector, WriteOps, DeleteOps, FormatOps, NoOp
<1>2. /\ disk_inodes' = [i \in Inodes |-> IF SectorOf(i) = op.sec THEN inodes[i]
                                          ELSE disk_inodes[i]]
      /\ UNCHANGED <<disk_magic, disk_data, inodes, powered>>
  BY DEF TableSector
<1>3. \A i \in Inodes : disk_inodes'[i] = NoInode \/ disk_inodes'[i] = disk_inodes[i]
  BY <1>1, <1>2 DEF EmptyTable
<1>4. \A i \in Inodes : SectorOf(i) <= op.sec => disk_inodes'[i] = NoInode
  BY <1>1, <1>2, SectorBound DEF EmptyTable
<1>5. NamesApart(disk_inodes)'
  BY <1>3 DEF SInv, Apart, NamesApart, NoInode
<1>6. powered
  BY <1>1 DEF SInv, Off, TableSector, NoOp
<1>7. CASE op.sec < LastSector
  <2>1. GoTo("inodes", op.sec + 1) /\ UNCHANGED fs_ready
    <3>1. op.sec # LastSector
      BY <1>1, <1>7, SectorBound
    <3>. QED
      BY <3>1 DEF TableSector
  <2>2. op'.kind = "format" /\ op'.stage = "inodes" /\ op'.sec = op.sec + 1 /\ op' # NoOp
    <3>1. op \in FormatOps
      BY Typed DEF SInv, WriteOps, DeleteOps, NoOp
    <3>. QED
      BY <2>1, <3>1, FormatMoves
  <2>3. FormatIsAt'
    BY <1>1, <1>2, <1>4, <2>2, SectorBound DEF FormatIsAt
  <2>4. UnderWay'
    BY <2>2, <2>3 DEF UnderWay
  <2>. QED
    BY <1>1, <1>2, <1>5, <1>6, <2>1, <2>2, <2>4
       DEF SInv, Apart, Blank, Off, Mounted, Synced, NamesApart
<1>8. CASE op.sec = LastSector
  <2>1. op' = NoOp /\ fs_ready' = TRUE
    BY <1>1, <1>8, SectorBound DEF TableSector
  <2>2. \A i \in Inodes : disk_inodes'[i] = NoInode
    BY <1>4, <1>8, SectorBound
  <2>3. disk_inodes' = inodes'
    BY <1>1, <1>2, <2>2 DEF EmptyTable
  <2>4. UnderWay'
    BY <2>1 DEF UnderWay, NoOp
  <2>. QED
    BY <1>1, <1>2, <1>5, <1>6, <2>1, <2>3, <2>4
       DEF SInv, Apart, Blank, Off, Mounted, Synced, NamesApart
<1>. QED
  BY <1>7, <1>8 DEF TableSector

LEMMA SuperGoesOn ==
  ASSUME SInv, IInv', SuperSector
  PROVE  SInv'
<1>1. op # NoOp /\ powered
  BY DEF SInv, Off, SuperSector, NoOp
<1>2. CASE op.kind = "format"
  <2>1. op \in FormatOps
    BY <1>2, Typed DEF SInv, WriteOps, DeleteOps, NoOp
  <2>2. op'.kind = "format" /\ op'.stage = "inodes" /\ op'.sec = 0 /\ op' # NoOp
    BY <1>2, <2>1, FormatMoves DEF SuperSector
  <2>3. /\ disk_magic' = TRUE /\ inodes' = EmptyTable
        /\ UNCHANGED <<disk_inodes, disk_data, fs_ready, powered>>
    BY <1>2 DEF SuperSector
  <2>4. FormatIsAt'
    BY <2>2, <2>3, SectorBound DEF FormatIsAt
  <2>. QED
    BY <1>1, <2>2, <2>3, <2>4, EmptyApart
       DEF SInv, Apart, Blank, Off, Mounted, Synced, NamesApart, UnderWay
<1>3. CASE op.kind # "format"
  <2>1. /\ op' = NoOp /\ disk_magic' = TRUE
        /\ UNCHANGED <<disk_inodes, disk_data, inodes, fs_ready, powered>>
    BY <1>3 DEF SuperSector
  <2>2. inodes = disk_inodes
    <3>1. PICK d \in Inodes : AgreeBut(d) /\ inodes[d] = disk_inodes[d]
      <4>1. op.stage = "super" /\ op.kind \in {"write", "delete"}
        BY <1>3, Typed DEF SInv, SuperSector, WriteOps, DeleteOps, FormatOps, NoOp
      <4>2. CASE op.kind = "write"
        <5>1. op.idx \in Inodes
          BY <4>2, Typed DEF SInv, WriteOps, DeleteOps, FormatOps, NoOp
        <5>2. WriteIsAt(op.idx) /\ Passed(op.idx)
          BY <4>1, <4>2 DEF SInv, UnderWay, Passed
        <5>. QED
          BY <5>1, <5>2, Zenon DEF WriteIsAt
      <4>3. CASE op.kind = "delete"
        <5>1. PICK d \in Inodes : DeleteIsAt(d)
          BY <4>3 DEF SInv, UnderWay
        <5>2. Passed(d)
          BY <4>1 DEF Passed
        <5>. QED
          BY <5>1, <5>2, Zenon DEF DeleteIsAt
      <4>. QED
        BY <4>1, <4>2, <4>3
    <3>. QED
      BY <3>1, Typed DEF SInv, AgreeBut, Tables
  <2>3. UnderWay'
    BY <2>1 DEF UnderWay, NoOp
  <2>. QED
    BY <1>1, <2>1, <2>2, <2>3 DEF SInv, Apart, Blank, Off, Mounted, Synced, NamesApart
<1>. QED
  BY <1>2, <1>3

(* The host gives a new file a name that was not there. *)
LEMMA InstallKeeps ==
  ASSUME SInv, IInv', NEW n \in Apps, NEW v \in Vals, NEW size \in 0 .. SecsFile,
         install_app(n, v, size)
  PROVE  SInv'
<1>1. /\ ~powered /\ op = NoOp /\ ~fs_ready /\ disk_magic
      /\ UNCHANGED <<disk_magic, inodes, fs_ready, powered, op>>
  BY DEF install_app, SInv, Off
<1>2. NamesApart(disk_inodes)'
  <2>1. CASE InstallUpdate(n, v, size)
    BY <2>1 DEF InstallUpdate, SInv, Apart, NamesApart
  <2>2. CASE InstallNew(n, v, size)
    <3>. DEFINE i   == First(FreeInodes(disk_inodes))
               ino == [used |-> TRUE, name |-> Stored(n), size |-> size,
                       slot |-> First(FreeSlots(disk_inodes))]
    <3>1. Alike(ino.name, n) /\ disk_inodes' = [disk_inodes EXCEPT ![i] = ino]
      BY <2>2, DiskFSAssumption, Fits DEF InstallNew
    <3>2. \A j \in Inodes : disk_inodes[j].used => disk_inodes[j].name # n
      BY <2>2 DEF InstallNew, Finds
    <3>3. \A j \in Inodes : disk_inodes'[j] = IF j = i THEN ino ELSE disk_inodes[j]
      BY <3>1, Typed DEF SInv, Tables
    <3>. HIDE DEF i, ino
    <3>. QED
      BY <3>1, <3>2, <3>3 DEF SInv, Apart, NamesApart, Alike
  <2>. QED
    BY <2>1, <2>2 DEF install_app
<1>. QED
  BY <1>1, <1>2 DEF SInv, Apart, Blank, Off, Mounted, Synced, NamesApart, UnderWay, NoOp

LEMMA StepSInv == SInv /\ [Next]_vars => SInv'
<1>. SUFFICES ASSUME SInv, [Next]_vars PROVE SInv'
  OBVIOUS
<1>1. IInv'
  BY StepPreserves DEF SInv
<1>2. CASE UNCHANGED vars
  BY <1>1, <1>2 DEF vars, SInv, Apart, Blank, Off, Mounted, Synced, NamesApart, UnderWay,
     WriteIsAt, DeleteIsAt, FormatIsAt, AgreeBut, OldIs, FoundIs, Finds, Alike, Passed
<1>3. CASE Call
  <2>1. 0 .. MaxSize \subseteq Nat
    BY DiskFSAssumption
  <2>. QED
    BY <1>1, <1>3, <2>1, WriteStarts, DeleteStarts, BootSteps DEF Call
<1>4. CASE Sector
  BY <1>1, <1>4, DataGoesOn, TableGoesOn, FormatGoesOn, SuperGoesOn DEF Sector
<1>5. CASE Install
  BY <1>1, <1>5, InstallKeeps DEF Install
<1>. QED
  BY <1>1, <1>2, <1>3, <1>4, <1>5, BootSteps DEF Next

LEMMA Reliable == Spec => []SInv
BY InitSInv, StepSInv, PTL DEF Spec

(* No two files of the disk ever have the same name, if it fits an inode. *)
THEOREM NamesNeverShared == Spec => []NamesUnique
<1>1. SInv => NamesUnique
  BY DEF SInv, Apart, NamesApart, NamesUnique
<1>. QED
  BY <1>1, Reliable, PTL

(* Between calls, what the kernel lists is what the next boot will find. *)
THEOREM MemoryIsDisk == Spec => []CacheCoherent
<1>1. SInv => CacheCoherent
  BY DEF SInv, Mounted, Synced, CacheCoherent, Ready, Idle
<1>. QED
  BY <1>1, Reliable, PTL

----------------------------------------------------------------------------
(***************************************************************************)
(* What the disk holds, file by file.                                      *)
(***************************************************************************)
Holds(i) ==
  [size |-> disk_inodes[i].size,
   data |-> [s \in DataSectors |-> IF s <= disk_inodes[i].size THEN disk_data[i][s] ELSE Zero]]

Is(n, i) == disk_inodes[i].used /\ disk_inodes[i].name = n

FilesRead ==
  /\ \A n \in Fitting :
       /\ \A i \in Inodes : disk_magic /\ Is(n, i) => OnDisk(n) = Holds(i)
       /\ (\A i \in Inodes : ~Is(n, i)) => OnDisk(n) = Missing
       /\ ~disk_magic => OnDisk(n) = Missing
  /\ \A i \in Inodes : disk_inodes[i].used => Holds(i) \in Store!Contents

LEMMA HoldsType ==
  ASSUME IInv, NEW i \in Inodes, disk_inodes[i].used
  PROVE  Holds(i) \in Store!Contents
<1>1. disk_inodes[i] \in UsedInode /\ i \in Slots
  BY Typed, Indices DEF Tables, NoInode
<1>2. disk_inodes[i].size \in 0 .. SecsFile
  BY <1>1 DEF UsedInode
<1>3. [s \in DataSectors |-> IF s <= disk_inodes[i].size THEN disk_data[i][s] ELSE Zero]
        \in [DataSectors -> Vals \cup {Zero}]
  BY <1>1, Typed
<1>. QED
  BY <1>2, <1>3 DEF Holds, Store!Contents, Store!Sectors, DataSectors

LEMMA Reading == SInv => FilesRead
<1>. SUFFICES ASSUME SInv, NEW n \in Fitting
              PROVE  /\ \A i \in Inodes : disk_magic /\ Is(n, i) => OnDisk(n) = Holds(i)
                     /\ (\A i \in Inodes : ~Is(n, i)) => OnDisk(n) = Missing
                     /\ ~disk_magic => OnDisk(n) = Missing
  BY HoldsType DEF FilesRead, SInv
<1>1. ASSUME NEW i \in Inodes, disk_magic, Is(n, i)
      PROVE  OnDisk(n) = Holds(i)
  <2>1. disk_inodes \in Tables /\ NamesApart(disk_inodes)
    BY Typed DEF SInv, Apart
  <2>2. Finds(disk_inodes, n) = {i} /\ First(Finds(disk_inodes, n)) = i
    BY <1>1, <2>1, Found DEF Is
  <2>3. disk_inodes[i].slot = i
    BY <1>1, Typed DEF SInv, OwnSlot, Is
  <2>. QED
    BY <1>1, <2>2, <2>3 DEF OnDisk, ReadBy, Holds
<1>2. ASSUME \A i \in Inodes : ~Is(n, i)
      PROVE  OnDisk(n) = Missing
  BY <1>2 DEF OnDisk, ReadBy, Finds, Is
<1>. QED
  BY <1>1, <1>2 DEF OnDisk

LEMMA ReadingNext == SInv' => FilesRead'
BY Reading, PTL

(* A file whose inode and slot stay is the same file. *)
LEMMA SameFile ==
  ASSUME FilesRead, FilesRead', NEW n \in Fitting, disk_magic, disk_magic',
         \A i \in Inodes : Is(n, i)' <=> Is(n, i),
         \A i \in Inodes : Is(n, i) => /\ disk_inodes'[i].size = disk_inodes[i].size
                                           /\ disk_data'[i] = disk_data[i]
  PROVE  OnDisk(n)' = OnDisk(n)
<1>1. CASE \A i \in Inodes : ~Is(n, i)
  BY <1>1 DEF FilesRead
<1>2. ASSUME NEW i \in Inodes, Is(n, i)
      PROVE  OnDisk(n)' = OnDisk(n)
  <2>1. OnDisk(n) = Holds(i) /\ OnDisk(n)' = Holds(i)'
    BY <1>2 DEF FilesRead
  <2>. QED
    BY <1>2, <2>1 DEF Holds
<1>. QED
  BY <1>1, <1>2

LEMMA SameDisk ==
  ASSUME UNCHANGED disk
  PROVE  \A n \in Names : OnDisk(n)' = OnDisk(n)
BY DEF disk, OnDisk, ReadBy

Want == [size |-> op.size, data |-> Content(op.val, op.size)]

LEMMA WantType ==
  ASSUME op \in WriteOps
  PROVE  Want \in Store!Contents
<1>1. op.val \in Vals /\ op.size \in 0 .. SecsFile
  BY DEF WriteOps
<1>. QED
  BY <1>1, ContentType DEF Want, Store!Contents, Store!Sectors, DataSectors

(* A file whose slot is written whole. *)
LEMMA Written ==
  ASSUME NEW i \in Inodes, disk_inodes[i].size = op.size, op.size \in Nat,
         \A s \in DataSectors : disk_data[i][s] = Content(op.val, op.size)[s]
  PROVE  Holds(i) = Want
BY DEF Holds, Want, Content

(***************************************************************************)
(* diskfs_write has returned a size: the file is on the disk.              *)
(***************************************************************************)
LEMMA Acknowledged ==
  ASSUME SInv, op.kind = "write", op.stage = "super", op.name \notin LongNames
  PROVE  OnDisk(op.name) = Want
<1>1. op \in WriteOps /\ op.idx \in Inodes /\ op.name \in Names /\ op.size \in Nat
  BY Typed DEF SInv, WriteOps, DeleteOps, FormatOps, NoOp
<1>2. disk_magic /\ WriteIsAt(op.idx)
  BY DEF SInv, UnderWay, Mounted
<1>3. disk_inodes[op.idx] = inodes[op.idx] /\ AgreeBut(op.idx)
  BY <1>2 DEF WriteIsAt, Passed
<1>4. disk_inodes = inodes
  BY <1>1, <1>3, Typed DEF SInv, AgreeBut, Tables
<1>5. op.idx \in Finds(disk_inodes, op.name) /\ First(Finds(disk_inodes, op.name)) = op.idx
  BY <1>2, <1>4 DEF WriteIsAt, FoundIs
<1>6. disk_inodes[op.idx].slot = op.idx /\ disk_inodes[op.idx].size = op.size
  BY <1>1, <1>2, <1>4, Typed DEF SInv, OwnSlot, WriteIsAt
<1>7. \A s \in DataSectors : disk_data[op.idx][s] = Content(op.val, op.size)[s]
  BY <1>2 DEF WriteIsAt
<1>8. Holds(op.idx) = Want
  BY <1>1, <1>6, <1>7, Written
<1>9. OnDisk(op.name) = Holds(op.idx)
  BY <1>2, <1>5, <1>6, Zenon DEF OnDisk, ReadBy, Holds
<1>. QED
  BY <1>8, <1>9

LEMMA StepAcknowledges ==
  ASSUME SInv, [Next]_vars, NEW n \in Names \ LongNames, op.name = n,
         op.kind = "write", op.stage = "super", op' = NoOp, powered'
  PROVE  OnDisk(n)' = Want
<1>1. op # NoOp /\ powered
  BY DEF SInv, Off, NoOp
<1>2. SuperSector
  BY <1>1 DEF Next, Call, diskfs_write, diskfs_delete, diskfs_format, diskfs_init, Ready, Idle,
     Sector, DataSector, TableSector, Crash, Install, install_app, vars
<1>3. disk_magic
  BY DEF SInv, UnderWay, Mounted
<1>4. UNCHANGED disk
  BY <1>2, <1>3 DEF SuperSector, disk
<1>. QED
  BY <1>3, <1>4, SameDisk, Acknowledged

(* On a disk without errors, what diskfs_write acknowledged is on the disk, under *)
(* every name of at most DISKFS_NAME_MAX - 1 characters.                           *)
THEOREM AcknowledgedIsThere == Spec => AckDurable
<1>1. SInv /\ [Next]_vars => [\A n \in Names \ LongNames : Acknowledges(n)]_vars
  BY StepAcknowledges DEF Want, Acknowledges
<1>. QED
  BY <1>1, Reliable, PTL DEF Spec, AckDurable

----------------------------------------------------------------------------
(***************************************************************************)
(* DiskFS implements FileStore: every step is a step of the store, or      *)
(* changes neither what the next boot would find nor the update under way. *)
(***************************************************************************)
Seen == [n \in Fitting |-> OnDisk(n)]

LEMMA Updating ==
  /\ op = NoOp => update = NoOp
  /\ op.kind = "write" /\ op.name \in Fitting =>
       update = [kind |-> "replace", name |-> op.name, want |-> Want]
  /\ op.kind = "delete" /\ op.name \in Fitting =>
       update = [kind |-> "replace", name |-> op.name, want |-> Missing]
  /\ op.kind \in {"write", "delete"} /\ op.name \notin Fitting => update = NoOp
  /\ op.kind = "format" => update = [kind |-> "format"]
BY DEF update, Want, NoOp

LEMMA SeenStays ==
  ASSUME \A n \in Fitting : OnDisk(n)' = OnDisk(n)
  PROVE  Seen' = Seen
BY DEF Seen

LEMMA SeenChanges ==
  ASSUME NEW m \in Fitting, \A n \in Fitting \ {m} : OnDisk(n)' = OnDisk(n)
  PROVE  Seen' = [Seen EXCEPT ![m] = OnDisk(m)']
BY DEF Seen

LEMMA Arguments ==
  ASSUME SInv
  PROVE  /\ op.kind = "write" => op \in WriteOps /\ op.name \in Names /\ op.idx \in Inodes
                                 /\ op.size \in Nat
         /\ op.kind = "delete" => op \in DeleteOps /\ op.name \in Names
BY Typed DEF SInv, WriteOps, DeleteOps, FormatOps, NoOp

(* The calls and the mounting begin updates. *)
LEMMA CallRefines ==
  ASSUME SInv, IInv', Call \/ diskfs_init
  PROVE  [Store!Next]_<<Seen, update>>
<1>1. UNCHANGED disk /\ op = NoOp
  BY DEF Call, diskfs_write, diskfs_delete, diskfs_format, diskfs_init, Ready, Idle, SInv, Off
<1>2. Seen' = Seen /\ update = NoOp
  BY <1>1, SameDisk, SeenStays, Updating, Fits
<1>3. CASE op' = op
  BY <1>1, <1>2, <1>3 DEF update
<1>6. CASE op' \in WriteOps \cup DeleteOps /\ op'.name \notin Fitting
  <2>1. op'.kind \in {"write", "delete"}
    BY <1>6 DEF WriteOps, DeleteOps
  <2>2. update' = NoOp
    BY <1>6, <2>1 DEF update
  <2>. QED
    BY <1>2, <2>2
<1>4. CASE \/ op' \in WriteOps \cup DeleteOps /\ op'.name \in Fitting
           \/ op' \in FormatOps
  <2>1. update' \in Store!Updates
    <3>1. CASE op' \in WriteOps /\ op'.name \in Fitting
      <4>1. Want' \in Store!Contents /\ op'.kind = "write" /\ op'.name \in Fitting
        <5>1. op \in WriteOps => Want \in Store!Contents
          BY WantType
        <5>2. op' \in WriteOps => Want' \in Store!Contents
          <6>1. op'.val \in Vals /\ op'.size \in 0 .. SecsFile
            BY <3>1 DEF WriteOps
          <6>. QED
            BY <6>1, ContentType DEF Want, Store!Contents, Store!Sectors, DataSectors
        <5>. QED
          BY <3>1, <5>2 DEF WriteOps
      <4>2. update' = [kind |-> "replace", name |-> op'.name, want |-> Want']
        BY <4>1 DEF update, Want
      <4>. QED
        BY <4>1, <4>2 DEF Store!Updates, Store!Files
    <3>2. CASE op' \in DeleteOps /\ op'.name \in Fitting
      <4>1. op'.kind = "delete" /\ op'.name \in Fitting
        BY <3>2 DEF DeleteOps
      <4>2. update' = [kind |-> "replace", name |-> op'.name, want |-> Missing]
        BY <4>1 DEF update
      <4>. QED
        BY <4>1, <4>2 DEF Store!Updates, Store!Files
    <3>3. CASE op' \in FormatOps
      <4>1. op'.kind = "format"
        BY <3>3 DEF FormatOps
      <4>2. update' = [kind |-> "format"]
        BY <4>1 DEF update
      <4>. QED
        BY <4>2 DEF Store!Updates
    <3>. QED
      BY <1>4, <3>1, <3>2, <3>3
  <2>. QED
    BY <1>2, <2>1, Zenon DEF Store!Next, Store!Begin, Seen
<1>5. op' \in WriteOps \cup DeleteOps \cup FormatOps \cup {NoOp}
  BY DEF IInv, TypeOK
<1>. QED
  BY <1>1, <1>3, <1>4, <1>5, <1>6

(* A sector of data tears the file it belongs to, if the disk has one. *)
LEMMA DataRefines ==
  ASSUME SInv, SInv', FilesRead, FilesRead', DataSector
  PROVE  [Store!Next]_<<Seen, update>>
<1>1. PICK d \in Inodes :
        /\ op.idx = d /\ op \in WriteOps /\ op.kind = "write" /\ op.name \in Names
        /\ op.sec \in DataSectors /\ inodes[d].slot = d /\ disk_magic /\ OldIs(d)
  BY Arguments, Typed DEF SInv, UnderWay, Mounted, DataSector, WriteIsAt, OwnSlot
<1>2. /\ disk_data' = [disk_data EXCEPT ![d][op.sec] = Content(op.val, op.size)[op.sec]]
      /\ UNCHANGED <<disk_magic, disk_inodes>>
  BY <1>1 DEF DataSector
<1>3. \A i \in Inodes \ {d} : disk_data'[i] = disk_data[i]
  BY <1>1, <1>2, Typed, Indices DEF SInv
<1>4. update' = update
  <2>1. op'.kind = "write" /\ op'.name = op.name /\ Want' = Want
    BY <1>1, WriteMoves DEF DataSector, Want
  <2>. QED
    BY <1>1, <2>1 DEF update, Want
<1>5. \A n \in Fitting : ~Is(n, d) => OnDisk(n)' = OnDisk(n)
  BY <1>1, <1>2, <1>3, SameFile DEF Is
<1>6. CASE \A n \in Fitting : ~Is(n, d)
  BY <1>4, <1>5, <1>6, SeenStays
<1>7. CASE \E n \in Fitting : Is(n, d)
  <2>. PICK m \in Fitting : Is(m, d)
    BY <1>7
  <2>1. Is(m, d) /\ Is(m, d)' /\ disk_inodes[d].used /\ m = op.name
    BY <1>1, <1>2 DEF OldIs, Is, Alike
  <2>2. \A n \in Fitting \ {m} : ~Is(n, d)
    BY <2>1 DEF Is
  <2>3. Seen' = [Seen EXCEPT ![m] = OnDisk(m)']
    BY <1>5, <2>2, SeenChanges
  <2>4. OnDisk(m) = Holds(d) /\ OnDisk(m)' = Holds(d)' /\ Seen[m] = OnDisk(m)
    BY <1>1, <1>2, <2>1 DEF FilesRead, Seen
  <2>5. Holds(d) \in Store!Contents /\ Want \in Store!Contents
    BY <1>1, <2>1, WantType DEF FilesRead
  <2>6. Holds(d)' \in Store!Contents
    BY <1>2, <2>1 DEF FilesRead
  <2>7. Holds(d)' \in Store!Torn(Seen[m], Want)
    <3>1. Holds(d) # Missing /\ Want # Missing
      BY <2>5, DiskFSAssumption DEF Store!Contents, Store!Sectors
    <3>2. Holds(d)'.size = Holds(d).size
      BY <1>2 DEF Holds
    <3>3. ASSUME NEW s \in DataSectors
          PROVE  Holds(d)'.data[s] \in IF s <= Holds(d).size
                                       THEN {Holds(d).data[s], Want.data[s]} ELSE {Zero}
      <4>1. disk_data'[d][s] \in {disk_data[d][s], Content(op.val, op.size)[s]}
        BY <1>1, <1>2, Typed, Indices DEF SInv
      <4>. QED
        BY <1>2, <4>1 DEF Holds, Want
    <3>. QED
      BY <2>4, <2>6, <3>1, <3>2, <3>3 DEF Store!Torn, Store!Sectors, DataSectors
  <2>8. update = [kind |-> "replace", name |-> m, want |-> Want]
    BY <1>1, <2>1, Updating
  <2>9. Store!Replace
    BY <1>4, <2>3, <2>4, <2>7, <2>8 DEF Store!Replace, Seen, NoOp
  <2>. QED
    BY <2>9 DEF Store!Next
<1>. QED
  BY <1>6, <1>7

(* A sector of the table that holds d makes the file the new one at once. *)
LEMMA TableRefines ==
  ASSUME SInv, SInv', FilesRead, FilesRead', TableSector, op.kind # "format"
  PROVE  [Store!Next]_<<Seen, update>>
<1>1. /\ op.kind \in {"write", "delete"} /\ op.stage = "inodes"
      /\ op'.kind = op.kind /\ op'.name = op.name
      /\ op.kind = "write" => op'.val = op.val /\ op'.size = op.size
  BY TableMoves
<1>2. update' = update
  BY <1>1 DEF update
<1>3. disk_magic /\ disk_magic' /\ UNCHANGED disk_data
  BY <1>1 DEF SInv, UnderWay, Mounted, TableSector
<1>4. PICK d \in Inodes : /\ AgreeBut(d) /\ OldIs(d)
                          /\ inodes[d].used => Alike(inodes[d].name, op.name)
                          /\ op.kind = "write" => WriteIsAt(d) /\ inodes[d].used
                          /\ op.kind = "delete" => DeleteIsAt(d)
  BY <1>1, Arguments DEF SInv, UnderWay, WriteIsAt, DeleteIsAt, NoInode
<1>5. disk_inodes' = IF SectorOf(d) = op.sec THEN inodes ELSE disk_inodes
  BY <1>4, Mixed DEF TableSector
<1>6. CASE SectorOf(d) # op.sec
  <2>1. UNCHANGED disk
    BY <1>3, <1>5, <1>6 DEF TableSector, disk
  <2>. QED
    BY <1>2, <2>1, SameDisk, SeenStays, Fits
<1>8. ASSUME SectorOf(d) = op.sec, NEW n \in Fitting, n # op.name
      PROVE  OnDisk(n)' = OnDisk(n)
  <2>1. disk_inodes' = inodes
    BY <1>5, <1>8
  <2>2. \A i \in Inodes : Is(n, i) \/ Is(n, i)' => i # d
    BY <1>4, <1>8, <2>1 DEF OldIs, Is, Alike
  <2>3. \A i \in Inodes \ {d} : disk_inodes'[i] = disk_inodes[i]
    BY <1>4, <2>1 DEF AgreeBut
  <2>. QED
    BY <1>3, <2>2, <2>3, SameFile DEF Is
<1>9. CASE SectorOf(d) = op.sec /\ op.name \notin Fitting
  BY <1>2, <1>8, <1>9, SeenStays
<1>7. CASE SectorOf(d) = op.sec /\ op.name \in Fitting
  <2>. PICK m \in Fitting : m = op.name
    BY <1>7
  <2>1. disk_inodes' = inodes
    BY <1>5, <1>7
  <2>2. \A n \in Fitting \ {m} : OnDisk(n)' = OnDisk(n)
    BY <1>7, <1>8
  <2>3. Seen' = [Seen EXCEPT ![m] = OnDisk(m)']
    BY <2>2, SeenChanges
  <2>4. update.kind = "replace" /\ update.name = m /\ OnDisk(m)' = update.want
    <3>1. CASE op.kind = "write"
      <4>1. Is(m, d)' /\ disk_inodes'[d].size = op.size
        BY <1>4, <2>1, <3>1 DEF WriteIsAt, Is, Alike
      <4>2. \A s \in DataSectors : disk_data'[d][s] = Content(op.val, op.size)[s]
        BY <1>1, <1>3, <1>4, <3>1 DEF WriteIsAt
      <4>3. Holds(d)' = Want
        BY <3>1, <4>1, <4>2, Arguments DEF Holds, Want, Content
      <4>. QED
        BY <1>3, <3>1, <4>1, <4>3, Updating DEF FilesRead
    <3>2. CASE op.kind = "delete"
      <4>1. \A i \in Inodes : ~Is(m, i)'
        BY <1>4, <2>1, <3>2 DEF DeleteIsAt, Is
      <4>. QED
        BY <3>2, <4>1, Updating DEF FilesRead
    <3>. QED
      BY <1>1, <3>1, <3>2
  <2>5. update # NoOp
    BY <2>4 DEF NoOp
  <2>6. Store!Replace
    BY <1>2, <2>3, <2>4, <2>5, Zenon DEF Store!Replace, Seen
  <2>. QED
    BY <2>6 DEF Store!Next
<1>. QED
  BY <1>6, <1>7, <1>9

(* A format removes files, those of a sector at once. *)
LEMMA FormatRefines ==
  ASSUME SInv, SInv', FilesRead, FilesRead', TableSector, op.kind = "format"
  PROVE  [Store!Next]_<<Seen, update>>
<1>1. op \in FormatOps /\ op.stage = "inodes" /\ disk_magic /\ disk_magic'
      /\ inodes = EmptyTable /\ UNCHANGED disk_data
  BY Typed DEF SInv, UnderWay, FormatIsAt, TableSector, WriteOps, DeleteOps, FormatOps, NoOp
<1>2. update = [kind |-> "format"] /\ update # NoOp /\ update.kind = "format"
  BY Updating DEF NoOp
<1>3. \A i \in Inodes : disk_inodes'[i] = NoInode \/ disk_inodes'[i] = disk_inodes[i]
  BY <1>1 DEF TableSector, EmptyTable
<1>4. \A n \in Fitting : OnDisk(n)' \in {Missing, OnDisk(n)}
  <2>1. SUFFICES ASSUME NEW n \in Fitting, NEW i \in Inodes, Is(n, i)'
                 PROVE  OnDisk(n)' = OnDisk(n)
    BY DEF FilesRead
  <2>2. disk_inodes'[i] = disk_inodes[i] /\ Is(n, i)
    BY <1>3, <2>1 DEF Is, NoInode
  <2>3. OnDisk(n)' = Holds(i)' /\ OnDisk(n) = Holds(i)
    BY <1>1, <2>1, <2>2 DEF FilesRead
  <2>. QED
    BY <1>1, <2>2, <2>3 DEF Holds
<1>5. CASE GoTo("inodes", op.sec + 1)
  <2>1. update' = update
    BY <1>1, <1>2, <1>5, FormatMoves DEF update
  <2>. DEFINE gone == {n \in Fitting : OnDisk(n)' = Missing}
  <2>2. Seen' = [n \in Fitting |-> IF n \in gone THEN Missing ELSE Seen[n]]
    BY <1>4 DEF Seen
  <2>3. Store!Empty
    BY <1>2, <2>1, <2>2 DEF Store!Empty, Seen
  <2>. QED
    BY <2>3 DEF Store!Next
<1>6. CASE op' = NoOp /\ fs_ready' /\ ~GoTo("inodes", op.sec + 1)
  <2>1. inodes' = disk_inodes' /\ inodes' = EmptyTable
    BY <1>1, <1>6 DEF SInv, Synced, TableSector
  <2>2. \A n \in Fitting : OnDisk(n)' = Missing
    BY <2>1 DEF FilesRead, Is, EmptyTable, NoInode
  <2>3. Seen' = [n \in Fitting |-> Missing] /\ update' = NoOp
    BY <1>6, <2>2 DEF Seen, update, NoOp
  <2>4. Store!Done
    BY <1>2, <2>3, Zenon DEF Store!Done, Seen
  <2>. QED
    BY <2>4 DEF Store!Next
<1>. QED
  BY <1>5, <1>6 DEF TableSector

(* The superblock ends a write or a delete: what was wanted is there. *)
LEMMA SuperRefines ==
  ASSUME SInv, SInv', FilesRead, FilesRead', SuperSector
  PROVE  [Store!Next]_<<Seen, update>>
<1>1. CASE op.kind = "format"
  <2>1. update' = update
    <3>1. op \in FormatOps
      BY <1>1, Typed DEF SInv, WriteOps, DeleteOps, NoOp
    <3>2. op'.kind = "format"
      BY <1>1, <3>1, FormatMoves DEF SuperSector
    <3>. QED
      BY <1>1, <3>2 DEF update
  <2>2. \A n \in Fitting : OnDisk(n)' = OnDisk(n)
    <3>1. CASE disk_magic
      BY <3>1, SameDisk, Typed, Fits DEF SuperSector, disk, SInv
    <3>2. CASE ~disk_magic
      <4>1. disk_inodes' = EmptyTable
        BY <3>2 DEF SInv, Blank, SuperSector
      <4>2. \A n \in Fitting, i \in Inodes : ~Is(n, i)'
        BY <4>1 DEF Is, EmptyTable, NoInode
      <4>. QED
        BY <3>2, <4>2 DEF FilesRead
    <3>. QED
      BY <3>1, <3>2
  <2>. QED
    BY <2>1, <2>2, SeenStays
<1>2. CASE op.kind # "format"
  <2>1. op.kind \in {"write", "delete"} /\ op.stage = "super" /\ op.name \in Names
    BY <1>2, Arguments, Typed DEF SInv, SuperSector, WriteOps, DeleteOps, FormatOps, NoOp
  <2>2. disk_magic /\ UNCHANGED disk
    BY <1>2, <2>1, Typed DEF SInv, UnderWay, Mounted, SuperSector, disk
  <2>3. Seen' = Seen
    BY <2>2, SameDisk, SeenStays, Fits
  <2>6. update' = NoOp
    BY <1>2 DEF SuperSector, update, NoOp
  <2>8. CASE op.name \notin Fitting
    BY <2>1, <2>3, <2>6, <2>8, Updating
  <2>9. SUFFICES ASSUME op.name \in Fitting PROVE Store!Next
    BY <2>8
  <2>. PICK m \in Fitting : m = op.name
    BY <2>9
  <2>4. update.kind = "replace" /\ update.name = m /\ Seen[m] = update.want
    <3>1. CASE op.kind = "write"
      <4>1. m \notin LongNames
        BY DEF Fitting
      <4>. QED
        BY <2>1, <3>1, <4>1, Acknowledged, Updating DEF Seen
    <3>2. CASE op.kind = "delete"
      <4>1. PICK d \in Inodes : DeleteIsAt(d)
        BY <3>2 DEF SInv, UnderWay
      <4>2. disk_inodes[d] = inodes[d] /\ AgreeBut(d)
        BY <2>1, <4>1 DEF DeleteIsAt, Passed
      <4>3. \A i \in Inodes : ~Is(m, i)
        BY <4>1, <4>2 DEF DeleteIsAt, AgreeBut, Is
      <4>. QED
        BY <3>2, <4>3, Updating DEF FilesRead, Seen
    <3>. QED
      BY <2>1, <3>1, <3>2
  <2>5. Seen' = [Seen EXCEPT ![m] = update.want]
    BY <2>3, <2>4 DEF Seen
  <2>10. update # NoOp
    BY <2>4 DEF NoOp
  <2>7. Store!Done
    BY <2>4, <2>5, <2>6, <2>10 DEF Store!Done, Seen
  <2>. QED
    BY <2>7 DEF Store!Next
<1>. QED
  BY <1>1, <1>2

(* The host puts a file of its own on the disk, or changes one, and no other. *)
LEMMA InstallKeepsOthers ==
  ASSUME SInv, SInv', FilesRead, FilesRead',
         NEW n \in Apps, NEW v \in Vals, NEW size \in 0 .. SecsFile, install_app(n, v, size)
  PROVE  /\ \A m \in Fitting \ {n} : OnDisk(m)' = OnDisk(m)
         /\ n \in Fitting => OnDisk(n)' \in Store!Contents
<1>1. op = NoOp /\ op' = NoOp /\ disk_magic /\ disk_magic' /\ n \in Names
  BY DiskFSAssumption DEF install_app, SInv, Off
<1>2. PICK i \in Inodes :
        /\ disk_inodes'[i].used /\ Alike(disk_inodes'[i].name, n)
        /\ \A j \in Inodes \ {i} : disk_inodes'[j] = disk_inodes[j]
        /\ disk_data' = [disk_data EXCEPT ![i] = Content(v, size)]
        /\ disk_inodes[i].used => Alike(disk_inodes[i].name, n)
  <2>1. disk_inodes \in Tables /\ OwnSlot(disk_inodes)
    BY Typed DEF SInv
  <2>2. CASE InstallNew(n, v, size)
    <3>. DEFINE i   == First(FreeInodes(disk_inodes))
               ino == [used |-> TRUE, name |-> Stored(n), size |-> size,
                       slot |-> First(FreeSlots(disk_inodes))]
    <3>1. i \in Inodes /\ First(FreeSlots(disk_inodes)) = i
      BY <2>1, <2>2, FirstFree DEF InstallNew
    <3>2. FreeInodes(disk_inodes) \in SUBSET Nat /\ FreeInodes(disk_inodes) # {}
      BY <2>2, Indices DEF InstallNew, FreeInodes
    <3>3. ~disk_inodes[i].used
      BY <3>2, FirstIsLeast DEF FreeInodes
    <3>4. ino.used /\ Alike(ino.name, n) /\ disk_inodes' = [disk_inodes EXCEPT ![i] = ino]
      BY <1>1, <2>2, Fits DEF InstallNew
    <3>5. disk_data' = [disk_data EXCEPT ![i] = Content(v, size)]
      BY <2>2, <3>1 DEF InstallNew, FillSlot
    <3>. HIDE DEF i, ino
    <3>6. disk_inodes'[i] = ino /\ \A j \in Inodes \ {i} : disk_inodes'[j] = disk_inodes[j]
      BY <2>1, <3>1, <3>4 DEF Tables
    <3>. QED
      BY <3>1, <3>3, <3>4, <3>5, <3>6
  <2>3. CASE InstallUpdate(n, v, size)
    <3>. DEFINE i == First(Finds(disk_inodes, n))
    <3>1. i \in Inodes /\ disk_inodes[i].used /\ disk_inodes[i].name = n
      BY <2>1, <2>3, FoundAt DEF InstallUpdate
    <3>2. disk_inodes[i].slot = i
      BY <2>1, <3>1 DEF OwnSlot
    <3>3. disk_inodes' = disk_inodes /\ disk_data' = [disk_data EXCEPT ![i] = Content(v, size)]
      BY <2>3, <3>2 DEF InstallUpdate, FillSlot
    <3>. HIDE DEF i
    <3>4. Alike(n, n)
      BY <1>1, Fits
    <3>. QED
      BY <3>1, <3>3, <3>4
  <2>. QED
    BY <2>2, <2>3 DEF install_app
<1>3. /\ n \in Fitting => Is(n, i)'
      /\ \A j \in Inodes \ {i} : disk_inodes'[j] = disk_inodes[j] /\ disk_data'[j] = disk_data[j]
  BY <1>2, Typed, Indices DEF SInv, Tables, Is, Alike
<1>4. ASSUME NEW m \in Fitting \ {n}
      PROVE  OnDisk(m)' = OnDisk(m)
  <2>1. \A j \in Inodes : Is(m, j) \/ Is(m, j)' => j # i
    BY <1>2, <1>3 DEF Is, Alike
  <2>. QED
    BY <1>1, <1>3, <2>1, SameFile DEF Is
<1>5. ASSUME n \in Fitting
      PROVE  OnDisk(n)' \in Store!Contents
  <2>1. OnDisk(n)' = Holds(i)'
    BY <1>1, <1>3, <1>5 DEF FilesRead
  <2>. QED
    BY <1>3, <1>5, <2>1 DEF FilesRead, Is
<1>. QED
  BY <1>4, <1>5

LEMMA InstallRefines ==
  ASSUME SInv, SInv', FilesRead, FilesRead',
         NEW n \in Apps, NEW v \in Vals, NEW size \in 0 .. SecsFile, install_app(n, v, size)
  PROVE  [Store!Next]_<<Seen, update>>
<1>1. op = NoOp /\ op' = NoOp /\ disk_magic /\ disk_magic' /\ n \in Names
  BY DiskFSAssumption DEF install_app, SInv, Off
<1>2. update = NoOp /\ update' = NoOp
  BY <1>1 DEF update, NoOp
<1>3. CASE n \notin Fitting
  BY <1>2, <1>3, InstallKeepsOthers, SeenStays
<1>4. CASE n \in Fitting
  <2>1. Seen' = [Seen EXCEPT ![n] = OnDisk(n)']
    BY <1>4, InstallKeepsOthers, SeenChanges
  <2>2. Store!HostPut
    BY <1>2, <1>4, <2>1, InstallKeepsOthers, Zenon DEF Store!HostPut, Seen
  <2>. QED
    BY <2>2 DEF Store!Next
<1>. QED
  BY <1>3, <1>4

LEMMA InitRefines == Init => Store!Init
<1>. SUFFICES ASSUME Init PROVE Store!Init
  OBVIOUS
<1>1. \A n \in Names : OnDisk(n) = Missing
  BY DEF Init, OnDisk
<1>2. update = NoOp
  BY Updating DEF Init
<1>. QED
  BY <1>1, <1>2, Fits DEF Store!Init, Store!Files

LEMMA StepRefines ==
  ASSUME SInv, SInv', FilesRead, FilesRead', [Next]_vars
  PROVE  [Store!Next]_<<Seen, update>>
<1>1. CASE UNCHANGED vars
  <2>1. UNCHANGED disk /\ update' = update
    BY <1>1 DEF vars, disk, update
  <2>. QED
    BY <2>1, SameDisk, SeenStays, Fits
<1>2. CASE Call \/ diskfs_init
  BY <1>2, CallRefines DEF SInv
<1>3. CASE Sector
  BY <1>3, DataRefines, TableRefines, FormatRefines, SuperRefines DEF Sector
<1>4. CASE Crash
  <2>1. UNCHANGED disk /\ update' = NoOp
    BY <1>4 DEF Crash, update, NoOp
  <2>2. Store!Crash
    BY <2>1, SameDisk, SeenStays, Fits DEF Store!Crash, Seen
  <2>. QED
    BY <2>2 DEF Store!Next
<1>5. CASE Install
  BY <1>5, InstallRefines DEF Install
<1>. QED
  BY <1>1, <1>2, <1>3, <1>4, <1>5 DEF Next

(***************************************************************************)
(* On a disk that reports no errors, across any power failures, the sector *)
(* by sector updates of diskfs.c and of the host are those of a store of   *)
(* the files whose names fit: for any number of files, layout of the table *)
(* and size of a file, whatever is done to files of other names.           *)
(***************************************************************************)
THEOREM DiskIsStore == Spec => ImplementsFileStore
<1>1. SInv /\ SInv' /\ FilesRead /\ FilesRead' /\ [Next]_vars => [Store!Next]_<<Seen, update>>
  BY StepRefines
<1>. QED
  BY <1>1, InitRefines, Reading, Reliable, PTL
     DEF Spec, ImplementsFileStore, Store!Spec, Seen
----------------------------------------------------------------------------
(***************************************************************************)
(* The boot.  What a step does to the files is taken from the refinement   *)
(* of FileStore by DiskFS, not from sectors.                               *)
(***************************************************************************)
Whole(v)     == [size |-> 1, data |-> Content(v, 1)]
Owners       == Accounts \cup {"default"}
FlagThere    == OnDisk("installed") # Missing
PasswdIs(a)  == OnDisk("passwd") = Whole(a)
Writing(n)   == op.kind = "write" /\ op.name = n

(* Where kmain waits for the user or for the power, no call is under way; while *)
(* it installs, it has an account.                                            *)
Still ==
  /\ phase \in {"off", "installer_run", "screens", "login", "reload", "shell"} => op = NoOp
  /\ phase = "off" => ~powered /\ ~fs_ready
  /\ op.kind # "delete"
  /\ phase \in {"flag", "accounts", "readme", "home", "installed"} => cfg \in Accounts

(* The passwd file, when there is one, is of one sector and names accounts. *)
GoodPasswd ==
  /\ OnDisk("passwd") # Missing =>
       OnDisk("passwd").size = 1 /\ OnDisk("passwd").data[1] \in Owners
  /\ Writing("passwd") => op.size = 1 /\ op.val \in Owners

(* The default accounts are being written, or have been. *)
Made ==
  phase \in {"login_made", "reload_made"} =>
    /\ fs_ready
    /\ Writing("passwd") \/ (op = NoOp /\ OnDisk("passwd") # Missing)

Loaded ==
  /\ phase = "installer_run" /\ fs_ready => users # "none"
  /\ phase = "login" => users # "none"

(* How far the installer has come. *)
Installing ==
  /\ phase = "accounts" => Writing("installed") \/ (op = NoOp /\ FlagThere)
  /\ phase = "readme" =>
       /\ FlagThere
       /\ \/ Writing("passwd") /\ op.val = cfg /\ op.size = 1
          \/ op = NoOp /\ PasswdIs(cfg)
  /\ phase = "home" => FlagThere /\ PasswdIs(cfg) /\ (Writing("README") \/ op = NoOp)
  /\ phase = "installed" => FlagThere /\ PasswdIs(cfg) /\ (Writing("homepath") \/ op = NoOp)

(* From then on nothing but the host writes to the disk. *)
Kept ==
  promised # "none" =>
    /\ FlagThere /\ PasswdIs(promised)
    /\ op = NoOp
    /\ phase \in {"off", "login_init", "installer_run", "login", "reload", "shell"}
    /\ phase = "installer_run" /\ fs_ready => users = promised
    /\ phase = "login" => users = promised

Story == GoodPasswd /\ Made /\ Loaded /\ Installing /\ Kept

BootTypes ==
  /\ phase \in Phases
  /\ users \in Accounts \cup {"default", "none"}
  /\ cfg \in Accounts \cup {"none"}
  /\ session \in Accounts \cup {"default", "none", "guest", "stella"}
  /\ promised \in Accounts \cup {"none"}
  /\ sound \in BOOLEAN

BInv == IInv /\ BootTypes /\ Still /\ (sound => SInv /\ Story)

----------------------------------------------------------------------------
LEMMA Short == LongNames = {} /\ Fitting = Names
BY BootAssumption DEF Fitting

LEMMA FileNames ==
  /\ {"passwd", "installed", "README", "homepath"} \subseteq Names
  /\ {"passwd", "installed", "README", "homepath"} \cap Apps = {}
  /\ {"default", "flag", "text", "elf"} \cup Accounts \subseteq Vals
  /\ "none" \notin Accounts /\ "default" \notin Accounts
  /\ 1 \in DataSectors /\ 1 \in Nat /\ 1 \in 0 .. SecsFile
BY BootAssumption, DiskFSAssumption DEF DataSectors

LEMMA WholeFacts ==
  ASSUME NEW v
  PROVE  Whole(v).size = 1 /\ Whole(v).data[1] = v
BY FileNames DEF Whole, Content

LEMMA WholeThere ==
  ASSUME NEW v \in Vals
  PROVE  Whole(v) # Missing
<1>1. Whole(v) \in [size : 0 .. SecsFile, data : [1 .. SecsFile -> Vals \cup {Zero}]]
  BY ContentType, FileNames DEF Whole, DataSectors
<1>. QED
  BY <1>1, DiskFSAssumption

LEMMA InitB == BootInit => BInv
<1>. SUFFICES ASSUME BootInit PROVE BInv
  OBVIOUS
<1>1. Init
  BY DEF BootInit
<1>2. \A n \in Names : OnDisk(n) = Missing
  BY <1>1 DEF Init, OnDisk
<1>3. Story
  BY <1>1, <1>2, FileNames
     DEF BootInit, Init, Story, GoodPasswd, Made, Loaded, Installing, Kept, Writing, NoOp
<1>. QED
  BY <1>1, <1>3, InitSInv, InitIInv
     DEF BootInit, Init, BInv, BootTypes, Phases, Still, NoOp

(* Between calls, what diskfs_exists and diskfs_read say is what is on the disk. *)
LEMMA MemoryTells ==
  ASSUME SInv, Ready, NEW n \in Names
  PROVE  /\ diskfs_read(n) = OnDisk(n)
         /\ OnDisk(n) # Missing => diskfs_exists(n)
BY DEF SInv, Mounted, Synced, Ready, Idle, OnDisk, diskfs_read, ReadBy, diskfs_exists

LEMMA Parsed ==
  ASSUME SInv, GoodPasswd, Ready, PasswdThere
  PROVE  /\ Passwd \in Owners
         /\ \A a \in Accounts : PasswdIs(a) => Passwd = a
<1>1. diskfs_read("passwd") = OnDisk("passwd") /\ OnDisk("passwd") # Missing
  BY MemoryTells, FileNames DEF PasswdThere
<1>2. Passwd = OnDisk("passwd").data[1] /\ Passwd \in Owners
  BY <1>1 DEF Passwd, parse_passwd, GoodPasswd, Owners
<1>. QED
  BY <1>2, WholeFacts DEF PasswdIs

LEMMA PasswdIsThere ==
  ASSUME SInv, Ready, GoodPasswd, OnDisk("passwd") # Missing
  PROVE  PasswdThere
BY MemoryTells, FileNames DEF PasswdThere, GoodPasswd

LEMMA WriteBegins ==
  ASSUME NEW n, NEW v, diskfs_write(n, v, 1)
  PROVE  /\ op'.kind = "write" /\ op'.name = n /\ op'.val = v /\ op'.size = 1 /\ op' # NoOp
         /\ fs_ready /\ op = NoOp /\ powered
         /\ UNCHANGED disk /\ UNCHANGED <<fs_ready, powered>>
<1>1. (IF 1 > SecsFile THEN SecsFile ELSE 1) = 1
  BY DiskFSAssumption
<1>. QED
  BY <1>1 DEF diskfs_write, Overwrite, CreateNew, WriteAt, Ready, Idle, NoOp

(***************************************************************************)
(* What a sector does to the files, from the refinement.                   *)
(***************************************************************************)
LEMMA SectorEffect ==
  ASSUME SInv, SInv', Sector
  PROVE  /\ op.kind = "write" =>
              /\ \A m \in Names \ {op.name} : OnDisk(m)' = OnDisk(m)
              /\ \A n \in Names : n = op.name =>
                   OnDisk(n)' \in {OnDisk(n), Want} \cup Store!Torn(OnDisk(n), Want)
              /\ \/ op' = NoOp /\ \A n \in Names : n = op.name => OnDisk(n)' = Want
                 \/ /\ op'.kind = "write" /\ op'.name = op.name /\ op'.val = op.val
                    /\ op'.size = op.size
         /\ op.kind = "format" =>
              /\ \A m \in Names : OnDisk(m)' \in {Missing, OnDisk(m)}
              /\ op' = NoOp \/ op'.kind = "format"
<1>1. [Store!Next]_<<Seen, update>>
  BY Reading, ReadingNext, Short, StepRefines DEF Next
<1>2. /\ \A m \in Names : Seen[m] = OnDisk(m) /\ Seen'[m] = OnDisk(m)'
      /\ Seen = [m \in Names |-> Seen[m]]
  BY Short DEF Seen
<1>3. CASE op.kind = "write"
  <2>. PICK n \in Names : n = op.name
    BY <1>3, Arguments
  <2>1. op \in WriteOps
    BY <1>3, Arguments
  <2>2. update = [kind |-> "replace", name |-> n, want |-> Want] /\ update # NoOp
    BY <1>3, Short, Updating DEF NoOp
  <2>3. \/ Seen' = Seen
        \/ \E f \in {Want} \cup Store!Torn(Seen[n], Want) : Seen' = [Seen EXCEPT ![n] = f]
    BY <1>1, <2>2 DEF Store!Next, Store!Begin, Store!Replace, Store!Empty, Store!Done,
       Store!Crash, Store!HostPut, Seen
  <2>4. \/ op' = NoOp /\ OnDisk(n)' = Want
        \/ op'.kind = "write" /\ op'.name = op.name /\ op'.val = op.val /\ op'.size = op.size
    <3>1. CASE DataSector
      BY <2>1, <3>1, WriteMoves DEF DataSector
    <3>2. CASE TableSector
      BY <1>3, <3>2, TableMoves
    <3>3. CASE SuperSector
      <4>1. op' = NoOp /\ op.stage = "super" /\ powered'
        BY <1>3, <3>3 DEF SuperSector, SInv, Off, NoOp
      <4>. QED
        BY <1>3, <4>1, Short, StepAcknowledges DEF Next
    <3>. QED
      BY <3>1, <3>2, <3>3 DEF Sector
  <2>5. \A m \in Names \ {n} : OnDisk(m)' = OnDisk(m)
    BY <1>2, <2>3
  <2>6. OnDisk(n)' \in {OnDisk(n), Want} \cup Store!Torn(OnDisk(n), Want)
    BY <1>2, <2>3
  <2>. QED
    BY <1>3, <2>4, <2>5, <2>6
<1>4. CASE op.kind = "format"
  <2>1. update = [kind |-> "format"] /\ update # NoOp
    BY <1>4, Updating DEF NoOp
  <2>2. \/ Seen' = Seen
        \/ \E gone \in SUBSET Names :
             Seen' = [m \in Names |-> IF m \in gone THEN Missing ELSE Seen[m]]
        \/ Seen' = [m \in Names |-> Missing]
    BY <1>1, <2>1, Short DEF Store!Next, Store!Begin, Store!Replace, Store!Empty, Store!Done,
       Store!Crash, Store!HostPut, Seen
  <2>3. \A m \in Names : OnDisk(m)' \in {Missing, OnDisk(m)}
    BY <1>2, <2>2
  <2>4. op' = NoOp \/ op'.kind = "format"
    <3>1. op \in FormatOps
      BY <1>4, Typed DEF SInv, WriteOps, DeleteOps, NoOp
    <3>. QED
      BY <1>4, <3>1, FormatMoves DEF Sector, DataSector, TableSector, SuperSector
  <2>. QED
    BY <1>4, <2>3, <2>4
<1>. QED
  BY <1>3, <1>4

----------------------------------------------------------------------------
(***************************************************************************)
(* The steps of the boot.                                                  *)
(***************************************************************************)
Untouched(n) == OnDisk(n)' = OnDisk(n)
SameFiles == Untouched("passwd") /\ Untouched("installed")

LEMMA SameVars ==
  ASSUME BInv, UNCHANGED vars
  PROVE  /\ IInv' /\ (sound => SInv')
         /\ SameFiles
         /\ UNCHANGED <<op, fs_ready, powered>>
<1>1. IInv' /\ (sound => SInv')
  BY Short, StepPreserves, StepSInv DEF BInv
<1>2. UNCHANGED disk /\ UNCHANGED <<op, fs_ready, powered>>
  BY DEF vars, disk
<1>. QED
  BY <1>1, <1>2, SameDisk, FileNames DEF SameFiles, Untouched

LEMMA SameBoot == BInv /\ UNCHANGED bootvars => BInv'
<1>. SUFFICES ASSUME BInv, UNCHANGED bootvars PROVE BInv'
  OBVIOUS
<1>1. UNCHANGED vars /\ UNCHANGED <<phase, users, cfg, session, promised, sound>>
  BY DEF bootvars, kernel, history
<1>2. (IInv' /\ (sound => SInv')) /\ SameFiles /\ UNCHANGED <<op, fs_ready, powered>>
  BY <1>1, SameVars
<1>3. sound => Story'
  BY <1>1, <1>2 DEF BInv, Story, GoodPasswd, Made, Loaded, Installing, Kept, Writing,
     FlagThere, PasswdIs, SameFiles, Untouched, Whole, Owners
<1>. QED
  BY <1>1, <1>2, <1>3 DEF BInv, BootTypes, Still

LEMMA PowerOffB == BInv /\ PowerOff => BInv'
<1>. SUFFICES ASSUME BInv, PowerOff PROVE BInv'
  OBVIOUS
<1>1. IInv' /\ (sound => SInv')
  BY Short, StepPreserves, StepSInv DEF BInv, PowerOff, Next
<1>2. /\ UNCHANGED disk /\ op' = NoOp /\ ~powered' /\ ~fs_ready'
      /\ phase' = "off" /\ users' = "none" /\ cfg' = "none" /\ session' = "none"
      /\ UNCHANGED <<promised, sound>>
  BY DEF PowerOff, Crash, history
<1>3. SameFiles
  BY <1>2, SameDisk, FileNames DEF SameFiles, Untouched
<1>4. sound => Story'
  BY <1>2, <1>3 DEF BInv, Story, GoodPasswd, Made, Loaded, Installing, Kept, Writing,
     FlagThere, PasswdIs, SameFiles, Untouched, Whole, Owners, NoOp
<1>. QED
  BY <1>1, <1>2, <1>4 DEF BInv, BootTypes, Phases, Still, NoOp

LEMMA PowerOnB == BInv /\ PowerOn => BInv'
<1>. SUFFICES ASSUME BInv, PowerOn PROVE BInv'
  OBVIOUS
<1>1. op = NoOp /\ ~powered /\ ~fs_ready /\ phase = "off"
  BY DEF BInv, Still, PowerOn
<1>2. UNCHANGED disk /\ UNCHANGED <<users, cfg, session, promised>>
  BY DEF PowerOn, diskfs_init, InitError
<1>3. SameFiles
  BY <1>2, SameDisk, FileNames DEF SameFiles, Untouched
<1>4. CASE diskfs_init /\ Errs(FALSE) /\ Goto("login_init")
  <2>1. IInv' /\ (sound => SInv')
    BY <1>4, Short, StepPreserves, StepSInv DEF BInv, Next
  <2>2. phase' = "login_init" /\ sound' = sound
    BY <1>4 DEF Goto, Errs, BInv, BootTypes
  <2>3. \/ ~disk_magic /\ op' = Formatting
        \/ disk_magic /\ op' = NoOp
    BY <1>1, <1>4 DEF diskfs_init
  <2>4. FlagThere => disk_magic
    BY DEF FlagThere, OnDisk
  <2>5. sound => Story'
    BY <1>2, <1>3, <2>2, <2>3, <2>4 DEF BInv, Story, GoodPasswd, Made, Loaded, Installing, Kept,
       Writing, FlagThere, PasswdIs, SameFiles, Untouched, Whole, Owners, NoOp, Formatting
  <2>. QED
    BY <1>2, <2>1, <2>2, <2>3, <2>5 DEF BInv, BootTypes, Phases, Still, NoOp, Formatting
<1>5. CASE InitError /\ Errs(TRUE) /\ Goto("login_init")
  <2>1. IInv'
    BY <1>5, StepPreserves DEF BInv
  <2>2. phase' = "login_init" /\ sound' = FALSE /\ op' = NoOp
    BY <1>1, <1>5 DEF Goto, Errs, InitError
  <2>. QED
    BY <1>2, <2>1, <2>2 DEF BInv, BootTypes, Phases, Still, NoOp
<1>6. CASE /\ powered' = TRUE /\ Goto("installer_run")
           /\ UNCHANGED <<disk, inodes, fs_ready, op, sound>>
  <2>1. IInv'
    BY <1>6 DEF BInv, IInv, TypeOK, OwnSlot, disk
  <2>2. sound => SInv'
    BY <1>1, <1>6, <2>1 DEF BInv, SInv, Apart, Blank, Off, Mounted, Synced, UnderWay, NamesApart,
       disk, NoOp
  <2>3. phase' = "installer_run"
    BY <1>6 DEF Goto
  <2>4. sound => Story'
    BY <1>1, <1>2, <1>3, <1>6, <2>3 DEF BInv, Story, GoodPasswd, Made, Loaded, Installing, Kept,
       Writing, FlagThere, PasswdIs, SameFiles, Untouched, Whole, Owners, NoOp
  <2>. QED
    BY <1>1, <1>2, <1>6, <2>1, <2>2, <2>3, <2>4 DEF BInv, BootTypes, Phases, Still, NoOp
<1>. QED
  BY <1>4, <1>5, <1>6 DEF PowerOn

LEMMA InstallAppsB == ASSUME BInv, NEW n \in Apps, InstallApps(n) PROVE BInv'
<1>1. IInv'
  BY StepPreserves, FileNames DEF BInv, InstallApps, Next, Install
<1>2. /\ phase = "off" /\ op = NoOp /\ install_app(n, "elf", 1)
      /\ UNCHANGED <<phase, users, cfg, session, promised, sound, op, fs_ready, powered>>
  BY DEF BInv, Still, InstallApps, kernel, history, install_app
<1>3. ASSUME sound PROVE SInv' /\ Story'
  <2>1. SInv'
    BY <1>1, <1>2, <1>3, Short, InstallKeeps, FileNames DEF BInv
  <2>2. FilesRead /\ FilesRead'
    BY <1>3, <2>1, Reading, ReadingNext DEF BInv
  <2>3. SameFiles
    BY <1>2, <1>3, <2>1, <2>2, Short, InstallKeepsOthers, FileNames DEF SameFiles, Untouched, BInv
  <2>4. Story'
    BY <1>2, <1>3, <2>3 DEF BInv, Story, GoodPasswd, Made, Loaded, Installing, Kept,
       Writing, FlagThere, PasswdIs, SameFiles, Untouched, Whole, Owners, NoOp
  <2>. QED
    BY <2>1, <2>4
<1>. QED
  BY <1>1, <1>2, <1>3 DEF BInv, BootTypes, Phases, Still, NoOp

LEMMA InstallerRunB == BInv /\ installer_run => BInv'
<1>. SUFFICES ASSUME BInv, installer_run PROVE BInv'
  OBVIOUS
<1>1. Idle /\ phase = "installer_run" /\ UNCHANGED vars
      /\ UNCHANGED <<users, cfg, promised, sound>>
  BY DEF installer_run, From, history
<1>2. IInv' /\ (sound => SInv') /\ SameFiles /\ UNCHANGED <<op, fs_ready, powered>>
  BY <1>1, SameVars
<1>3. \/ ~fs_ready /\ phase' = "shell" /\ session' = "stella"
      \/ fs_ready /\ diskfs_exists("installed") /\ phase' = "login" /\ session' = session
      \/ fs_ready /\ ~diskfs_exists("installed") /\ phase' = "screens" /\ session' = session
  BY DEF installer_run, Goto
<1>4. sound /\ fs_ready /\ FlagThere => diskfs_exists("installed")
  BY <1>1, MemoryTells, FileNames DEF BInv, Ready, FlagThere
<1>5. op = NoOp
  BY <1>1 DEF Idle
<1>6. sound => Story'
  BY <1>1, <1>2, <1>3, <1>4, <1>5 DEF BInv, Story, GoodPasswd, Made, Loaded, Installing, Kept,
     Writing, FlagThere, PasswdIs, SameFiles, Untouched, Whole, Owners, NoOp
<1>. QED
  BY <1>1, <1>2, <1>3, <1>5, <1>6 DEF BInv, BootTypes, Phases, Still, NoOp

LEMMA ConfirmB == ASSUME BInv, NEW account \in Accounts, Confirm(account) PROVE BInv'
<1>1. /\ phase = "screens" /\ phase' = "flag" /\ cfg' = account /\ diskfs_format
      /\ UNCHANGED <<users, session, promised, sound>>
  BY DEF Confirm, From, Goto, history
<1>2. IInv' /\ (sound => SInv')
  BY <1>1, Short, StepPreserves, StepSInv DEF BInv, Next, Call
<1>3. op' = Formatting /\ UNCHANGED disk
  BY <1>1 DEF diskfs_format
<1>4. SameFiles
  BY <1>3, SameDisk, FileNames DEF SameFiles, Untouched
<1>5. sound => Story'
  BY <1>1, <1>3, <1>4 DEF BInv, Story, GoodPasswd, Made, Loaded, Installing, Kept,
     Writing, FlagThere, PasswdIs, SameFiles, Untouched, Whole, Owners, Formatting
<1>. QED
  BY <1>1, <1>2, <1>3, <1>5 DEF BInv, BootTypes, Phases, Still, Formatting

(* A file written by kmain: what every such call has in common. *)
LEMMA WriteKeeps ==
  ASSUME BInv, NEW n \in Names, NEW v \in Vals, diskfs_write(n, v, 1)
  PROVE  IInv' /\ (sound => SInv') /\ SameFiles
<1>1. IInv'
  BY WritePreserves, FileNames DEF BInv
<1>2. sound => SInv'
  BY <1>1, Short, WriteStarts, FileNames DEF BInv
<1>3. SameFiles
  BY WriteBegins, SameDisk, FileNames DEF SameFiles, Untouched
<1>. QED
  BY <1>1, <1>2, <1>3

LEMMA ScreenInstallingB == BInv /\ screen_installing => BInv'
<1>. SUFFICES ASSUME BInv, screen_installing PROVE BInv'
  OBVIOUS
<1>1. ASSUME NEW p, NEW n \in {"passwd", "installed", "README", "homepath"}, NEW v \in Vals, NEW q,
             WriteFile(p, n, v, q)
      PROVE  /\ phase = p /\ phase' = q /\ UNCHANGED <<users, cfg, session, promised, sound>>
             /\ op'.kind = "write" /\ op'.name = n /\ op'.val = v /\ op'.size = 1 /\ op' # NoOp
             /\ op = NoOp /\ UNCHANGED fs_ready
             /\ IInv' /\ (sound => SInv') /\ SameFiles
  BY <1>1, WriteBegins, WriteKeeps, FileNames DEF WriteFile, From, Goto, history
<1>2. PICK n \in {"passwd", "installed", "README", "homepath"}, v \in Vals :
        /\ \/ phase = "flag" /\ n = "installed" /\ phase' = "accounts"
           \/ phase = "accounts" /\ n = "passwd" /\ v = cfg /\ phase' = "readme"
           \/ phase = "readme" /\ n = "README" /\ phase' = "home"
           \/ phase = "home" /\ n = "homepath" /\ phase' = "installed"
        /\ UNCHANGED <<users, cfg, session, promised, sound>>
        /\ op'.kind = "write" /\ op'.name = n /\ op'.val = v /\ op'.size = 1 /\ op' # NoOp
        /\ op = NoOp
        /\ IInv' /\ (sound => SInv') /\ SameFiles
  <2>1. CASE WriteFile("flag", "installed", "flag", "accounts")
    BY <1>1, <2>1, FileNames
  <2>2. CASE WriteFile("accounts", "passwd", cfg, "readme")
    <3>1. cfg \in Vals
      BY <2>2, FileNames DEF WriteFile, From, BInv, Still
    <3>. QED
      BY <1>1, <2>2, <3>1
  <2>3. CASE WriteFile("readme", "README", "text", "home")
    BY <1>1, <2>3, FileNames
  <2>4. CASE WriteFile("home", "homepath", "text", "installed")
    BY <1>1, <2>4, FileNames
  <2>. QED
    BY <2>1, <2>2, <2>3, <2>4 DEF screen_installing
<1>3. cfg \in Accounts
  BY <1>2 DEF BInv, Still
<1>4. sound => Story'
  <2>. SUFFICES ASSUME sound PROVE Story'
    OBVIOUS
  <2>1. GoodPasswd'
    BY <1>2, <1>3 DEF BInv, Story, GoodPasswd, SameFiles, Untouched, Writing, Owners
  <2>2. Installing'
    <3>1. FlagThere' = FlagThere /\ PasswdIs(cfg)' = PasswdIs(cfg) /\ UNCHANGED cfg
      BY <1>2 DEF SameFiles, Untouched, FlagThere, PasswdIs, Whole
    <3>2. Installing /\ ~Writing("installed") /\ ~Writing("passwd")
      BY <1>2 DEF BInv, Story, Writing, NoOp
    <3>3. phase \in {"accounts", "readme", "home"} => FlagThere
      BY <1>2, <3>2 DEF Installing
    <3>4. phase \in {"readme", "home"} => PasswdIs(cfg)
      BY <1>2, <3>2 DEF Installing
    <3>. QED
      BY <1>2, <3>1, <3>3, <3>4 DEF Installing, Writing
  <2>3. Kept' /\ Made' /\ Loaded'
    BY <1>2 DEF BInv, Story, Kept, Made, Loaded
  <2>. QED
    BY <2>1, <2>2, <2>3 DEF Story
<1>5. BootTypes' /\ Still'
  BY <1>2, <1>3 DEF BInv, BootTypes, Phases, Still
<1>. QED
  BY <1>2, <1>4, <1>5 DEF BInv

(***************************************************************************)
(* login_init, called at p and left at q.                                  *)
(***************************************************************************)
LEMMA LoginInitB ==
  ASSUME BInv, NEW p, NEW made, NEW q,
         \/ p = "login_init" /\ made = "login_made" /\ q = "installer_run"
         \/ p = "reload" /\ made = "reload_made" /\ q = "shell",
         login_init(p, made, q)
  PROVE  BInv'
<1>1. CASE /\ From(p)
           /\ ~fs_ready \/ PasswdThere
           /\ users' = IF fs_ready THEN Passwd ELSE users
           /\ Goto(q)
           /\ UNCHANGED <<vars, cfg, session, history>>
  <2>1. /\ phase = p /\ phase' = q /\ Idle /\ op = NoOp
        /\ UNCHANGED vars /\ UNCHANGED <<cfg, session, promised, sound>>
    BY <1>1 DEF From, Goto, history, Idle
  <2>2. IInv' /\ (sound => SInv') /\ SameFiles /\ UNCHANGED <<op, fs_ready, powered>>
    BY <2>1, SameVars
  <2>3. users' \in Accounts \cup {"default", "none"}
    BY <1>1, FileNames DEF Passwd, parse_passwd, BInv, BootTypes
  <2>4. ASSUME sound PROVE Story'
    <3>1. fs_ready => Passwd \in Owners /\ \A a \in Accounts : PasswdIs(a) => Passwd = a
      BY <1>1, <2>1, <2>4, Parsed DEF BInv, Story, Ready
    <3>2. fs_ready => users' \in Owners /\ \A a \in Accounts : PasswdIs(a) => users' = a
      BY <1>1, <3>1
    <3>3. FlagThere' = FlagThere /\ \A a : PasswdIs(a)' = PasswdIs(a)
      BY <2>2 DEF SameFiles, Untouched, FlagThere, PasswdIs, Whole
    <3>4. GoodPasswd'
      BY <2>1, <2>2, <2>4 DEF BInv, Story, GoodPasswd, SameFiles, Untouched, Writing, NoOp
    <3>5. Made' /\ Loaded' /\ Installing'
      BY <2>1, <2>2, <3>2, FileNames DEF Made, Loaded, Installing, Owners
    <3>6. Kept'
      BY <2>1, <2>2, <2>4, <3>2, <3>3 DEF BInv, BootTypes, Story, Kept
    <3>. QED
      BY <3>4, <3>5, <3>6 DEF Story
  <2>. QED
    BY <2>1, <2>2, <2>3, <2>4 DEF BInv, BootTypes, Phases, Still, NoOp
<1>2. CASE /\ From(p)
           /\ fs_ready
           /\ diskfs_write("passwd", "default", 1)
           /\ Errs(PasswdThere)
           /\ Goto(made)
           /\ UNCHANGED <<users, cfg, session, promised>>
  <2>1. /\ phase = p /\ phase' = made /\ UNCHANGED <<users, cfg, session, promised>>
        /\ sound' = (sound /\ ~PasswdThere) /\ op = NoOp /\ Idle
    BY <1>2 DEF From, Goto, Errs, Idle
  <2>2. /\ op'.kind = "write" /\ op'.name = "passwd" /\ op'.val = "default" /\ op'.size = 1
        /\ op' # NoOp /\ fs_ready /\ fs_ready'
    <3>1. diskfs_write("passwd", "default", 1)
      BY <1>2
    <3>2. fs_ready /\ UNCHANGED <<fs_ready, powered>>
      BY <3>1, WriteBegins
    <3>. QED
      BY <3>1, <3>2, WriteBegins
  <2>3. IInv' /\ (sound => SInv') /\ SameFiles
    BY <1>2, WriteKeeps, FileNames
  <2>4. ASSUME sound' PROVE Story'
    <3>1. sound /\ ~PasswdThere
      BY <2>1, <2>4
    <3>2. OnDisk("passwd") = Missing
      BY <2>1, <2>2, <3>1, PasswdIsThere DEF BInv, Story, Ready
    <3>3. promised = "none"
      BY <3>1, <3>2, WholeThere, FileNames DEF BInv, BootTypes, Story, Kept, PasswdIs
    <3>4. GoodPasswd'
      BY <2>2, <2>3, <3>2 DEF GoodPasswd, SameFiles, Untouched, Writing, Owners
    <3>5. Made' /\ Loaded' /\ Installing'
      BY <2>1, <2>2 DEF Made, Loaded, Installing, Writing
    <3>6. Kept'
      BY <2>1, <3>3 DEF Kept
    <3>. QED
      BY <3>4, <3>5, <3>6 DEF Story
  <2>5. BootTypes' /\ Still'
    BY <2>1, <2>2 DEF BInv, BootTypes, Phases, Still
  <2>. QED
    BY <2>1, <2>3, <2>4, <2>5 DEF BInv
<1>3. CASE /\ From(made)
           /\ \/ PasswdThere /\ users' = Passwd /\ UNCHANGED sound
              \/ Errs(PasswdThere) /\ UNCHANGED users
           /\ Goto(q)
           /\ UNCHANGED <<vars, cfg, session, promised>>
  <2>1. /\ phase = made /\ phase' = q /\ Idle /\ op = NoOp
        /\ UNCHANGED vars /\ UNCHANGED <<cfg, session, promised>>
        /\ sound' \in BOOLEAN /\ (sound' => sound)
    <3>1. sound \in BOOLEAN
      BY DEF BInv, BootTypes
    <3>2. sound' = sound \/ sound' = FALSE
      <4>1. CASE Errs(PasswdThere) /\ PasswdThere
        <5>1. sound' = FALSE
          BY <4>1 DEF Errs
        <5>. QED
          BY <5>1
      <4>2. CASE Errs(PasswdThere) /\ ~PasswdThere
        <5>1. sound' = sound
          BY <3>1, <4>2 DEF Errs
        <5>. QED
          BY <5>1
      <4>. QED
        BY <1>3, <4>1, <4>2
    <3>3. sound' \in BOOLEAN /\ (sound' => sound)
      <4>1. CASE sound' = sound
        <5>1. sound' \in BOOLEAN
          BY <3>1, <4>1
        <5>2. sound' => sound
          BY <4>1
        <5>. QED
          BY <5>1, <5>2
      <4>2. CASE sound' = FALSE
        BY <4>2
      <4>. QED
        BY <3>2, <4>1, <4>2
    <3>. QED
      BY <1>3, <3>3 DEF From, Goto, Idle
  <2>2. IInv' /\ (sound => SInv') /\ SameFiles /\ UNCHANGED <<op, fs_ready, powered>>
    BY <2>1, SameVars
  <2>3. users' \in Accounts \cup {"default", "none"}
    BY <1>3, FileNames DEF Passwd, parse_passwd, BInv, BootTypes
  <2>4. ASSUME sound' PROVE Story'
    <3>1. SInv /\ Story /\ sound
      BY <2>1, <2>4 DEF BInv
    <3>2. fs_ready /\ OnDisk("passwd") # Missing
      BY <2>1, <3>1 DEF Story, Made, Writing, NoOp
    <3>3. PasswdThere /\ Ready
      BY <2>1, <3>1, <3>2, PasswdIsThere DEF Story, Ready
    <3>4. users' = Passwd /\ Passwd \in Owners
      BY <1>3, <2>4, <3>1, <3>3, Parsed DEF Errs, Story
    <3>5. promised = "none"
      BY <2>1, <3>1 DEF Story, Kept
    <3>6. GoodPasswd'
      BY <2>1, <2>2, <3>1 DEF Story, GoodPasswd, SameFiles, Untouched, Writing, NoOp
    <3>7. Made' /\ Loaded' /\ Installing'
      BY <2>1, <2>2, <3>4, FileNames DEF Made, Loaded, Installing, Owners
    <3>8. Kept'
      BY <2>1, <3>5 DEF Kept
    <3>. QED
      BY <3>6, <3>7, <3>8 DEF Story
  <2>. QED
    BY <2>1, <2>2, <2>3, <2>4 DEF BInv, BootTypes, Phases, Still, NoOp
<1>. QED
  BY <1>1, <1>2, <1>3 DEF login_init

LEMMA InstalledB == BInv /\ Installed => BInv'
<1>. SUFFICES ASSUME BInv, Installed PROVE BInv'
  OBVIOUS
<1>1. /\ phase = "installed" /\ phase' = "reload" /\ op = NoOp /\ cfg \in Accounts
      /\ promised' = cfg /\ session' = cfg
      /\ UNCHANGED vars /\ UNCHANGED <<users, cfg, sound>>
  BY DEF Installed, From, Goto, Idle, BInv, Still
<1>2. IInv' /\ (sound => SInv') /\ SameFiles /\ UNCHANGED <<op, fs_ready, powered>>
  BY <1>1, SameVars
<1>3. ASSUME sound PROVE Story'
  <2>1. FlagThere' /\ PasswdIs(promised)'
    BY <1>1, <1>2, <1>3 DEF BInv, Story, Installing, SameFiles, Untouched, FlagThere, PasswdIs, Whole
  <2>2. GoodPasswd'
    BY <1>1, <1>2, <1>3 DEF BInv, Story, GoodPasswd, SameFiles, Untouched, Writing, NoOp
  <2>3. Made' /\ Loaded' /\ Installing'
    BY <1>1 DEF Made, Loaded, Installing
  <2>4. Kept'
    BY <1>1, <1>2, <2>1 DEF Kept
  <2>. QED
    BY <2>2, <2>3, <2>4 DEF Story
<1>. QED
  BY <1>1, <1>2, <1>3 DEF BInv, BootTypes, Phases, Still, NoOp

LEMMA LoginScreenB == BInv /\ login_screen => BInv'
<1>. SUFFICES ASSUME BInv, login_screen PROVE BInv'
  OBVIOUS
<1>1. /\ phase = "login" /\ phase' = "shell" /\ op = NoOp
      /\ session' \in {users, "guest"}
      /\ UNCHANGED vars /\ UNCHANGED <<users, cfg, promised, sound>>
  BY DEF login_screen, From, Goto, Idle, history
<1>2. IInv' /\ (sound => SInv') /\ SameFiles /\ UNCHANGED <<op, fs_ready, powered>>
  BY <1>1, SameVars
<1>3. sound => Story'
  BY <1>1, <1>2 DEF BInv, Story, GoodPasswd, Made, Loaded, Installing, Kept, Writing,
     FlagThere, PasswdIs, SameFiles, Untouched, Whole, Owners, NoOp
<1>. QED
  BY <1>1, <1>2, <1>3 DEF BInv, BootTypes, Phases, Still, NoOp

(***************************************************************************)
(* A sector, or an error, of the call under way.                           *)
(***************************************************************************)
LEMMA FailedB == BInv /\ IOError /\ Errs(TRUE) /\ UNCHANGED <<kernel, promised>> => BInv'
<1>. SUFFICES ASSUME BInv, IOError, Errs(TRUE), UNCHANGED <<kernel, promised>> PROVE BInv'
  OBVIOUS
<1>1. IInv'
  BY StepPreserves DEF BInv
<1>2. sound' = FALSE /\ UNCHANGED <<phase, users, cfg, session, promised, powered, fs_ready>>
  BY DEF Errs, kernel, IOError
<1>3. op # NoOp
  BY DEF IOError, NoOp
<1>4. op'.kind # "delete"
  <2>1. CASE op' = NoOp
    BY <2>1 DEF NoOp
  <2>2. CASE op.stage = "inodes" /\ op.kind # "format" /\ GoTo("super", 0)
    <3>1. op \in WriteOps
      BY <1>3, <2>2, Typed DEF BInv, Still, DeleteOps, FormatOps
    <3>. QED
      BY <2>2, <3>1, WriteMoves
  <2>. QED
    BY <2>1, <2>2 DEF IOError
<1>. QED
  BY <1>1, <1>2, <1>3, <1>4 DEF BInv, BootTypes, Still

LEMMA SectorKeeps ==
  ASSUME BInv, Sector
  PROVE  /\ op # NoOp /\ op'.kind # "delete" /\ UNCHANGED powered
         /\ fs_ready => fs_ready'
<1>1. op # NoOp
  BY DEF Sector, DataSector, TableSector, SuperSector, NoOp
<1>2. op \in WriteOps \cup FormatOps
  BY <1>1, Typed DEF BInv, Still, DeleteOps
<1>. QED
  BY <1>1, <1>2, WriteMoves, FormatMoves
     DEF Sector, DataSector, TableSector, SuperSector, NoOp

LEMMA WantThere == ASSUME op \in WriteOps PROVE Want # Missing
<1>1. Want \in [size : 0 .. SecsFile, data : [1 .. SecsFile -> Vals \cup {Zero}]]
  BY WantType DEF Store!Contents, Store!Sectors
<1>. QED
  BY <1>1, DiskFSAssumption

LEMMA SectorB == BInv /\ Sector /\ UNCHANGED <<kernel, sound, promised>> => BInv'
<1>. SUFFICES ASSUME BInv, Sector, UNCHANGED <<kernel, sound, promised>> PROVE BInv'
  OBVIOUS
<1>1. IInv' /\ (sound => SInv')
  BY Short, StepPreserves, StepSInv DEF BInv, Next
<1>2. UNCHANGED <<phase, users, cfg, session, promised, sound>>
  BY DEF kernel
<1>3. op # NoOp /\ op'.kind # "delete" /\ UNCHANGED powered /\ (fs_ready => fs_ready')
  BY SectorKeeps
<1>4. ASSUME sound PROVE Story'
  <2>1. SInv /\ SInv' /\ Story /\ promised = "none"
    BY <1>1, <1>3, <1>4 DEF BInv, Story, Kept
  <2>2. op.kind \in {"write", "format"}
    BY <1>3, Typed DEF BInv, Still, WriteOps, DeleteOps, FormatOps
  <2>3. Loaded' /\ Kept'
    BY <1>2, <1>3, <2>1 DEF BInv, Still, Loaded, Kept
  <2>4. CASE op.kind = "format"
    <3>1. \A m \in Names : OnDisk(m)' \in {Missing, OnDisk(m)}
      BY <2>1, <2>4, SectorEffect
    <3>2. op' = NoOp \/ op'.kind = "format"
      BY <2>1, <2>4, SectorEffect
    <3>3. ~Writing("passwd")' /\ phase \notin {"accounts", "readme", "home", "installed",
                                               "login_made", "reload_made"}
      BY <1>3, <2>1, <2>4, <3>2 DEF Story, Installing, Made, Writing, NoOp
    <3>4. GoodPasswd'
      BY <2>1, <3>1, <3>3, FileNames DEF Story, GoodPasswd
    <3>5. Made' /\ Installing'
      BY <1>2, <3>3 DEF Made, Installing
    <3>. QED
      BY <2>3, <3>4, <3>5 DEF Story
  <2>5. CASE op.kind = "write"
    <3>1. /\ \A m \in Names \ {op.name} : OnDisk(m)' = OnDisk(m)
          /\ \A n \in Names : n = op.name =>
               OnDisk(n)' \in {OnDisk(n), Want} \cup Store!Torn(OnDisk(n), Want)
          /\ \/ op' = NoOp /\ \A n \in Names : n = op.name => OnDisk(n)' = Want
             \/ /\ op'.kind = "write" /\ op'.name = op.name /\ op'.val = op.val
                /\ op'.size = op.size
      BY <2>1, <2>5, SectorEffect
    <3>2. Want.size = op.size /\ Want.data = Content(op.val, op.size)
      BY DEF Want
    <3>3. op.name = "passwd" => op.size = 1 /\ op.val \in Owners /\ Want = Whole(op.val)
      BY <2>1, <2>5 DEF Story, GoodPasswd, Writing, Want, Whole
    <3>4. Want # Missing
      BY <2>1, <2>5, Arguments, WantThere
    <3>5. GoodPasswd'
      <4>1. CASE op.name # "passwd"
        BY <2>1, <3>1, <4>1, FileNames DEF Story, GoodPasswd, Writing, NoOp
      <4>2. CASE op.name = "passwd"
        <5>1. OnDisk("passwd")' # Missing =>
                OnDisk("passwd")'.size = 1 /\ OnDisk("passwd")'.data[1] \in Owners
          <6>1. CASE OnDisk("passwd")' = OnDisk("passwd")
            BY <2>1, <6>1 DEF Story, GoodPasswd
          <6>2. CASE OnDisk("passwd")' = Want
            BY <3>3, <4>2, <6>2, WholeFacts
          <6>3. CASE OnDisk("passwd")' \in Store!Torn(OnDisk("passwd"), Want)
            <7>1. /\ OnDisk("passwd") # Missing
                  /\ OnDisk("passwd")'.size = OnDisk("passwd").size
                  /\ 1 \in Store!Sectors
                  /\ \A i \in Store!Sectors : OnDisk("passwd")'.data[i] \in
                       IF i <= OnDisk("passwd").size THEN {OnDisk("passwd").data[i], Want.data[i]}
                       ELSE {Zero}
              BY <6>3, FileNames DEF Store!Torn, Store!Sectors, DataSectors
            <7>2. OnDisk("passwd").size = 1 /\ OnDisk("passwd").data[1] \in Owners
              BY <2>1, <7>1 DEF Story, GoodPasswd
            <7>3. OnDisk("passwd")'.data[1] \in {OnDisk("passwd").data[1], Want.data[1]}
              <8>1. OnDisk("passwd")'.data[1] \in
                      IF 1 <= OnDisk("passwd").size THEN {OnDisk("passwd").data[1], Want.data[1]}
                      ELSE {Zero}
                BY <7>1
              <8>2. 1 <= OnDisk("passwd").size
                BY <7>2
              <8>. QED
                BY <8>1, <8>2
            <7>4. Want.data[1] \in Owners
              BY <3>3, <4>2, WholeFacts
            <7>. QED
              BY <7>1, <7>2, <7>3, <7>4
          <6>. QED
            BY <3>1, <4>2, <6>1, <6>2, <6>3, FileNames
        <5>2. Writing("passwd")' => op'.size = 1 /\ op'.val \in Owners
          BY <3>1, <3>3, <4>2 DEF Writing, NoOp
        <5>. QED
          BY <5>1, <5>2 DEF GoodPasswd
      <4>. QED
        BY <4>1, <4>2
    <3>6. Made'
      BY <1>2, <1>3, <2>1, <3>1, <3>4, FileNames DEF Story, Made, Writing
    <3>7. Installing'
      <4>1. op.name # "installed" => FlagThere' = FlagThere
        BY <3>1, FileNames DEF FlagThere
      <4>2. op.name # "passwd" => PasswdIs(cfg)' = PasswdIs(cfg)
        BY <1>2, <3>1, FileNames DEF PasswdIs, Whole
      <4>3. phase = "accounts" => Writing("installed")' \/ (op' = NoOp /\ FlagThere')
        BY <1>3, <2>1, <3>1, <3>4, FileNames DEF Story, Installing, Writing, FlagThere
      <4>4. phase = "readme" =>
              /\ FlagThere'
              /\ \/ Writing("passwd")' /\ op'.val = cfg /\ op'.size = 1
                 \/ op' = NoOp /\ PasswdIs(cfg)'
        <5>. SUFFICES ASSUME phase = "readme"
                      PROVE  /\ FlagThere'
                             /\ \/ Writing("passwd")' /\ op'.val = cfg /\ op'.size = 1
                                \/ op' = NoOp /\ PasswdIs(cfg)'
          OBVIOUS
        <5>1. FlagThere /\ op.name = "passwd" /\ op.val = cfg /\ op.size = 1
          BY <1>3, <2>1 DEF Story, Installing, Writing
        <5>2. Want = Whole(cfg)
          BY <3>3, <5>1
        <5>3. Whole(cfg)' = Whole(cfg)
          BY <1>2 DEF Whole
        <5>. QED
          BY <3>1, <4>1, <5>1, <5>2, <5>3, FileNames DEF Writing, PasswdIs
      <4>5. phase = "home" =>
              FlagThere' /\ PasswdIs(cfg)' /\ (Writing("README")' \/ op' = NoOp)
        BY <1>3, <2>1, <3>1, <4>1, <4>2 DEF Story, Installing, Writing
      <4>6. phase = "installed" =>
              FlagThere' /\ PasswdIs(cfg)' /\ (Writing("homepath")' \/ op' = NoOp)
        BY <1>3, <2>1, <3>1, <4>1, <4>2 DEF Story, Installing, Writing
      <4>. QED
        BY <1>2, <4>3, <4>4, <4>5, <4>6 DEF Installing
    <3>. QED
      BY <2>3, <3>5, <3>6, <3>7 DEF Story
  <2>. QED
    BY <2>2, <2>4, <2>5
<1>. QED
  BY <1>1, <1>2, <1>3, <1>4 DEF BInv, BootTypes, Still

----------------------------------------------------------------------------
LEMMA StepB == BInv /\ [BootNext]_bootvars => BInv'
<1>. SUFFICES ASSUME BInv, [BootNext]_bootvars PROVE BInv'
  OBVIOUS
<1>1. CASE PowerOn
  BY <1>1, PowerOnB
<1>2. CASE PowerOff
  BY <1>2, PowerOffB
<1>3. CASE \E n \in Apps : InstallApps(n)
  BY <1>3, InstallAppsB
<1>4. CASE UNCHANGED bootvars
  BY <1>4, SameBoot
<1>5. CASE DiskStep
  BY <1>5, SectorB, FailedB DEF DiskStep
<1>6. CASE login_init("login_init", "login_made", "installer_run")
  BY <1>6, LoginInitB
<1>7. CASE login_init("reload", "reload_made", "shell")
  BY <1>7, LoginInitB
<1>8. CASE \E account \in Accounts : Confirm(account)
  BY <1>8, ConfirmB
<1>. QED
  BY <1>1, <1>2, <1>3, <1>4, <1>5, <1>6, <1>7, <1>8, InstallerRunB, ScreenInstallingB,
     InstalledB, LoginScreenB DEF BootNext, BootStep

LEMMA BootInvariance == BootSpec => []BInv
BY InitB, StepB, PTL DEF BootSpec

(* Types: of the file system and of kmain, the accounts and the installer. *)
THEOREM BootTypeCorrect == BootSpec => []BootTypeOK
<1>1. BInv => BootTypeOK
  BY DEF BInv, IInv, BootTypes, BootTypeOK
<1>. QED
  BY <1>1, BootInvariance, PTL

(***************************************************************************)
(* An installation announced as done is never formatted away (installer.c: *)
(* the flag is found by every later boot; login.c: the accounts are never  *)
(* written over), on a disk that has reported no error.                    *)
(***************************************************************************)
THEOREM InstallationIsKept == BootSpec => []InstallationKept
<1>1. BInv => InstallationKept
  BY DEF BInv, Story, Kept, InstallationKept, FlagThere, PasswdIs, Whole
<1>. QED
  BY <1>1, BootInvariance, PTL

(* Every later boot asks for the account the installer was given. *)
THEOREM LaterBootsAskForIt == BootSpec => []InstallationLasts
<1>1. BInv => InstallationLasts
  BY DEF BInv, Story, Kept, InstallationLasts
<1>. QED
  BY <1>1, BootInvariance, PTL

(* The login screen has accounts to choose from, on a disk without errors. *)
THEOREM SomebodyCan == BootSpec => []SomebodyCanLogIn
<1>1. BInv => SomebodyCanLogIn
  BY DEF BInv, Story, Loaded, SomebodyCanLogIn
<1>. QED
  BY <1>1, BootInvariance, PTL
=============================================================================
