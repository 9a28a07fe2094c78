------------------------------- MODULE DiskFS -------------------------------
(***************************************************************************)
(* fs/diskfs.c over drivers/ata.c: the file system of the ATA disk.        *)
(*                                                                         *)
(* The disk has a superblock, a table of inodes spread over sectors, and   *)
(* one slot of SecsFile sectors per file.  The driver keeps a copy of the  *)
(* table in memory, changes the copy first and then writes sectors one by  *)
(* one; the power may fail between any two of them, and, in FaultySpec,    *)
(* the disk may report an error before any of them.  A sector is written   *)
(* whole or not at all.                                                    *)
(*                                                                         *)
(* The kernel has one thread (see Scheduler), so an operation is never     *)
(* interleaved with another one: op is the operation under way.            *)
(***************************************************************************)
EXTENDS Integers

CONSTANTS
  Names,         \* the file names callers use
  LongNames,     \* those of more than DISKFS_NAME_MAX - 1 characters
  CutName,       \* the first DISKFS_NAME_MAX - 1 characters of the long names
  Apps,          \* those the host installs with apps/install.py
  Vals,          \* contents of a sector of data
  Zero,          \* a sector of zeros
  Missing,       \* no such file
  MaxFiles,      \* DISKFS_MAX_FILES: inodes, and slots
  PerSector,     \* inodes in a sector of the table
  SecsFile,      \* DISKFS_SECS_FILE
  MaxSize        \* largest size, in sectors, that callers ask for

ASSUME DiskFSAssumption ==
  /\ LongNames \subseteq Names /\ CutName \notin LongNames
  /\ Apps \subseteq Names
  /\ Zero \notin Vals
  /\ Missing \notin [size : 0 .. SecsFile, data : [1 .. SecsFile -> Vals \cup {Zero}]]
  /\ MaxFiles \in Nat \ {0} /\ PerSector \in Nat \ {0} /\ SecsFile \in Nat \ {0}
  /\ MaxSize \in Nat

VARIABLES
  disk_magic, disk_inodes, disk_data,  \* on the disk
  inodes, fs_ready,                    \* in memory
  powered,                             \* has the kernel booted
  op                                   \* the call under way

disk == <<disk_magic, disk_inodes, disk_data>>
vars == <<disk_magic, disk_inodes, disk_data, inodes, fs_ready, powered, op>>

Inodes      == 0 .. MaxFiles - 1
Slots       == 0 .. MaxFiles - 1
DataSectors == 1 .. SecsFile
SectorOf(i) == i \div PerSector
LastSector  == SectorOf(MaxFiles - 1)

(* strncpy into inode.name keeps DISKFS_NAME_MAX - 1 characters. *)
Stored(n) == IF n \in LongNames THEN CutName ELSE n

(***************************************************************************)
(* An inode in use names its file, its size in sectors, and its slot.      *)
(***************************************************************************)
NoInode   == [used |-> FALSE]
UsedInode == [used : {TRUE}, name : Names \cup {CutName}, size : 0 .. SecsFile,
              slot : Slots]
EmptyTable == [i \in Inodes |-> NoInode]

(* A buffer of the size of a slot: size sectors of v, then zeros. *)
Content(v, size) == [s \in DataSectors |-> IF s <= size THEN v ELSE Zero]

(***************************************************************************)
(* Calls under way: kind and stage, the next sector of that stage, and the *)
(* arguments.                                                              *)
(***************************************************************************)
NoOp == [kind |-> "none"]
WriteOps == [kind : {"write"}, stage : {"data", "inodes", "super"}, sec : Nat,
             name : Names, val : Vals, size : 0 .. SecsFile, idx : Inodes]
DeleteOps == [kind : {"delete"}, stage : {"inodes", "super"}, sec : Nat,
              name : Names]
FormatOps == [kind : {"format"}, stage : {"super", "inodes"}, sec : Nat]

----------------------------------------------------------------------------
(* A bug to catch: only the first sector of the table is searched. *)
FindsInFirstSector(tab, n) ==
  {i \in Inodes : SectorOf(i) = 0 /\ tab[i].used /\ tab[i].name = n}

(* find_inode, on a table: the first inode in use with that name. *)
Finds(tab, n) == {i \in Inodes : tab[i].used /\ tab[i].name = n}
First(S) == CHOOSE i \in S : \A j \in S : i <= j

(* A bug to catch: no slot is marked used. *)
AnySlot(tab) == Slots

(* alloc_inode and alloc_slot: the first that no inode in use has. *)
FreeInodes(tab) == {i \in Inodes : ~tab[i].used}
FreeSlots(tab)  == Slots \ {tab[i].slot : i \in Inodes \ FreeInodes(tab)}

(* diskfs_read, whole file: the inode in memory, the data on the disk. *)
ReadBy(tab, n) ==
  IF Finds(tab, n) = {} THEN Missing
  ELSE LET ino == tab[First(Finds(tab, n))]
       IN  [size |-> ino.size,
            data |-> [s \in DataSectors |-> IF s <= ino.size
                                            THEN disk_data[ino.slot][s] ELSE Zero]]

diskfs_exists(n) == Finds(inodes, n) # {}
diskfs_read(n)   == IF fs_ready THEN ReadBy(inodes, n) ELSE Missing

----------------------------------------------------------------------------
Idle  == powered /\ op = NoOp
Ready == Idle /\ fs_ready

(***************************************************************************)
(* diskfs_write, up to its first sector: the name is looked up, an inode   *)
(* and a slot are taken if it is new, and the size is set in memory.       *)
(***************************************************************************)
SetInode(i, ino) == inodes' = [inodes EXCEPT ![i] = ino]

WriteAt(i, n, v, size) ==
  op' = [kind |-> "write", stage |-> "data", sec |-> 1, name |-> n, val |-> v,
         size |-> size, idx |-> i]

(* A bug to catch: a file that exists keeps its size. *)
OverwriteSameSize(n, v, size) ==
  /\ diskfs_exists(n)
  /\ WriteAt(First(Finds(inodes, n)), n, v, size)
  /\ UNCHANGED inodes

Overwrite(n, v, size) ==
  /\ diskfs_exists(n)
  /\ LET i == First(Finds(inodes, n))
     IN  SetInode(i, [inodes[i] EXCEPT !.size = size]) /\ WriteAt(i, n, v, size)

CreateNew(n, v, size) ==
  /\ ~diskfs_exists(n)
  /\ FreeInodes(inodes) # {} /\ FreeSlots(inodes) # {}
  /\ LET i == First(FreeInodes(inodes))
     IN  /\ SetInode(i, [used |-> TRUE, name |-> Stored(n), size |-> size,
                         slot |-> First(FreeSlots(inodes))])
         /\ WriteAt(i, n, v, size)

diskfs_write(n, v, asked) ==
  LET size == IF asked > SecsFile THEN SecsFile ELSE asked
  IN  /\ Ready
      /\ Overwrite(n, v, size) \/ CreateNew(n, v, size)
      /\ UNCHANGED <<disk, fs_ready, powered>>

(* A bug to catch: only the superblock is written. *)
diskfs_delete_unsaved(n) ==
  /\ Ready
  /\ diskfs_exists(n)
  /\ SetInode(First(Finds(inodes, n)), NoInode)
  /\ op' = [kind |-> "delete", stage |-> "super", sec |-> 0, name |-> n]
  /\ UNCHANGED <<disk, fs_ready, powered>>

(* diskfs_delete, up to its first sector. *)
diskfs_delete(n) ==
  /\ Ready
  /\ diskfs_exists(n)
  /\ SetInode(First(Finds(inodes, n)), NoInode)
  /\ op' = [kind |-> "delete", stage |-> "inodes", sec |-> 0, name |-> n]
  /\ UNCHANGED <<disk, fs_ready, powered>>

(* diskfs_format, up to its first sector. *)
Formatting == [kind |-> "format", stage |-> "super", sec |-> 0]

diskfs_format ==
  /\ Ready
  /\ op' = Formatting
  /\ UNCHANGED <<disk, inodes, fs_ready, powered>>

(***************************************************************************)
(* diskfs_init at boot: a disk without the magic number is formatted.      *)
(***************************************************************************)
diskfs_init ==
  /\ ~powered
  /\ powered' = TRUE
  /\ \/ /\ ~disk_magic
        /\ op' = Formatting
        /\ UNCHANGED <<inodes, fs_ready>>
     \/ /\ disk_magic
        /\ inodes' = disk_inodes
        /\ fs_ready' = TRUE
        /\ UNCHANGED op
  /\ UNCHANGED disk

(***************************************************************************)
(* A read error in diskfs_init, on the superblock or after k sectors of    *)
(* the table, leaves the file system not ready for good.                   *)
(***************************************************************************)
InitError ==
  /\ ~powered
  /\ powered' = TRUE
  /\ \E k \in 0 .. LastSector :
       /\ disk_magic \/ k = 0
       /\ inodes' = [i \in Inodes |-> IF SectorOf(i) < k THEN disk_inodes[i]
                                      ELSE inodes[i]]
  /\ UNCHANGED <<disk, fs_ready, op>>

----------------------------------------------------------------------------
(***************************************************************************)
(* One sector of ata_write, and what the caller goes on with after the     *)
(* last: data, then the table, then the superblock; a format writes the    *)
(* superblock, clears the table in memory and writes it.                   *)
(***************************************************************************)
GoTo(stage, sec) == op' = [op EXCEPT !.stage = stage, !.sec = sec]

(* A bug to catch: the slot after the file's is written. *)
DataSectorAfter ==
  /\ op.kind = "write" /\ op.stage = "data"
  /\ disk_data' = [disk_data EXCEPT ![(inodes[op.idx].slot + 1) % MaxFiles][op.sec] =
                     Content(op.val, op.size)[op.sec]]
  /\ IF op.sec < SecsFile THEN GoTo("data", op.sec + 1) ELSE GoTo("inodes", 0)
  /\ UNCHANGED <<disk_magic, disk_inodes, inodes, fs_ready, powered>>

DataSector ==
  /\ op.kind = "write" /\ op.stage = "data"
  /\ disk_data' = [disk_data EXCEPT ![inodes[op.idx].slot][op.sec] =
                     Content(op.val, op.size)[op.sec]]
  /\ IF op.sec < SecsFile THEN GoTo("data", op.sec + 1) ELSE GoTo("inodes", 0)
  /\ UNCHANGED <<disk_magic, disk_inodes, inodes, fs_ready, powered>>

TableSector ==
  /\ op.kind # "none" /\ op.stage = "inodes"
  /\ disk_inodes' = [i \in Inodes |-> IF SectorOf(i) = op.sec THEN inodes[i]
                                      ELSE disk_inodes[i]]
  /\ \/ op.sec < LastSector /\ GoTo("inodes", op.sec + 1) /\ UNCHANGED fs_ready
     \/ /\ op.sec = LastSector /\ op.kind # "format"
        /\ GoTo("super", 0)
        /\ UNCHANGED fs_ready
     \/ /\ op.sec = LastSector /\ op.kind = "format"
        /\ op' = NoOp
        /\ fs_ready' = TRUE
  /\ UNCHANGED <<disk_magic, disk_data, inodes, powered>>

SuperSector ==
  /\ op.kind # "none" /\ op.stage = "super"
  /\ disk_magic' = TRUE
  /\ \/ /\ op.kind = "format"
        /\ inodes' = EmptyTable
        /\ GoTo("inodes", 0)
     \/ /\ op.kind # "format"
        /\ op' = NoOp
        /\ UNCHANGED inodes
  /\ UNCHANGED <<disk_inodes, disk_data, fs_ready, powered>>

(***************************************************************************)
(* An error before a sector abandons the rest of that ata_write.  It makes *)
(* diskfs_write return -1 while data is written and diskfs_format always;  *)
(* after the data, diskfs_write and diskfs_delete ignore it.               *)
(***************************************************************************)
IOError ==
  /\ op.kind # "none"
  /\ IF op.stage = "inodes" /\ op.kind # "format" THEN GoTo("super", 0)
     ELSE op' = NoOp
  /\ UNCHANGED <<disk, inodes, fs_ready, powered>>

(* The power fails: memory is lost, what reached the disk stays. *)
Crash ==
  /\ powered
  /\ powered' = FALSE
  /\ inodes' = EmptyTable
  /\ fs_ready' = FALSE
  /\ op' = NoOp
  /\ UNCHANGED disk

----------------------------------------------------------------------------
(***************************************************************************)
(* apps/install.py, run by the host on a formatted disk image while the    *)
(* machine is off: a new file gets an inode and a slot, an existing one    *)
(* only new data.                                                          *)
(***************************************************************************)
FillSlot(slot, v, size) ==
  disk_data' = [disk_data EXCEPT ![slot] = Content(v, size)]

InstallNew(n, v, size) ==
  /\ Finds(disk_inodes, n) = {}
  /\ FreeInodes(disk_inodes) # {} /\ FreeSlots(disk_inodes) # {}
  /\ LET slot == First(FreeSlots(disk_inodes))
     IN  /\ disk_inodes' = [disk_inodes EXCEPT ![First(FreeInodes(disk_inodes))] =
                              [used |-> TRUE, name |-> Stored(n), size |-> size,
                               slot |-> slot]]
         /\ FillSlot(slot, v, size)

InstallUpdate(n, v, size) ==
  /\ Finds(disk_inodes, n) # {}
  /\ FillSlot(disk_inodes[First(Finds(disk_inodes, n))].slot, v, size)
  /\ UNCHANGED disk_inodes

install_app(n, v, size) ==
  /\ ~powered /\ disk_magic
  /\ InstallNew(n, v, size) \/ InstallUpdate(n, v, size)
  /\ UNCHANGED <<disk_magic, inodes, fs_ready, powered, op>>

----------------------------------------------------------------------------
(* `make' creates the disk image filled with zeros: no magic number. *)
Init ==
  /\ disk_magic = FALSE
  /\ disk_inodes = EmptyTable
  /\ disk_data = [s \in Slots |-> Content(Zero, SecsFile)]
  /\ inodes = EmptyTable
  /\ fs_ready = FALSE
  /\ powered = FALSE
  /\ op = NoOp

Call ==
  \/ \E n \in Names, v \in Vals, size \in 0 .. MaxSize : diskfs_write(n, v, size)
  \/ \E n \in Names : diskfs_delete(n)
  \/ diskfs_format

Sector == DataSector \/ TableSector \/ SuperSector

Install == \E n \in Apps, v \in Vals, size \in 0 .. SecsFile : install_app(n, v, size)

Next == Call \/ diskfs_init \/ Sector \/ Crash \/ Install

Spec == Init /\ [][Next]_vars

(* The same on a disk that may report errors. *)
FaultySpec == Init /\ [][Next \/ InitError \/ IOError]_vars

----------------------------------------------------------------------------
TypeOK ==
  /\ disk_magic \in BOOLEAN
  /\ disk_inodes \in [Inodes -> UsedInode \cup {NoInode}]
  /\ disk_data \in [Slots -> [DataSectors -> Vals \cup {Zero}]]
  /\ inodes \in [Inodes -> UsedInode \cup {NoInode}]
  /\ fs_ready \in BOOLEAN
  /\ powered \in BOOLEAN
  /\ op \in WriteOps \cup DeleteOps \cup FormatOps \cup {NoOp}

(* No two inodes in use of a table share what field f gives. *)
Distinct(tab, f(_)) ==
  \A i, j \in Inodes :
    tab[i].used /\ tab[j].used /\ f(tab[i]) = f(tab[j]) => i = j

(***************************************************************************)
(* At every moment, so after a crash or an error at any moment, no two     *)
(* files of the disk or of the table in memory share a slot: no write can  *)
(* reach into another file.                                                *)
(***************************************************************************)
Slot(ino) == ino.slot
SlotsDisjoint == Distinct(disk_inodes, Slot) /\ Distinct(inodes, Slot)

(* The names that fit an inode, and that no longer name is cut to. *)
Fitting == {n \in Names : \A m \in LongNames : n # m /\ n # Stored(m)}

(***************************************************************************)
(* No two files of the disk have the same name, or the second could never  *)
(* be found, replaced or removed: for the names that fit.  Files of longer *)
(* names are all called CutName.                                           *)
(***************************************************************************)
NamesUnique ==
  \A i, j \in Inodes :
    /\ disk_inodes[i].used /\ disk_inodes[j].used
    /\ disk_inodes[i].name = disk_inodes[j].name /\ disk_inodes[i].name \in Fitting
    => i = j

(***************************************************************************)
(* Between calls memory and disk agree: what the kernel lists is what the  *)
(* next boot will find.                                                    *)
(***************************************************************************)
CacheCoherent == Ready => disk_magic /\ inodes = disk_inodes

(* What the next boot would read under name n. *)
OnDisk(n) == IF disk_magic THEN ReadBy(disk_inodes, n) ELSE Missing

(* diskfs_write(n, ...) is returning a size: what it was given is on the disk. *)
Acknowledges(n) ==
  op.kind = "write" /\ op.stage = "super" /\ op.name = n /\ op' = NoOp /\ powered'
    => OnDisk(n)' = [size |-> op.size, data |-> Content(op.val, op.size)]

(***************************************************************************)
(* When diskfs_write has returned a size, what it was given is on the disk *)
(* under that name, if the name is not too long for an inode.              *)
(***************************************************************************)
AckDurable == [][\A n \in Names \ LongNames : Acknowledges(n)]_vars

(***************************************************************************)
(* DiskFS implements FileStore for the names that fit: files are what the  *)
(* next boot would find, and the update under way is the one op describes. *)
(* A call on any other name changes none of these files.                   *)
(***************************************************************************)
update ==
  CASE op.kind = "write" /\ op.name \in Fitting ->
         [kind |-> "replace", name |-> op.name,
          want |-> [size |-> op.size, data |-> Content(op.val, op.size)]]
    [] op.kind = "delete" /\ op.name \in Fitting ->
         [kind |-> "replace", name |-> op.name, want |-> Missing]
    [] op.kind = "format" -> [kind |-> "format"]
    [] OTHER -> NoOp

Store == INSTANCE FileStore WITH Names <- Fitting, NoUpdate <- NoOp,
                                 files <- [n \in Fitting |-> OnDisk(n)]
ImplementsFileStore == Store!Spec
=============================================================================
