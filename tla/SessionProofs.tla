--------------------------- MODULE SessionProofs ---------------------------
(***************************************************************************)
(* What the shell says of the files of the users is what the next login    *)
(* shows, for any words, texts, users and sizes: what `rm' removed without *)
(* a condition, what `write' saved while the table of the disk has an      *)
(* inode left (cmd_write does not look whether it has).                    *)
(***************************************************************************)
EXTENDS Session, WellFoundedInduction, TLAPS

LEMMA FirstIsIn ==
  ASSUME NEW S \in SUBSET Inodes, S # {}
  PROVE  First(S) \in S
<1>1. S \in SUBSET Nat
  BY SessionAssumption DEF Inodes
<1>2. PICK i \in S : \A j \in S : ~ (<<j, i>> \in OpToRel(<, Nat))
  BY <1>1, NatLessThanWellFounded, WFMin
<1>3. \A j \in S : ~ (j < i)
  BY <1>1, <1>2 DEF OpToRel
<1>4. \A j \in S : i <= j
  BY <1>1, <1>3
<1>. QED
  BY <1>4 DEF First

LEMMA ShortNames ==
  /\ \A w \in Short : w \in Words /\ w \in Names /\ w # <<>> /\ Stored(w) = w
  /\ \A v \in Words, w \in Short : Stored(v) = w => v = w
  /\ Words \subseteq Names /\ CutWord \in Names /\ README \in Names /\ ReadmeTxt \in Names
  /\ <<>> \notin Names
BY SessionAssumption, Zenon DEF Short, Names, Stored

----------------------------------------------------------------------------
LEMMA BootType == BootRam \in [Dirs -> [Names -> Nodes]] /\ <<>> \in Dirs
<1>1. \A d \in Dirs, n \in Names :
         (IF d = <<>> /\ n = <<"home">> THEN "directory"
          ELSE IF d = <<"home">> /\ n = ReadmeTxt THEN "welcome" ELSE "free") \in Nodes
  BY Zenon DEF Nodes, Contents
<1>. QED
  BY <1>1, Zenon DEF BootRam, Dirs

LEMMA TypeInit == Init => TypeOK
<1>. SUFFICES ASSUME Init PROVE TypeOK
  OBVIOUS
<1>1. disk \in [Inodes -> [name : Names \cup {<<>>}, text : Contents \cup {"missing"}]]
  BY ShortNames, SMT DEF Init, NoFile, Contents
<1>2. given \in 0 .. MaxCommands
  BY SessionAssumption, SMT DEF Init
<1>3. said \in [Words -> Texts \cup {"nothing", "missing"}]
  BY Zenon DEF Init
<1>. QED
  BY BootType, <1>1, <1>2, <1>3, Zenon DEF Init, TypeOK

(* What the commands do to RamFS keeps its type. *)
LEMMA RamType ==
  ASSUME NEW r \in [Dirs -> [Names -> Nodes]], NEW d \in Dirs, NEW n \in Names
  PROVE  /\ ramfs_create(r, d, n) \in [Dirs -> [Names -> Nodes]]
         /\ ramfs_delete(r, d, n) \in [Dirs -> [Names -> Nodes]]
         /\ \A text \in Contents : ramfs_write(r, d, n, text) \in [Dirs -> [Names -> Nodes]]
<1>1. \A v \in Nodes : [r EXCEPT ![d][n] = v] \in [Dirs -> [Names -> Nodes]]
  <2>. SUFFICES ASSUME NEW v \in Nodes
                PROVE  [r EXCEPT ![d] = [r[d] EXCEPT ![n] = v]] \in [Dirs -> [Names -> Nodes]]
    BY Zenon
  <2>1. [r[d] EXCEPT ![n] = v] \in [Names -> Nodes]
    BY Zenon
  <2>. QED
    BY <2>1, Zenon
<1>2. "free" \in Nodes /\ "empty" \in Nodes /\ Contents \subseteq Nodes
  BY Zenon DEF Nodes, Contents
<1>. QED
  BY <1>1, <1>2, Zenon DEF ramfs_create, ramfs_delete, ramfs_write

LEMMA FindsInodes == \A w : Finds(w) \subseteq Inodes
BY DEF Finds

LEMMA ReadType ==
  ASSUME TypeOK, NEW w
  PROVE  Read(w) \in Contents \cup {"missing"}
<1>1. CASE Finds(w) = {}
  BY <1>1 DEF Read
<1>2. CASE Finds(w) # {}
  <2>1. First(Finds(w)) \in Inodes
    BY <1>2, FindsInodes, FirstIsIn
  <2>. QED
    BY <1>2, <2>1 DEF Read, TypeOK
<1>. QED
  BY <1>1, <1>2

LEMMA DiskType ==
  ASSUME TypeOK, NEW w \in Words
  PROVE  /\ \A text \in Contents : diskfs_write(w, text) =>
              disk' \in [Inodes -> [name : Names \cup {<<>>}, text : Contents \cup {"missing"}]]
         /\ diskfs_delete(w) =>
              disk' \in [Inodes -> [name : Names \cup {<<>>}, text : Contents \cup {"missing"}]]
<1>. DEFINE File == [name : Names \cup {<<>>}, text : Contents \cup {"missing"}]
<1>1. disk \in [Inodes -> File]
  BY DEF TypeOK
<1>2. ASSUME NEW v, Finds(v) # {} PROVE First(Finds(v)) \in Inodes
  BY <1>2, FindsInodes, FirstIsIn
<1>3. Stored(w) \in Names
  BY ShortNames DEF Stored
<1>4. ASSUME NEW text \in Contents, diskfs_write(w, text)
      PROVE  disk' \in [Inodes -> File]
  <2>1. CASE Finds(w) # {}
    <3>1. disk' = [disk EXCEPT ![First(Finds(w))].text = text]
      BY <1>4, <2>1 DEF diskfs_write
    <3>2. [disk[First(Finds(w))] EXCEPT !.text = text] \in File
      BY <1>1, <1>2, <2>1
    <3>. QED
      BY <1>1, <1>2, <2>1, <3>1, <3>2
  <2>2. CASE Finds(w) = {} /\ FreeInodes # {}
    <3>1. disk' = [disk EXCEPT ![First(FreeInodes)] = [name |-> Stored(w), text |-> text]]
      BY <1>4, <2>2 DEF diskfs_write
    <3>2. [name |-> Stored(w), text |-> text] \in File
      BY <1>3
    <3>. QED
      BY <1>1, <1>2, <2>2, <3>1, <3>2 DEF FreeInodes
  <2>3. CASE Finds(w) = {} /\ FreeInodes = {}
    BY <1>1, <1>4, <2>3 DEF diskfs_write
  <2>. QED
    BY <2>1, <2>2, <2>3
<1>5. ASSUME diskfs_delete(w)
      PROVE  disk' \in [Inodes -> File]
  <2>1. NoFile \in File
    BY DEF NoFile
  <2>. QED
    BY <1>1, <1>2, <1>5, <2>1 DEF diskfs_delete
<1>. QED
  BY <1>4, <1>5

LEMMA CommandType ==
  ASSUME TypeOK, Command
  PROVE  TypeOK'
<1>1. /\ on \in BOOLEAN /\ cwd \in Dirs /\ home \in Dirs /\ ram \in [Dirs -> [Names -> Nodes]]
      /\ given \in 0 .. MaxCommands
      /\ said \in [Words -> Texts \cup {"nothing", "missing"}]
  BY Zenon DEF TypeOK
<1>2. Words \subseteq Names /\ Texts \subseteq Contents /\ "empty" \in Contents
  BY ShortNames, Zenon DEF Contents
<1>3. ASSUME Changes
      PROVE  /\ on' \in BOOLEAN /\ fresh' \in BOOLEAN /\ home' \in Dirs
             /\ given' \in 0 .. MaxCommands
  <2>1. given' \in 0 .. MaxCommands
    BY <1>1, <1>3, SessionAssumption, SMT DEF Changes
  <2>. QED
    BY <1>1, <1>3, <2>1, Zenon DEF Changes, AtPrompt
<1>4. ASSUME NEW w \in Words, NEW told \in Texts \cup {"nothing", "missing"}, Says(w, told)
      PROVE  said' \in [Words -> Texts \cup {"nothing", "missing"}]
  BY <1>1, <1>4, Zenon DEF Says
<1>5. ASSUME NEW w \in Words, NEW text \in Texts, cmd_write(w, text)
      PROVE  TypeOK'
  <2>1. ram' \in [Dirs -> [Names -> Nodes]]
    <3>1. CASE \E p \in resolve_arg(w) :
                 ram' = IF p[2] = <<>> THEN ram ELSE ramfs_write(ram, p[1], p[2], text)
      <4>1. PICK p \in Places :
                   ram' = IF p[2] = <<>> THEN ram ELSE ramfs_write(ram, p[1], p[2], text)
        BY <3>1, Zenon DEF resolve_arg, ramfs_resolve
      <4>2. p[1] \in Dirs /\ (p[2] = <<>> \/ p[2] \in Names)
        BY SMT DEF Places
      <4>. QED
        BY <1>1, <1>2, <4>1, <4>2, RamType, Zenon
    <3>2. CASE ram' = ramfs_write(ramfs_create(ram, cwd, w), cwd, w, text)
      <4>1. w \in Names /\ text \in Contents
        BY <1>2, Zenon
      <4>2. ramfs_create(ram, cwd, w) \in [Dirs -> [Names -> Nodes]]
        BY <1>1, <4>1, RamType, Zenon
      <4>. QED
        BY <1>1, <3>2, <4>1, <4>2, RamType, Zenon
    <3>. QED
      BY <1>5, <3>1, <3>2, Zenon DEF cmd_write
  <2>2. disk' \in [Inodes -> [name : Names \cup {<<>>}, text : Contents \cup {"missing"}]]
    BY <1>2, <1>5, DiskType, Zenon DEF cmd_write
  <2>3. said' \in [Words -> Texts \cup {"nothing", "missing"}]
    BY <1>4, <1>5, Zenon DEF cmd_write
  <2>. QED
    BY <1>1, <1>3, <1>5, <2>1, <2>2, <2>3, Zenon DEF cmd_write, TypeOK
<1>6. ASSUME NEW w \in Words, cmd_touch(w)
      PROVE  TypeOK'
  <2>1. ram' \in [Dirs -> [Names -> Nodes]]
    BY <1>1, <1>2, <1>6, RamType, Zenon DEF cmd_touch
  <2>2. disk' \in [Inodes -> [name : Names \cup {<<>>}, text : Contents \cup {"missing"}]]
    BY <1>2, <1>6, DiskType, Zenon DEF cmd_touch
  <2>3. said' \in [Words -> Texts \cup {"nothing", "missing"}]
    BY <1>4, <1>6, Zenon DEF cmd_touch
  <2>. QED
    BY <1>1, <1>3, <1>6, <2>1, <2>2, <2>3, Zenon DEF cmd_touch, TypeOK
<1>7. ASSUME NEW w \in Words, cmd_rm(w)
      PROVE  TypeOK'
  <2>1. ram' \in [Dirs -> [Names -> Nodes]]
    BY <1>1, <1>2, <1>7, RamType, Zenon DEF cmd_rm
  <2>2. disk' \in [Inodes -> [name : Names \cup {<<>>}, text : Contents \cup {"missing"}]]
    BY <1>7, DiskType, Zenon DEF cmd_rm
  <2>3. said' \in [Words -> Texts \cup {"nothing", "missing"}]
    BY <1>4, <1>7, Zenon DEF cmd_rm
  <2>. QED
    BY <1>1, <1>3, <1>7, <2>1, <2>2, <2>3, Zenon DEF cmd_rm, TypeOK
<1>8. CASE cmd_cd
  BY <1>8, Zenon DEF cmd_cd, AtPrompt, TypeOK
<1>. QED
  BY <1>5, <1>6, <1>7, <1>8, Zenon DEF Command

(***************************************************************************)
(* The home that a login makes: of the disk, README.txt and directories.   *)
(***************************************************************************)
LEMMA HomeMade ==
  ASSUME TypeOK, NEW u \in Users, setup_user_home(u)
  PROVE  /\ ram' \in [Dirs -> [Names -> Nodes]]
         /\ HomeOf(u) \in Dirs
         /\ \A w \in Short :
              \/ ram'[HomeOf(u)][w] \in {"free", "directory", Read(w)}
              \/ /\ w = ReadmeTxt /\ Read(w) \in {"missing", "empty"}
                 /\ ram'[HomeOf(u)][w] = Read(README)
<1>. DEFINE dir  == HomeOf(u)
            made == [n \in Names |->
                       IF n = <<Docs>> THEN "directory"
                       ELSE IF n = ReadmeTxt /\ Read(README) \notin {"missing", "empty"}
                       THEN Read(README) ELSE "free"]
            listed(lost) == {n \in Names \ (lost \cup {README}) : Read(n) \notin {"missing", "empty"}}
<1>1. dir \in Dirs /\ <<"home">> \in Dirs /\ dir # <<"home">>
  <2>1. dir \in Dirs /\ <<"home">> \in Dirs
    BY Zenon DEF Dirs
  <2>2. dir # <<"home">>
    BY SMT DEF HomeOf
  <2>. QED
    BY <2>1, <2>2
<1>2. \A n \in Names : made[n] \in {"directory", "free", Read(README)}
  BY Zenon
<1>3. \A n \in Names : made[n] \in Nodes
  BY ReadType, Zenon DEF Nodes
<1>4. PICK lost \in SUBSET {CutWord} : \E loaded \in SUBSET listed(lost) :
        /\ \A n \in listed(lost) : made[n] \in Contents => n \in loaded
        /\ ram' = [BootRam EXCEPT
                     ![<<"home">>][<<u>>] = "directory",
                     ![dir] = [n \in Names |-> IF n \in loaded THEN Read(n) ELSE made[n]]]
  BY Zenon DEF setup_user_home
<1>5. PICK loaded \in SUBSET listed(lost) :
        /\ \A n \in listed(lost) : made[n] \in Contents => n \in loaded
        /\ ram' = [BootRam EXCEPT
                     ![<<"home">>][<<u>>] = "directory",
                     ![dir] = [n \in Names |-> IF n \in loaded THEN Read(n) ELSE made[n]]]
  BY <1>4, Zenon
<1>6. \A n \in Names : (IF n \in loaded THEN Read(n) ELSE made[n]) \in Nodes
  BY <1>3, ReadType, Zenon DEF Nodes
<1>7. ASSUME NEW w \in Short
      PROVE  \/ (IF w \in loaded THEN Read(w) ELSE made[w]) \in {"free", "directory", Read(w)}
             \/ /\ w = ReadmeTxt /\ Read(w) \in {"missing", "empty"}
                /\ (IF w \in loaded THEN Read(w) ELSE made[w]) = Read(README)
  <2>1. w \in Names /\ w # CutWord
    BY ShortNames, Zenon DEF Short
  <2>2. CASE w \in loaded \/ made[w] \in {"free", "directory"}
    BY <2>2
  <2>3. CASE w \notin loaded /\ made[w] \notin {"free", "directory"}
    <3>1. w = ReadmeTxt /\ made[w] = Read(README) /\ Read(README) # "missing"
      BY <2>1, <2>3, Zenon
    <3>2. made[w] \in Contents
      BY <3>1, ReadType, Zenon
    <3>3. w \notin listed(lost)
      BY <1>5, <2>3, <3>2, Zenon
    <3>4. w # README
      BY <3>1, SMT DEF README, ReadmeTxt
    <3>. QED
      BY <2>1, <2>3, <3>1, <3>3, <3>4, Zenon
  <2>. QED
    BY <2>2, <2>3
<1>. DEFINE filled == [n \in Names |-> IF n \in loaded THEN Read(n) ELSE made[n]]
            above  == [BootRam[<<"home">>] EXCEPT ![<<u>>] = "directory"]
<1>8. filled \in [Names -> Nodes]
  BY <1>6, Zenon
<1>9. above \in [Names -> Nodes]
  BY BootType, <1>1, Zenon DEF Nodes
<1>10. ram' = [BootRam EXCEPT ![<<"home">>] = above, ![dir] = filled]
  BY <1>5, Zenon
<1>. HIDE DEF filled, above, dir
<1>11. ram' \in [Dirs -> [Names -> Nodes]] /\ ram'[dir] = filled
  BY BootType, <1>1, <1>8, <1>9, <1>10, Zenon
<1>12. \A w \in Short : filled[w] = IF w \in loaded THEN Read(w) ELSE made[w]
  BY ShortNames, Zenon DEF filled
<1>. QED
  BY <1>1, <1>7, <1>11, <1>12, Zenon DEF dir

LEMMA LoginType ==
  ASSUME TypeOK, Login
  PROVE  TypeOK'
<1>1. ram' \in [Dirs -> [Names -> Nodes]] /\ home' \in Dirs
  BY HomeMade, BootType, Zenon DEF Login
<1>. QED
  BY <1>1, Zenon DEF Login, TypeOK

(***************************************************************************)
(* The nodes and the disk hold what nodes and the disk may hold.           *)
(***************************************************************************)
LEMMA TypeStep == TypeOK /\ [Next]_vars => TypeOK'
<1>. SUFFICES ASSUME TypeOK, [Next]_vars PROVE TypeOK'
  OBVIOUS
<1>1. CASE PowerOff
  BY <1>1, BootType, Zenon DEF PowerOff, TypeOK
<1>2. CASE UNCHANGED vars
  BY <1>2, Zenon DEF vars, TypeOK
<1>. QED
  BY <1>1, <1>2, CommandType, LoginType, Zenon DEF Next

THEOREM TypeCorrect == Spec => []TypeOK
BY TypeInit, TypeStep, PTL DEF Spec

----------------------------------------------------------------------------
(* What DiskFS has under a short name: at most one file. *)
Once(w) == \A i, j \in Finds(w) : i = j

(***************************************************************************)
(* The inductive invariant.  The history before the login is in the disk,  *)
(* the login in the home: it has no file that the disk has not, README.txt *)
(* aside.                                                                  *)
(***************************************************************************)
OnlyOnce == \A w \in Short : Once(w)

RemovedIsGone == \A w \in Short : said[w] = "missing" => Finds(w) = {}

HomeFromDisk ==
  fresh => \A w \in Short :
             \/ ram[home][w] \in {"free", "directory", Read(w)}
             \/ /\ w = ReadmeTxt /\ Read(w) \in {"missing", "empty"}
                /\ ram[home][w] = Read(README)

IInv == TypeOK /\ OnlyOnce /\ RemovedIsGone /\ HomeFromDisk

(* What holds besides while the table has an inode left. *)
SavedIsThere == \A w \in Short : said[w] \in Texts => Read(w) = said[w]

(* After a login `cat' shows what is on the disk, or README. *)
LEMMA CatShowsDisk ==
  ASSUME IInv, fresh, NEW w \in Short, ~LeadsElsewhere(w)
  PROVE  \/ cmd_cat(w) = Read(w)
         \/ w = ReadmeTxt /\ Read(w) \in {"missing", "empty"} /\ cmd_cat(w) = Read(README)
<1>1. CASE FilesAt(w) = {}
  BY <1>1, Zenon DEF cmd_cat
<1>2. CASE FilesAt(w) # {}
  <2>. DEFINE p == CHOOSE p \in FilesAt(w) : TRUE
  <2>1. p \in FilesAt(w) /\ cmd_cat(w) = ram[p[1]][p[2]]
    BY <1>2, Zenon DEF cmd_cat
  <2>2. p = <<home, w>>
    BY <2>1, Zenon DEF LeadsElsewhere
  <2>3. ram[p[1]][p[2]] \in Contents
    BY <2>1, Zenon DEF FilesAt
  <2>. HIDE DEF p
  <2>4. cmd_cat(w) = ram[home][w] /\ ram[home][w] \in Contents
    BY <2>1, <2>2, <2>3, SMT
  <2>5. "free" \notin Contents /\ "directory" \notin Contents
    BY SessionAssumption, SMT DEF Contents
  <2>. QED
    BY <2>4, <2>5, Zenon DEF IInv, HomeFromDisk
<1>. QED
  BY <1>1, <1>2

LEMMA IInvShows ==
  /\ IInv => RemovedStaysRemoved
  /\ IInv /\ SavedIsThere => SavedReadsBack
<1>1. ASSUME IInv PROVE RemovedStaysRemoved
  <2>. SUFFICES ASSUME fresh, NEW w \in Short, said[w] = "missing", ~LeadsElsewhere(w)
                PROVE  \/ cmd_cat(w) = "missing"
                       \/ w = ReadmeTxt /\ cmd_cat(w) = Read(README)
    BY Zenon DEF RemovedStaysRemoved
  <2>1. Read(w) = "missing"
    BY <1>1, Zenon DEF IInv, RemovedIsGone, Read
  <2>. QED
    BY <1>1, <2>1, CatShowsDisk, Zenon
<1>2. ASSUME IInv, SavedIsThere PROVE SavedReadsBack
  <2>. SUFFICES ASSUME fresh, NEW w \in Short, said[w] \in Texts, ~LeadsElsewhere(w)
                PROVE  cmd_cat(w) = said[w]
    BY Zenon DEF SavedReadsBack
  <2>1. Read(w) = said[w]
    BY <1>2, Zenon DEF SavedIsThere
  <2>2. Read(w) \notin {"missing", "empty"}
    BY <2>1, SessionAssumption, SMT
  <2>. QED
    BY <1>2, <2>1, <2>2, CatShowsDisk, Zenon
<1>. QED
  BY <1>1, <1>2

LEMMA InitInvariant == Init => IInv /\ SavedIsThere
<1>. SUFFICES ASSUME Init PROVE IInv /\ SavedIsThere
  OBVIOUS
<1>1. \A w \in Short : said[w] = "nothing"
  BY ShortNames, Zenon DEF Init
<1>2. "nothing" \notin Texts \cup {"missing"}
  BY SessionAssumption, SMT
<1>3. OnlyOnce
  <2>. SUFFICES ASSUME NEW w \in Short, NEW i \in Finds(w), NEW j \in Finds(w) PROVE i = j
    BY Zenon DEF OnlyOnce, Once
  <2>1. w # <<>>
    BY ShortNames, Zenon
  <2>2. i \in Inodes /\ disk[i].name = w /\ j \in Inodes /\ disk[j].name = w
    BY Zenon DEF Finds
  <2>3. \A k \in Inodes : disk[k].name = w => k = 1
    BY <2>1, SMT DEF Init, NoFile
  <2>. QED
    BY <2>2, <2>3, Zenon
<1>. QED
  BY <1>1, <1>2, <1>3, TypeInit, Zenon DEF Init, IInv, RemovedIsGone, SavedIsThere, HomeFromDisk

(***************************************************************************)
(* What diskfs_write and diskfs_delete leave: every other short name as it *)
(* was, and under a short name at most one file.                           *)
(***************************************************************************)
LEMMA WriteLeaves ==
  ASSUME IInv, NEW v \in Words, NEW text, diskfs_write(v, text)
  PROVE  /\ OnlyOnce'
         /\ \A w \in Short \ {v} : Finds(w)' = Finds(w) /\ Read(w)' = Read(w)
         /\ v \in Short /\ FreeInodes # {} => Read(v)' = text
<1>1. disk \in [Inodes -> [name : Names \cup {<<>>}, text : Contents \cup {"missing"}]]
  BY DEF IInv, TypeOK
<1>2. CASE Finds(v) # {}
  <2>. DEFINE k == First(Finds(v))
  <2>1. k \in Inodes /\ k \in Finds(v) /\ disk[k].name = v
    BY <1>2, FindsInodes, FirstIsIn DEF Finds
  <2>2. disk' = [disk EXCEPT ![k].text = text]
    BY <1>2 DEF diskfs_write
  <2>. HIDE DEF k
  <2>3. /\ \A i \in Inodes : disk'[i].name = disk[i].name
        /\ \A i \in Inodes \ {k} : disk'[i] = disk[i]
        /\ disk'[k].text = text
    BY <1>1, <2>1, <2>2
  <2>4. \A w : Finds(w)' = Finds(w)
    BY <2>3 DEF Finds
  <2>5. ASSUME NEW w \in Short \ {v} PROVE Read(w)' = Read(w)
    <3>1. CASE Finds(w) = {}
      BY <2>4, <3>1 DEF Read
    <3>2. CASE Finds(w) # {}
      <4>1. First(Finds(w)) \in Inodes \ {k}
        BY <2>1, <3>2, FindsInodes, FirstIsIn DEF Finds
      <4>. QED
        BY <2>3, <2>4, <3>2, <4>1 DEF Read
    <3>. QED
      BY <3>1, <3>2
  <2>6. Read(v)' = text
    BY <1>2, <2>3, <2>4 DEF Read, k
  <2>. QED
    BY <2>4, <2>5, <2>6 DEF OnlyOnce, Once, IInv
<1>3. CASE Finds(v) = {} /\ FreeInodes # {}
  <2>. DEFINE k == First(FreeInodes)
  <2>1. k \in Inodes /\ disk[k].name = <<>>
    BY <1>3, FindsInodes, FirstIsIn DEF Finds, FreeInodes
  <2>2. disk' = [disk EXCEPT ![k] = [name |-> Stored(v), text |-> text]]
    BY <1>3 DEF diskfs_write
  <2>. HIDE DEF k
  <2>3. /\ \A i \in Inodes \ {k} : disk'[i] = disk[i]
        /\ disk'[k].name = Stored(v) /\ disk'[k].text = text
    BY <1>1, <2>1, <2>2
  <2>4. ASSUME NEW w \in Short \ {v} PROVE Finds(w)' = Finds(w) /\ Read(w)' = Read(w)
    <3>1. w # <<>> /\ Stored(v) # w
      BY ShortNames
    <3>2. Finds(w)' = Finds(w) /\ k \notin Finds(w)
      BY <2>1, <2>3, <3>1 DEF Finds
    <3>3. CASE Finds(w) = {}
      BY <3>2, <3>3 DEF Read
    <3>4. CASE Finds(w) # {}
      <4>1. First(Finds(w)) \in Inodes \ {k}
        BY <3>2, <3>4, FindsInodes, FirstIsIn
      <4>. QED
        BY <2>3, <3>2, <3>4, <4>1 DEF Read
    <3>. QED
      BY <3>3, <3>4, <3>2
  <2>5. ASSUME v \in Short PROVE Finds(v)' = {k} /\ Read(v)' = text
    <3>1. Stored(v) = v /\ v # <<>>
      BY <2>5, ShortNames
    <3>2. Finds(v)' = {k}
      BY <1>3, <2>1, <2>3, <3>1 DEF Finds
    <3>3. First({k}) = k
      BY <2>1, FirstIsIn
    <3>4. First(Finds(v)')= k
      BY <3>2, <3>3
    <3>. QED
      BY <2>3, <3>2, <3>4 DEF Read
  <2>6. OnlyOnce'
    <3>. SUFFICES ASSUME NEW w \in Short PROVE \A i, j \in Finds(w)' : i = j
      BY DEF OnlyOnce, Once
    <3>. QED
      BY <2>4, <2>5 DEF OnlyOnce, Once, IInv
  <2>. QED
    BY <2>4, <2>5, <2>6
<1>4. CASE Finds(v) = {} /\ FreeInodes = {}
  <2>1. disk' = disk
    BY <1>4 DEF diskfs_write
  <2>2. \A w : Finds(w)' = Finds(w)
    BY <2>1 DEF Finds
  <2>3. \A w : Read(w)' = Read(w)
    BY <2>1, <2>2 DEF Read
  <2>. QED
    BY <1>4, <2>2, <2>3 DEF OnlyOnce, Once, IInv
<1>. QED
  BY <1>2, <1>3, <1>4

LEMMA DeleteLeaves ==
  ASSUME IInv, NEW v \in Words, diskfs_delete(v)
  PROVE  /\ OnlyOnce'
         /\ \A w \in Short \ {v} : Finds(w)' = Finds(w) /\ Read(w)' = Read(w)
         /\ v \in Short => Finds(v)' = {}
<1>1. disk \in [Inodes -> [name : Names \cup {<<>>}, text : Contents \cup {"missing"}]]
  BY DEF IInv, TypeOK
<1>2. CASE Finds(v) # {}
  <2>. DEFINE k == First(Finds(v))
  <2>1. k \in Inodes /\ k \in Finds(v) /\ disk[k].name = v
    BY <1>2, FindsInodes, FirstIsIn DEF Finds
  <2>2. disk' = [disk EXCEPT ![k] = NoFile]
    BY <1>2 DEF diskfs_delete
  <2>. HIDE DEF k
  <2>3. disk'[k].name = <<>> /\ \A i \in Inodes \ {k} : disk'[i] = disk[i]
    BY <1>1, <2>1, <2>2 DEF NoFile
  <2>4. ASSUME NEW w \in Short PROVE Finds(w)' = Finds(w) \ {k}
    <3>1. w # <<>>
      BY ShortNames
    <3>. QED
      BY <2>3, <3>1 DEF Finds
  <2>5. ASSUME NEW w \in Short \ {v} PROVE Finds(w)' = Finds(w) /\ Read(w)' = Read(w)
    <3>1. k \notin Finds(w)
      BY <2>1 DEF Finds
    <3>2. Finds(w)' = Finds(w)
      BY <2>4, <3>1
    <3>3. CASE Finds(w) = {}
      BY <3>2, <3>3 DEF Read
    <3>4. CASE Finds(w) # {}
      <4>1. First(Finds(w)) \in Inodes \ {k}
        BY <3>1, <3>4, FindsInodes, FirstIsIn
      <4>. QED
        BY <2>3, <3>2, <3>4, <4>1 DEF Read
    <3>. QED
      BY <3>2, <3>3, <3>4
  <2>. QED
    BY <2>1, <2>4, <2>5 DEF OnlyOnce, Once, IInv
<1>3. CASE Finds(v) = {}
  <2>1. disk' = disk
    BY <1>3 DEF diskfs_delete
  <2>2. \A w : Finds(w)' = Finds(w)
    BY <2>1 DEF Finds
  <2>3. \A w : Read(w)' = Read(w)
    BY <2>1, <2>2 DEF Read
  <2>. QED
    BY <1>3, <2>2, <2>3 DEF OnlyOnce, Once, IInv
<1>. QED
  BY <1>2, <1>3

(* What a command says of the word v, and leaves of the others. *)
LEMMA SaysOf ==
  ASSUME IInv, NEW v \in Words, NEW told, said' = [said EXCEPT ![v] = told]
  PROVE  /\ v \in Short => said'[v] = told
         /\ \A w \in Short \ {v} : said'[w] = said[w]
BY ShortNames, Zenon DEF IInv, TypeOK

LEMMA WriteKeeps ==
  ASSUME IInv, TypeOK', NEW v \in Words, NEW text, NEW told,
         diskfs_write(v, text), Says(v, told), fresh' = FALSE, told # "missing"
  PROVE  /\ IInv'
         /\ SavedIsThere /\ FreeInodes # {} /\ (told \in Texts => text = told) => SavedIsThere'
<1>1. /\ v \in Short => said'[v] = told
      /\ \A w \in Short \ {v} : said'[w] = said[w]
  BY SaysOf, Zenon DEF Says
<1>2. /\ OnlyOnce'
      /\ \A w \in Short \ {v} : Finds(w)' = Finds(w) /\ Read(w)' = Read(w)
      /\ v \in Short /\ FreeInodes # {} => Read(v)' = text
  BY WriteLeaves, Zenon
<1>3. RemovedIsGone'
  <2>. SUFFICES ASSUME NEW w \in Short, said'[w] = "missing" PROVE Finds(w)' = {}
    BY Zenon DEF RemovedIsGone
  <2>. QED
    BY <1>1, <1>2, Zenon DEF IInv, RemovedIsGone
<1>4. ASSUME SavedIsThere, FreeInodes # {}, told \in Texts => text = told
      PROVE  SavedIsThere'
  <2>. SUFFICES ASSUME NEW w \in Short, said'[w] \in Texts PROVE Read(w)' = said'[w]
    BY Zenon DEF SavedIsThere
  <2>. QED
    BY <1>1, <1>2, <1>4, Zenon DEF SavedIsThere
<1>5. HomeFromDisk'
  BY Zenon DEF HomeFromDisk
<1>. QED
  BY <1>2, <1>3, <1>4, <1>5, Zenon DEF IInv

LEMMA DeleteKeeps ==
  ASSUME IInv, TypeOK', NEW v \in Words,
         diskfs_delete(v), Says(v, "missing"), fresh' = FALSE
  PROVE  IInv' /\ (SavedIsThere => SavedIsThere')
<1>1. /\ v \in Short => said'[v] = "missing"
      /\ \A w \in Short \ {v} : said'[w] = said[w]
  BY SaysOf, Zenon DEF Says
<1>2. /\ OnlyOnce'
      /\ \A w \in Short \ {v} : Finds(w)' = Finds(w) /\ Read(w)' = Read(w)
      /\ v \in Short => Finds(v)' = {}
  BY DeleteLeaves, Zenon
<1>3. RemovedIsGone'
  <2>. SUFFICES ASSUME NEW w \in Short, said'[w] = "missing" PROVE Finds(w)' = {}
    BY Zenon DEF RemovedIsGone
  <2>. QED
    BY <1>1, <1>2, Zenon DEF IInv, RemovedIsGone
<1>4. "missing" \notin Texts
  BY SessionAssumption, SMT
<1>5. ASSUME SavedIsThere PROVE SavedIsThere'
  <2>. SUFFICES ASSUME NEW w \in Short, said'[w] \in Texts PROVE Read(w)' = said'[w]
    BY Zenon DEF SavedIsThere
  <2>. QED
    BY <1>1, <1>2, <1>4, <1>5, Zenon DEF SavedIsThere
<1>6. HomeFromDisk'
  BY Zenon DEF HomeFromDisk
<1>. QED
  BY <1>2, <1>3, <1>5, <1>6, Zenon DEF IInv

(* Steps that leave the disk and what was said as they are. *)
LEMMA DiskAlone ==
  ASSUME UNCHANGED <<disk, said>>
  PROVE  /\ \A w : Finds(w)' = Finds(w) /\ Read(w)' = Read(w)
         /\ OnlyOnce => OnlyOnce'
         /\ RemovedIsGone => RemovedIsGone'
         /\ SavedIsThere => SavedIsThere'
<1>1. \A w : Finds(w)' = Finds(w)
  BY DEF Finds
<1>2. \A w : Read(w)' = Read(w)
  BY <1>1 DEF Read
<1>. QED
  BY <1>1, <1>2 DEF OnlyOnce, Once, RemovedIsGone, SavedIsThere

LEMMA LoginKeeps ==
  ASSUME IInv, TypeOK', Login
  PROVE  IInv' /\ (SavedIsThere => SavedIsThere')
<1>1. UNCHANGED <<disk, said>>
  BY Zenon DEF Login
<1>2. \A w : Read(w)' = Read(w)
  BY <1>1, DiskAlone, Zenon
<1>3. \A w \in Short :
        \/ ram'[home'][w] \in {"free", "directory", Read(w)}
        \/ /\ w = ReadmeTxt /\ Read(w) \in {"missing", "empty"}
           /\ ram'[home'][w] = Read(README)
  <2>1. CASE ram' = BootRam /\ home' = <<>>
    <3>1. <<>> \in Dirs /\ <<"home">> # <<>>
      BY BootType, SMT
    <3>2. \A w \in Names : BootRam[<<>>][w] \in {"free", "directory"}
      BY <3>1, Zenon DEF BootRam
    <3>. QED
      BY <2>1, <3>2, ShortNames, Zenon
  <2>2. CASE \E u \in Users : setup_user_home(u) /\ home' = HomeOf(u)
    BY <2>2, HomeMade, Zenon DEF IInv
  <2>. QED
    BY <2>1, <2>2, Zenon DEF Login
<1>4. HomeFromDisk'
  BY <1>2, <1>3, Zenon DEF HomeFromDisk
<1>. QED
  BY <1>1, <1>4, DiskAlone, Zenon DEF IInv

LEMMA StepInvariant ==
  /\ IInv /\ [Next]_vars => IInv'
  /\ IInv /\ SavedIsThere /\ FreeInodes # {} /\ [Next]_vars => SavedIsThere'
<1>. SUFFICES ASSUME IInv, [Next]_vars
              PROVE  IInv' /\ (SavedIsThere /\ FreeInodes # {} => SavedIsThere')
  BY Zenon
<1>1. TypeOK'
  BY TypeStep, Zenon DEF IInv
<1>2. CASE Login
  BY <1>1, <1>2, LoginKeeps, Zenon
<1>3. ASSUME NEW w \in Words, NEW text \in Texts, cmd_write(w, text)
      PROVE  IInv' /\ (SavedIsThere /\ FreeInodes # {} => SavedIsThere')
  <2>1. diskfs_write(w, text) /\ Says(w, text) /\ fresh' = FALSE
    BY <1>3, Zenon DEF cmd_write, Changes
  <2>2. text # "missing"
    BY SessionAssumption, SMT
  <2>. QED
    BY <1>1, <2>1, <2>2, WriteKeeps, Zenon
<1>4. ASSUME NEW w \in Words, cmd_touch(w)
      PROVE  IInv' /\ (SavedIsThere /\ FreeInodes # {} => SavedIsThere')
  <2>1. diskfs_write(w, "empty") /\ Says(w, "nothing") /\ fresh' = FALSE
    BY <1>4, Zenon DEF cmd_touch, Changes
  <2>2. "nothing" # "missing" /\ "nothing" \notin Texts
    BY SessionAssumption, SMT
  <2>. QED
    BY <1>1, <2>1, <2>2, WriteKeeps, Zenon
<1>5. ASSUME NEW w \in Words, cmd_rm(w)
      PROVE  IInv' /\ (SavedIsThere /\ FreeInodes # {} => SavedIsThere')
  <2>1. diskfs_delete(w) /\ Says(w, "missing") /\ fresh' = FALSE
    BY <1>5, Zenon DEF cmd_rm, Changes
  <2>. QED
    BY <1>1, <2>1, DeleteKeeps, Zenon
<1>6. CASE cmd_cd
  <2>1. UNCHANGED <<ram, disk, fresh, said, home>>
    BY <1>6, Zenon DEF cmd_cd, AtPrompt
  <2>2. HomeFromDisk'
    BY <2>1, DiskAlone, Zenon DEF IInv, HomeFromDisk
  <2>. QED
    BY <1>1, <2>1, <2>2, DiskAlone, Zenon DEF IInv
<1>7. CASE PowerOff
  <2>1. UNCHANGED <<disk, said>> /\ fresh' = FALSE
    BY <1>7, Zenon DEF PowerOff
  <2>. QED
    BY <1>1, <2>1, DiskAlone, Zenon DEF IInv, HomeFromDisk
<1>8. CASE UNCHANGED vars
  <2>1. UNCHANGED <<ram, disk, fresh, said, home>>
    BY <1>8, Zenon DEF vars
  <2>2. HomeFromDisk'
    BY <2>1, DiskAlone, Zenon DEF IInv, HomeFromDisk
  <2>. QED
    BY <1>1, <2>1, <2>2, DiskAlone, Zenon DEF IInv
<1>. QED
  BY <1>2, <1>3, <1>4, <1>5, <1>6, <1>7, <1>8, Zenon DEF Next, Command

(***************************************************************************)
(* While the table of the disk has an inode left, what `write' said it     *)
(* saved is what `cat' shows after the next login - of words that fit an   *)
(* inode and do not lead, as a path, to a file of another name.            *)
(***************************************************************************)
THEOREM SavesAreKept == Spec /\ [](FreeInodes # {}) => []SavedReadsBack
<1>. DEFINE Room == FreeInodes # {}
<1>1. IInv /\ SavedIsThere /\ Room /\ [Next]_vars => (IInv /\ SavedIsThere)'
  BY StepInvariant
<1>. HIDE DEF Room
<1>2. Spec /\ []Room => []SavedReadsBack
  BY <1>1, InitInvariant, IInvShows, PTL DEF Spec
<1>. QED
  BY <1>2 DEF Room

(***************************************************************************)
(* The file that `rm' was asked to remove, no login brings back, for the   *)
(* same words; README.txt alone comes back, as a copy of README.           *)
(***************************************************************************)
THEOREM RemovalsAreKept == Spec => []RemovedStaysRemoved
BY InitInvariant, StepInvariant, IInvShows, PTL DEF Spec
=============================================================================
