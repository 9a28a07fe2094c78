------------------------------ MODULE Session ------------------------------
(***************************************************************************)
(* The files of the users on a machine with a disk, from login to login:   *)
(* the commands of the shell that use both RamFS and DiskFS, and           *)
(* setup_user_home (shell/stellash.c), which builds the home directory     *)
(* from the disk.  RamFS is gone with the power.  DiskFS knows no          *)
(* directories: a file has there the very word the command was given.      *)
(*                                                                         *)
(* A word is the sequence of its parts between slashes: <<"a">> for a,     *)
(* <<".", "a">> for ./a, <<"docs", "a">> for docs/a, <<"", "home">> for    *)
(* /home.  Calls of DiskFS are atomic here and meet no error; DiskFS shows *)
(* what happens inside them.  mkdir, cp, mv and edit touch RamFS alone,    *)
(* and so do paths beyond their buffers and a full table of nodes: Files   *)
(* has them.                                                               *)
(***************************************************************************)
EXTENDS Integers, Sequences, FiniteSets

CONSTANTS
  Words,        \* the words commands are given, the three of System aside
  LongWords,    \* those of more than DISKFS_NAME_MAX - 1 characters
  CutWord,      \* their first DISKFS_NAME_MAX - 1 characters; no other word is so long
  Texts,        \* what a file that is not empty holds
  Users,        \* the accounts whose home is not /
  Docs,         \* the directory that every login makes in such a home
  MAX_CHILDREN, \* nodes a directory may have, the other such directories aside
  MAX_FILES,    \* DISKFS_MAX_FILES, less those of System
  MaxCommands   \* a bound on the commands that change files

README    == <<"README">>
ReadmeTxt == <<"README.txt">>
System    == {<<"passwd">>, <<"installed">>, <<"homepath">>}
Short     == Words \ (LongWords \cup {CutWord})

(* The names of nodes, and the directories, by their paths. *)
Names == Words \cup {CutWord, README, ReadmeTxt, <<"home">>, <<Docs>>}
               \cup {<<u>> : u \in Users}
HomeOf(u) == <<"home", u>>
Dirs  == {<<>>, <<"home">>} \cup {HomeOf(u) : u \in Users}
                            \cup {Append(HomeOf(u), Docs) : u \in Users}

ASSUME SessionAssumption ==
  /\ \A w \in Names : w \in Seq(STRING) /\ w # <<>>
  /\ Words \cap System = {} /\ README \in Words
  /\ LongWords \subseteq Words /\ CutWord \notin LongWords
  /\ {README, ReadmeTxt} \cap (LongWords \cup {CutWord}) = {}
  /\ <<"home">> \notin {ReadmeTxt, <<Docs>>} /\ <<Docs>> # ReadmeTxt
  /\ MAX_CHILDREN \in Nat /\ MAX_CHILDREN >= 2
  /\ MAX_FILES \in Nat \ {0} /\ MaxCommands \in Nat
  /\ Texts \cap {"empty", "missing", "free", "directory", "nothing", "readme", "welcome"} = {}

VARIABLES
  on,    \* a user is logged in
  ram,   \* RamFS: what each name in each directory is
  cwd,   \* cwd_node, by its path
  disk,  \* the table of DiskFS, and what the files in it hold
  home,  \* where the user was put by the login
  fresh, \* no command but cd and cat has been given since the login
  given, \* commands given that change files
  said   \* history: what the last command that named a word to the disk said

vars == <<on, ram, cwd, disk, home, fresh, given, said>>

Contents == Texts \cup {"readme", "welcome", "empty"}
Nodes    == Contents \cup {"free", "directory"}
Inodes   == 1 .. MAX_FILES
NoFile   == [name |-> <<>>, text |-> "missing"]

(* ramfs_init: /home and a README.txt in it; bin, etc, tmp and usr left out. *)
BootRam ==
  [d \in Dirs |-> [n \in Names |->
     IF d = <<>> /\ n = <<"home">> THEN "directory"
     ELSE IF d = <<"home">> /\ n = ReadmeTxt THEN "welcome" ELSE "free"]]

(* The installer has been run: a README is on the disk. *)
Init ==
  /\ on = FALSE /\ fresh = FALSE /\ given = 0
  /\ ram = BootRam /\ cwd = <<>> /\ home = <<>>
  /\ disk = [i \in Inodes |-> IF i = 1 THEN [name |-> README, text |-> "readme"] ELSE NoFile]
  /\ said = [w \in Words |-> "nothing"]

----------------------------------------------------------------------------
(* DiskFS: a name longer than an inode has room for is cut as it is stored, *)
(* and searched for as it is given.                                         *)
Stored(w)   == IF w \in LongWords THEN CutWord ELSE w
Finds(w)    == {i \in Inodes : disk[i].name = w}
FreeInodes  == Finds(<<>>)
First(S)    == CHOOSE i \in S : \A j \in S : i <= j
Read(w)     == IF Finds(w) = {} THEN "missing" ELSE disk[First(Finds(w))].text

diskfs_write(w, text) ==
  disk' = IF Finds(w) # {} THEN [disk EXCEPT ![First(Finds(w))].text = text]
          ELSE IF FreeInodes # {}
          THEN [disk EXCEPT ![First(FreeInodes)] = [name |-> Stored(w), text |-> text]]
          ELSE disk

diskfs_delete(w) ==
  disk' = IF Finds(w) = {} THEN disk ELSE [disk EXCEPT ![First(Finds(w))] = NoFile]

(* RamFS, where it is r: see Files. *)
Children(r, d) == {n \in Names : r[d][n] # "free"}
HasRoom(r, d)  == Cardinality(Children(r, d)) < MAX_CHILDREN

(* A node that exists is returned as it is, if the directory has room. *)
ramfs_create(r, d, n) ==
  IF r[d][n] = "free" THEN [r EXCEPT ![d][n] = "empty"] ELSE r

ramfs_write(r, d, n, text) ==
  IF r[d][n] = "directory" THEN r ELSE [r EXCEPT ![d][n] = text]

ramfs_delete(r, d, n) ==
  IF r[d][n] = "directory" /\ Children(r, d \o n) # {} THEN r
  ELSE [r EXCEPT ![d][n] = "free"]

(***************************************************************************)
(* ramfs_resolve: <<d, n>> is the file n of the directory d, and <<d, <<>>>> *)
(* the directory itself.  One part of a path is a step from a place.       *)
(***************************************************************************)
Places == Dirs \X (Names \cup {<<>>})

StepFrom(c, part) ==
  LET node == IF part \notin {"", ".", ".."} /\ c[2] = <<>> /\ <<part>> \in Names
              THEN ram[c[1]][<<part>>] ELSE "free"
  IN  CASE part \in {"", "."}   -> {c}
        [] part = ".."          -> {<<IF c[2] = <<>> /\ c[1] # <<>>
                                      THEN SubSeq(c[1], 1, Len(c[1]) - 1) ELSE c[1], <<>>>>}
        [] node = "directory"   -> {<<Append(c[1], part), <<>>>>}
        [] node \in Contents    -> {<<c[1], <<part>>>>}
        [] OTHER                -> {}

ramfs_resolve(path) ==
  LET at[i \in 0 .. Len(path)] ==
        IF i = 0 THEN {<< <<>>, <<>> >>}
        ELSE UNION {StepFrom(c, path[i]) : c \in at[i - 1]}
  IN  Places \cap at[Len(path)]

resolve_arg(w) == ramfs_resolve(IF w[1] = "" THEN w ELSE cwd \o w)

FilesAt(w) == {p \in resolve_arg(w) : p[2] # <<>> /\ ram[p[1]][p[2]] \in Contents}

----------------------------------------------------------------------------
(* A bug to catch: only RamFS is looked at. *)
cmd_cat_ram(w) ==
  IF FilesAt(w) # {} THEN LET p == CHOOSE p \in FilesAt(w) : TRUE IN ram[p[1]][p[2]]
  ELSE "missing"

(* What cmd_cat shows: the file in RamFS, or else the one on the disk. *)
cmd_cat(w) ==
  IF FilesAt(w) # {} THEN LET p == CHOOSE p \in FilesAt(w) : TRUE IN ram[p[1]][p[2]]
  ELSE Read(w)

AtPrompt  == on /\ UNCHANGED <<on, home>>
Changes   == AtPrompt /\ given < MaxCommands /\ given' = given + 1 /\ fresh' = FALSE
Says(w, text) == said' = [said EXCEPT ![w] = text]

(***************************************************************************)
(* `'w' salvo no disco': cmd_write does not look at what ramfs_write and   *)
(* diskfs_write return.                                                    *)
(***************************************************************************)
cmd_write(w, text) ==
  /\ Changes
  /\ \/ \E p \in resolve_arg(w) :
          ram' = IF p[2] = <<>> THEN ram ELSE ramfs_write(ram, p[1], p[2], text)
     \/ /\ resolve_arg(w) = {} /\ HasRoom(ram, cwd)
        /\ ram' = ramfs_write(ramfs_create(ram, cwd, w), cwd, w, text)
  /\ diskfs_write(w, text)
  /\ Says(w, text)
  /\ UNCHANGED cwd

(* The node stays as it is if it exists; the file on the disk is emptied. *)
cmd_touch(w) ==
  /\ Changes
  /\ HasRoom(ram, cwd)
  /\ ram' = ramfs_create(ram, cwd, w)
  /\ diskfs_write(w, "empty")
  /\ Says(w, "nothing")
  /\ UNCHANGED cwd

(* A bug to catch: the disk is left alone when RamFS has nothing to delete. *)
cmd_rm_found(w) ==
  /\ Changes
  /\ ram' = ramfs_delete(ram, cwd, w)
  /\ IF ram' # ram THEN diskfs_delete(w) ELSE UNCHANGED disk
  /\ Says(w, "missing")
  /\ UNCHANGED cwd

(* The word is deleted from cwd and, whatever came of that, from the disk. *)
cmd_rm(w) ==
  /\ Changes
  /\ ram' = ramfs_delete(ram, cwd, w)
  /\ diskfs_delete(w)
  /\ Says(w, "missing")
  /\ UNCHANGED cwd

(* To a directory that exists: an absolute word leads to each. *)
cmd_cd ==
  /\ AtPrompt
  /\ \E d \in Dirs :
       /\ d # <<>> =>
            ram[SubSeq(d, 1, Len(d) - 1)][<<d[Len(d)]>>] = "directory"
       /\ cwd' = d
  /\ UNCHANGED <<ram, disk, fresh, given, said>>

(***************************************************************************)
(* setup_user_home: the directories, README.txt from README, then the      *)
(* files that the table lists and that are not empty, in its order: into   *)
(* the node that has the name, or a new one while there is room.  A name   *)
(* as long as an inode has room for may get lost: diskfs_list copies it to *)
(* memory nobody has set, without the byte that ends it.                   *)
(***************************************************************************)
setup_user_home(u) ==
  LET dir  == HomeOf(u)
      made == [n \in Names |->
                 IF n = <<Docs>> THEN "directory"
                 ELSE IF n = ReadmeTxt /\ Read(README) \notin {"missing", "empty"}
                 THEN Read(README) ELSE "free"]
      room == MAX_CHILDREN - Cardinality({n \in Names : made[n] # "free"})
  IN  \E lost \in SUBSET {CutWord} :
        LET listed == {n \in Names \ (lost \cup {README}) : Read(n) \notin {"missing", "empty"}}
            new    == {n \in listed : made[n] = "free"}
            before(n) == {m \in new : First(Finds(m)) < First(Finds(n))}
            loaded == {n \in listed : \/ made[n] \in Contents
                                      \/ made[n] = "free" /\ Cardinality(before(n)) < room}
        IN  ram' = [BootRam EXCEPT
                      ![<<"home">>][<<u>>] = "directory",
                      ![dir] = [n \in Names |-> IF n \in loaded THEN Read(n) ELSE made[n]]]

(* root, whose home is /, gets RamFS as it was booted. *)
Login ==
  /\ ~on
  /\ on' = TRUE /\ fresh' = TRUE
  /\ \/ ram' = BootRam /\ home' = <<>>
     \/ \E u \in Users : setup_user_home(u) /\ home' = HomeOf(u)
  /\ cwd' = home'
  /\ UNCHANGED <<disk, given, said>>

PowerOff ==
  /\ on
  /\ on' = FALSE /\ fresh' = FALSE
  /\ ram' = BootRam /\ cwd' = <<>> /\ home' = <<>>
  /\ UNCHANGED <<disk, given, said>>

Command ==
  \/ \E w \in Words : (\E text \in Texts : cmd_write(w, text)) \/ cmd_touch(w) \/ cmd_rm(w)
  \/ cmd_cd

Next == Login \/ Command \/ PowerOff

Spec == Init /\ [][Next]_vars

----------------------------------------------------------------------------
TypeOK ==
  /\ on \in BOOLEAN /\ fresh \in BOOLEAN /\ given \in 0 .. MaxCommands
  /\ ram \in [Dirs -> [Names -> Nodes]]
  /\ cwd \in Dirs /\ home \in Dirs
  /\ disk \in [Inodes -> [name : Names \cup {<<>>}, text : Contents \cup {"missing"}]]
  /\ said \in [Words -> Texts \cup {"nothing", "missing"}]

(* The word is a path to a file that has another name on the disk: ./a. *)
LeadsElsewhere(w) == \E p \in FilesAt(w) : p # <<home, w>>

(***************************************************************************)
(* What `write' said was saved on the disk is what `cat' shows after the   *)
(* next login, of whatever user and in whatever directory, whether or not  *)
(* the home had room for it or a directory in its place - unless the word  *)
(* was written, touched or removed again, from any directory.  This is not *)
(* said of words that fill an inode's name or are cut to it, nor of those  *)
(* that lead, as a path, to a file of another name: `cat' takes that one.  *)
(***************************************************************************)
SavedReadsBack ==
  fresh => \A w \in Short :
    said[w] \in Texts /\ ~LeadsElsewhere(w) => cmd_cat(w) = said[w]

(***************************************************************************)
(* The file that `rm' was asked to remove, no login brings back, for the   *)
(* same words - but for README.txt, of which every login makes a copy of   *)
(* README.  The directories that every login makes do come back; `cat'     *)
(* does not show a directory.                                              *)
(***************************************************************************)
RemovedStaysRemoved ==
  fresh => \A w \in Short :
    said[w] = "missing" /\ ~LeadsElsewhere(w) =>
      \/ cmd_cat(w) = "missing"
      \/ w = ReadmeTxt /\ cmd_cat(w) = Read(README)
=============================================================================
